------------------------------ MODULE SitePublish ------------------------------
(***************************************************************************)
(* publish_site on one backend: the archive is fetched and checked in a    *)
(* staging directory, the document root is removed and copied anew, and a  *)
(* shell loop stamps the backend's identity into the pages.  RemoteHost.   *)
(* sudo runs a command that exits non-zero a second time with the password *)
(* if there is one, the loop included.  Apache serves the document root    *)
(* throughout; the site's repository may change between two commands.      *)
(*                                                                         *)
(* A page is told apart by how it spells its head tag and by whether its   *)
(* own text mentions the marker.                                           *)
(***************************************************************************)
EXTENDS Naturals

CONSTANTS
    Pages,              \* every HTML file of either build
    Index,              \* index.html
    OldSite, NewSite,   \* the files of the two builds of the site
    LowerHead,          \* pages with <head> as `grep -e <head' looks for it
    Mentions,           \* pages whose text contains the marker's name
    MaxRuns             \* bound: publications

SiteAssumption ==
    /\ Index \in OldSite \intersect NewSite /\ OldSite \union NewSite \subseteq Pages
    /\ LowerHead \subseteq Pages /\ Mentions \subseteq Pages /\ MaxRuns \in Nat

\* "other": the archive of another repository or branch, without an index.html.
Builds == {"old", "new", "other"}
Site(b) ==
    CASE b = "old" -> OldSite [] b = "new" -> NewSite [] b = "other" -> NewSite \ {Index}

VARIABLES
    upstream,   \* the build the archive URL yields
    stage,      \* the staging directory: which build, and which of its files
    doc,        \* the files of the document root
    content,    \* the build each of them is from
    stamps,     \* the identity tags vmdeploy put into each of them
    todo,       \* the loop's files still to come
    status,     \* exit status of the loop's last command: 0 is success
    again,      \* whether this is sudo's second attempt
    envSet,     \* whether VMDEPLOY_SUDO_PASSWORD is set
    pc, result, runs,
    sedFailed   \* history: pages on which sed failed in this publication

site == <<doc, content, stamps>>
loop == <<todo, status, again>>
vars == <<upstream, stage, site, loop, envSet, pc, result, runs, sedFailed>>

Pcs == {"idle", "clear", "unpack", "check", "remove", "copy", "permissions", "stamp", "each"}

Init ==
    /\ upstream \in Builds
    /\ stage = [build |-> upstream, files |-> {}]
    /\ doc = {} /\ content = [p \in Pages |-> "old"] /\ stamps = [p \in Pages |-> 0]
    /\ todo = {} /\ status = 0 /\ again = FALSE
    /\ envSet \in BOOLEAN
    /\ pc = "idle" /\ result = "none" /\ runs = 0 /\ sedFailed = {}

-----------------------------------------------------------------------------
Goto(from, to) ==
    /\ pc = from
    /\ pc' = to
    /\ UNCHANGED <<upstream, envSet, result, runs>>

Ends(how) ==
    /\ pc' = "idle"
    /\ result' = how
    /\ UNCHANGED <<upstream, envSet, runs>>

\* The site's repository is rebuilt, or the archive URL made to point elsewhere.
Rebuild ==
    /\ upstream' \in Builds \ {upstream}
    /\ UNCHANGED <<stage, site, loop, envSet, pc, result, runs, sedFailed>>

PublishSite ==
    /\ pc = "idle"
    /\ runs < MaxRuns
    /\ runs' = runs + 1
    /\ pc' = "clear"
    /\ result' = "none"
    /\ sedFailed' = {}
    /\ UNCHANGED <<upstream, stage, site, loop, envSet>>

\* An SSH error or a killed command, at any step.
StepRaises ==
    /\ pc # "idle"
    /\ Ends("fail")
    /\ UNCHANGED <<stage, site, loop, sedFailed>>

-----------------------------------------------------------------------------
(* fetch_site_to_guest. *)

ClearStaging ==
    /\ Goto("clear", "unpack")
    /\ stage' = [stage EXCEPT !.files = {}]
    /\ UNCHANGED <<site, loop, sedFailed>>

\* Mutant: the pipeline's exit status is not looked at.
UnpackFailsSilently ==
    \E part \in SUBSET Site(upstream) :
        /\ Goto("unpack", "check")
        /\ stage' = [build |-> upstream, files |-> part]
        /\ UNCHANGED <<site, loop, sedFailed>>

\* Mutant: the directory that wraps the archive is taken for a file of the site.
UnpackWrapped ==
    /\ Goto("unpack", "check")
    /\ stage' = [build |-> upstream, files |-> Site(upstream) \union {"wrapper"}]
    /\ UNCHANGED <<site, loop, sedFailed>>

Unpack ==
    /\ Goto("unpack", "check")
    /\ stage' = [build |-> upstream, files |-> Site(upstream)]
    /\ UNCHANGED <<site, loop, sedFailed>>

\* tar fails on a short archive, and what it unpacked so far stays.
UnpackFails ==
    \E part \in SUBSET Site(upstream) :
        /\ pc = "unpack"
        /\ stage' = [build |-> upstream, files |-> part]
        /\ Ends("fail")
        /\ UNCHANGED <<site, loop, sedFailed>>

\* One top-level directory, and an index.html in it.
CheckRoot ==
    /\ Goto("check", "remove")
    /\ Index \in stage.files
    /\ UNCHANGED <<stage, site, loop, sedFailed>>
CheckFails ==
    /\ pc = "check"
    /\ Index \notin stage.files
    /\ Ends("fail")
    /\ UNCHANGED <<stage, site, loop, sedFailed>>

Fetch == ClearStaging \/ Unpack \/ UnpackFails \/ CheckRoot \/ CheckFails

-----------------------------------------------------------------------------
(* publish_site. *)

\* Mutant: the document root is not removed first.
RemoveNothing ==
    /\ Goto("remove", "copy")
    /\ UNCHANGED <<stage, site, loop, sedFailed>>

\* rm -rf, mkdir -p.
RemoveRoot ==
    /\ Goto("remove", "copy")
    /\ doc' = {}
    /\ UNCHANGED <<stage, content, stamps, loop, sedFailed>>

Copied(files) ==
    /\ doc' = doc \union files
    /\ content' = [p \in Pages |-> IF p \in files THEN stage.build ELSE content[p]]
    /\ stamps' = [p \in Pages |-> IF p \in files THEN 0 ELSE stamps[p]]

Copy ==
    /\ Goto("copy", "permissions")
    /\ Copied(stage.files)
    /\ UNCHANGED <<stage, loop, sedFailed>>

\* A full disk: some files are there, and a second attempt fares no better.
CopyFails ==
    \E part \in SUBSET stage.files :
        /\ pc = "copy"
        /\ Copied(part)
        /\ Ends("fail")
        /\ UNCHANGED <<stage, loop, sedFailed>>

\* chown and chmod of the whole tree.
Permissions ==
    /\ Goto("permissions", "stamp")
    /\ UNCHANGED <<stage, site, loop, sedFailed>>

Install == RemoveRoot \/ Copy \/ CopyFails \/ Permissions

-----------------------------------------------------------------------------
(* stamp_backend_identity. *)

\* grep -rl lists the pages; the loop runs over what it listed.
StampStarts ==
    /\ Goto("stamp", "each")
    /\ todo' = doc \intersect LowerHead
    /\ status' = 0 /\ again' = FALSE
    /\ UNCHANGED <<stage, site, sedFailed>>

\* Mutant: only the site's own text is looked at.
MarkedInSource(p) == p \in Mentions

Marked(p) == p \in Mentions \/ stamps[p] > 0

Consume(p) == todo' = todo \ {p} /\ UNCHANGED <<stage, doc, content, again>>

\* The marker is there: grep succeeds and the loop continues.
SkipPage ==
    \E p \in todo :
        /\ Goto("each", "each")
        /\ Marked(p)
        /\ status' = 0
        /\ Consume(p)
        /\ UNCHANGED <<stamps, sedFailed>>

StampPage ==
    \E p \in todo :
        /\ Goto("each", "each")
        /\ ~Marked(p)
        /\ status' = 0
        /\ stamps' = [stamps EXCEPT ![p] = @ + 1]
        /\ Consume(p)
        /\ UNCHANGED sedFailed

\* sed fails on one page, and the loop goes on.
SedFails ==
    \E p \in todo :
        /\ Goto("each", "each")
        /\ ~Marked(p)
        /\ status' = 1
        /\ sedFailed' = sedFailed \union {p}
        /\ Consume(p)
        /\ UNCHANGED stamps

\* The loop's exit status is that of its last command.
StampDone ==
    /\ pc = "each" /\ todo = {} /\ status = 0
    /\ stage' = [stage EXCEPT !.files = {}]
    /\ Ends("ok")
    /\ UNCHANGED <<site, loop, sedFailed>>

\* Non-zero: sudo runs the whole loop again with the password.
StampAgain ==
    /\ todo = {} /\ status # 0 /\ envSet /\ ~again
    /\ Goto("each", "each")
    /\ todo' = doc \intersect LowerHead
    /\ status' = 0 /\ again' = TRUE
    /\ UNCHANGED <<stage, site, sedFailed>>

StampRaises ==
    /\ pc = "each" /\ todo = {} /\ status # 0 /\ (again \/ ~envSet)
    /\ Ends("fail")
    /\ UNCHANGED <<stage, site, loop, sedFailed>>

Stamp ==
    \/ StampStarts \/ SkipPage \/ StampPage \/ SedFails
    \/ StampDone \/ StampAgain \/ StampRaises

-----------------------------------------------------------------------------
Next == Rebuild \/ PublishSite \/ StepRaises \/ Fetch \/ Install \/ Stamp

Spec == Init /\ [][Next]_vars

-----------------------------------------------------------------------------
(* Properties. *)

\* Every variable keeps its type.
TypeOK ==
    /\ upstream \in Builds
    /\ stage \in [build: Builds, files: SUBSET Pages]
    /\ doc \subseteq Pages /\ content \in [Pages -> Builds] /\ stamps \in [Pages -> Nat]
    /\ todo \subseteq Pages /\ status \in {0, 1}
    /\ again \in BOOLEAN /\ envSet \in BOOLEAN
    /\ pc \in Pcs /\ result \in {"none", "ok", "fail"} /\ runs \in 0..MaxRuns
    /\ sedFailed \subseteq Pages

\* stamp_backend_identity: "repeated runs cannot accumulate duplicate tags", not even
\* when sudo runs the loop a second time because the last sed failed.
NoDuplicateTags == \A p \in Pages : stamps[p] <= 1

Stampable(p) == p \in LowerHead /\ p \notin Mentions

\* publish_site returned: the document root is exactly one build of the site, nothing of
\* an earlier or half-copied one in it, and every page the loop can stamp and on which
\* sed did not fail carries the backend's identity once.
PublishDelivers ==
    pc = "idle" /\ result = "ok" =>
      /\ \E b \in {"old", "new"} : doc = Site(b) /\ \A p \in doc : content[p] = b
      /\ \A p \in doc : Stampable(p) /\ p \notin sedFailed => stamps[p] = 1

\* The two together.
SiteDelivered == PublishDelivers /\ NoDuplicateTags

\* What each step of a publication finds: the whole build staged, an empty document root,
\* the build copied without a tag, the pages the loop is through with stamped.
StepsInv ==
    /\ pc \in {"check", "remove", "copy", "permissions", "stamp", "each"} =>
         stage.files = Site(stage.build)
    /\ pc \in {"remove", "copy", "permissions", "stamp", "each"} => stage.build # "other"
    /\ pc = "copy" => doc = {}
    /\ pc \in {"permissions", "stamp", "each"} =>
         doc = Site(stage.build) /\ \A p \in doc : content[p] = stage.build
    /\ pc = "each" => \A p \in doc \ todo : Stampable(p) => stamps[p] = 1 \/ p \in sedFailed

\* The inductive invariant.
IInv == TypeOK /\ StepsInv /\ SiteDelivered

\* The site that is being served is given up only for a build that was fetched whole:
\* a failed download or an archive that is not a site leaves it as it was.
SiteKeptUntilFetched ==
    [][doc' # doc => stage.build # "other" /\ stage.files = Site(stage.build)]_vars

-----------------------------------------------------------------------------
(* What the documentation says, and the code does not keep. *)

\* stamp_backend_identity: "into every served HTML document", "(case-insensitive)".
EveryDocumentStamped ==
    pc = "idle" /\ result = "ok" /\ sedFailed = {} => \A p \in doc \ Mentions : stamps[p] = 1

\* stamp_backend_identity "Raises WebsiteFetchError: If the injection fails".
InjectionFailureRaises ==
    pc = "idle" /\ result = "ok" => \A p \in sedFailed \intersect doc : stamps[p] = 1
================================================================================
