----------------------------- MODULE ServiceBinary -----------------------------
(***************************************************************************)
(* The inventory binary on a guest: prepare_template compiles it into the  *)
(* template, ensure_service_binary recompiles it on the jump station when  *)
(* the fingerprint beside it differs from the local sources.  Both go      *)
(* through install_go (a pinned archive, cached and verified on the host,  *)
(* uploaded and verified again on the guest) and build_service (sources    *)
(* uploaded one by one, compiled, installed, fingerprint recorded).        *)
(*                                                                         *)
(* The sources are the operator's working tree, edited at any moment.  A   *)
(* fingerprint is the vector of file versions it was computed from.  The   *)
(* login user has passwordless sudo.                                       *)
(***************************************************************************)
EXTENDS Naturals

CONSTANTS
    NFiles,     \* files that define the binary, in upload order
    Versions,   \* contents a file may have
    MaxEdits,   \* bound: edits of the working tree
    MaxRuns     \* bound: commands

BinaryAssumption ==
    /\ NFiles \in Nat \ {0} /\ Versions # {} /\ MaxEdits \in Nat /\ MaxRuns \in Nat

Files == 1..NFiles
Sources == [Files -> Versions]
Recorded == {{}} \union {{s} : s \in Sources}      \* nothing, or one fingerprint

VARIABLES
    src,        \* the local sources
    edits,      \* edits so far
    cache,      \* the archive in the host's cache: "none", "partial", "bad", "good"
    archive,    \* the archive on the guest: "none", "bad", "good"
    go,         \* /usr/local/go: "none", "old", "longer" (1.26.50 for 1.26.5), "partial",
                \* "pinned", "forged"
    link,       \* whether /usr/local/bin/go exists
    staged,     \* the versions uploaded to the build directory
    up,         \* how many of them are uploaded
    bin,        \* what the installed binary was compiled from, a set of at most one
    stamp,      \* the recorded fingerprint, a set of at most one
    wanted,     \* the fingerprint this command computed first
    envSet,     \* whether VMDEPLOY_SUDO_PASSWORD is set
    pc, mode, result, runs,
    edited,     \* history: an edit came while this command ran
    torn,       \* history: bin was installed and not stamped from the same tree
    fault       \* history: some step of this command failed of its own accord

tree == <<src, edits>>
toolchain == <<cache, archive, go, link>>
build == <<staged, up>>
installed == <<bin, stamp, torn>>
control == <<mode, runs, wanted, envSet>>
vars == <<tree, toolchain, build, installed, control, pc, result, edited, fault>>

ReadPcs == {"readhash", "testbin"}
GoPcs == {"goversion", "fetch", "verifyhost", "upload", "verifyguest", "rmgo", "untar",
          "link", "goverify"}
BuildPcs == {"stage", "put", "compile", "install", "stamp"}
Pcs == {"idle"} \union ReadPcs \union GoPcs \union BuildPcs

Init ==
    /\ src \in Sources
    /\ edits = 0
    /\ cache = "none" /\ archive = "none"
    /\ go \in {"none", "old", "longer", "pinned"}
    /\ link = (go # "none")
    /\ staged = src /\ up = 0
    /\ bin = {} /\ stamp = {}
    /\ wanted = src
    /\ envSet \in BOOLEAN
    /\ pc = "idle" /\ mode = "bake" /\ result = "none" /\ runs = 0
    /\ edited = FALSE /\ torn = FALSE /\ fault = FALSE

-----------------------------------------------------------------------------
(* Control. *)

Goto(from, to) ==
    /\ pc = from
    /\ pc' = to
    /\ UNCHANGED <<tree, control, result, edited, fault>>

Finish(from) ==
    /\ pc = from
    /\ pc' = "idle"
    /\ result' = "ok"
    /\ UNCHANGED <<tree, control, edited, fault>>

Raise(isFault) ==
    /\ pc' = "idle"
    /\ result' = "fail"
    /\ fault' = (fault \/ isFault)
    /\ UNCHANGED <<tree, control, edited>>

\* A network error, a timeout, a missing source file: no effect and an exception.
StepRaises ==
    /\ pc # "idle"
    /\ Raise(TRUE)
    /\ UNCHANGED <<toolchain, build, installed>>

Killed ==
    /\ pc # "idle"
    /\ pc' = "idle"
    /\ result' = "killed"
    /\ UNCHANGED <<tree, toolchain, build, installed, control, edited, fault>>

\* The operator, or a checkout, changes one file.
Edit ==
    \E f \in Files, v \in Versions :
        /\ v # src[f]
        /\ edits < MaxEdits
        /\ edits' = edits + 1
        /\ src' = [src EXCEPT ![f] = v]
        /\ edited' = TRUE
        /\ UNCHANGED <<toolchain, build, installed, control, pc, result, fault>>

Begin(m, start) ==
    /\ pc = "idle"
    /\ runs < MaxRuns
    /\ runs' = runs + 1
    /\ mode' = m
    /\ pc' = start
    /\ wanted' = src
    /\ result' = "none"
    /\ edited' = FALSE
    /\ fault' = FALSE
    /\ UNCHANGED <<tree, envSet, toolchain, build, installed>>

\* prepare_template compiles whatever is installed; ensure_service_binary looks first.
PrepareTemplate == Begin("bake", "goversion")
EnsureServiceBinary == Begin("ensure", "readhash")

-----------------------------------------------------------------------------
(* Is the installed binary current? *)

\* RemoteHost.sudo, status not checked, of a command that exits non-zero: taken for a
\* refusal of sudo, so it needs the password and is run again.
Answer(from, to, succeeds) ==
    /\ succeeds \/ envSet
    /\ Goto(from, to)
    /\ UNCHANGED <<toolchain, build, installed>>
NoAnswer(from, succeeds) ==
    /\ pc = from
    /\ ~succeeds /\ ~envSet
    /\ Raise(FALSE)
    /\ UNCHANGED <<toolchain, build, installed>>

\* Mutant: the HTML template, the last file, is not part of the fingerprint.
CurrentButTemplate ==
    bin # {} /\ \E s \in stamp : \A f \in 1..(NFiles - 1) : s[f] = wanted[f]

Current == bin # {} /\ stamp = {wanted}

ReadHash == Answer("readhash", "testbin", stamp # {})
ReadHashRaises == NoAnswer("readhash", stamp # {})
TestBinary == ~Current /\ Answer("testbin", "goversion", bin # {})
TestBinaryRaises == NoAnswer("testbin", bin # {})
SkipCompile ==
    /\ Current
    /\ Finish("testbin")
    /\ UNCHANGED <<toolchain, build, installed>>

Decide == ReadHash \/ ReadHashRaises \/ TestBinary \/ TestBinaryRaises \/ SkipCompile

-----------------------------------------------------------------------------
(* install_go. *)

\* `go version' needs the link and bin/go, which tar extracts before the library; its
\* answer has to start with the pinned version, so a longer number passes for it.
ReportsPinned == link /\ go \in {"pinned", "longer", "partial", "forged"}

OnToolchain(from, to, c, a, g, l) ==
    /\ Goto(from, to)
    /\ cache' = c /\ archive' = a /\ go' = g /\ link' = l
    /\ UNCHANGED <<build, installed>>

ToolchainFails(from, c, a, g) ==
    /\ pc = from
    /\ cache' = c /\ archive' = a /\ go' = g /\ link' = link
    /\ Raise(TRUE)
    /\ UNCHANGED <<build, installed>>

GoPresent == ReportsPinned /\ OnToolchain("goversion", "stage", cache, archive, go, link)
GoAbsent == ~ReportsPinned /\ OnToolchain("goversion", "fetch", cache, archive, go, link)

\* _fetch_go_archive_to_host: the cached copy if its checksum matches, otherwise a
\* download straight over it, verified afterwards and deleted if wrong.
CacheHit == cache = "good" /\ OnToolchain("fetch", "upload", cache, archive, go, link)
DownloadStarts ==
    cache # "good" /\ OnToolchain("fetch", "verifyhost", "partial", archive, go, link)
DownloadEnds ==
    /\ cache = "partial"
    /\ \E c \in {"bad", "good"} : OnToolchain("verifyhost", "verifyhost", c, archive, go, link)
HostVerified == cache = "good" /\ OnToolchain("verifyhost", "upload", cache, archive, go, link)
HostRejects == cache = "bad" /\ ToolchainFails("verifyhost", "none", archive, go)

\* The archive may arrive damaged, so the guest checks the pinned digest again.
Upload ==
    \E a \in {"bad", "good"} : OnToolchain("upload", "verifyguest", cache, a, go, link)
\* Mutant: the digest is checked on the host only.
GuestTrusts == OnToolchain("verifyguest", "rmgo", cache, archive, go, link)

GuestVerified == archive = "good" /\ OnToolchain("verifyguest", "rmgo", cache, archive, go, link)
GuestRejects == archive = "bad" /\ ToolchainFails("verifyguest", cache, "none", go)

RemoveGo == OnToolchain("rmgo", "untar", cache, archive, "none", link)
Untar ==
    OnToolchain("untar", "link", cache, archive,
                IF archive = "good" THEN "pinned" ELSE "forged", link)
UntarFails == ToolchainFails("untar", cache, archive, "partial")     \* a full disk
LinkGo == OnToolchain("link", "goverify", cache, "none", go, TRUE)
GoVerified == ReportsPinned /\ OnToolchain("goverify", "stage", cache, archive, go, link)

InstallGo ==
    \/ GoPresent \/ GoAbsent \/ CacheHit \/ DownloadStarts \/ DownloadEnds \/ HostVerified
    \/ HostRejects \/ Upload \/ GuestVerified \/ GuestRejects \/ RemoveGo \/ Untar
    \/ UntarFails \/ LinkGo \/ GoVerified

-----------------------------------------------------------------------------
(* build_service. *)

\* The build directory is made anew.
Stage ==
    /\ Goto("stage", "put")
    /\ up' = 0
    /\ UNCHANGED <<toolchain, staged, installed>>

\* Each file is read when its turn comes.
PutFile ==
    /\ Goto("put", IF up + 1 = NFiles THEN "compile" ELSE "put")
    /\ up' = up + 1
    /\ staged' = [staged EXCEPT ![up + 1] = src[up + 1]]
    /\ UNCHANGED <<toolchain, installed>>

Compile ==
    /\ go # "partial"
    /\ Goto("compile", "install")
    /\ UNCHANGED <<toolchain, build, installed>>
\* The sources may not compile; without the standard library nothing does.
CompileFails ==
    /\ pc = "compile"
    /\ Raise(TRUE)
    /\ UNCHANGED <<toolchain, build, installed>>

Install ==
    /\ Goto("install", "stamp")
    /\ bin' = {staged}
    /\ torn' = TRUE
    /\ UNCHANGED <<toolchain, build, stamp>>

\* The fingerprint is computed from the local sources as they are now.
Stamp ==
    /\ Finish("stamp")
    /\ stamp' = {src}
    /\ torn' = edited
    /\ UNCHANGED <<toolchain, build, bin>>

BuildService == Stage \/ PutFile \/ Compile \/ CompileFails \/ Install \/ Stamp

-----------------------------------------------------------------------------
Next ==
    \/ PrepareTemplate \/ EnsureServiceBinary \/ Edit
    \/ Decide \/ InstallGo \/ BuildService \/ StepRaises \/ Killed

Spec == Init /\ [][Next]_vars

-----------------------------------------------------------------------------
(* Properties. *)

\* Every variable keeps its type.
TypeOK ==
    /\ src \in Sources /\ staged \in Sources /\ wanted \in Sources
    /\ edits \in 0..MaxEdits /\ runs \in 0..MaxRuns /\ up \in 0..NFiles
    /\ cache \in {"none", "partial", "bad", "good"}
    /\ archive \in {"none", "bad", "good"}
    /\ go \in {"none", "old", "longer", "partial", "pinned", "forged"}
    /\ bin \in Recorded /\ stamp \in Recorded
    /\ pc \in Pcs /\ mode \in {"bake", "ensure"}
    /\ result \in {"none", "ok", "fail", "killed"}
    /\ link \in BOOLEAN /\ envSet \in BOOLEAN
    /\ edited \in BOOLEAN /\ torn \in BOOLEAN /\ fault \in BOOLEAN

\* ensure_service_binary or prepare_template returned and nobody touched the sources
\* meanwhile: the binary on the guest was compiled from exactly them, whatever failed
\* or was killed before, as long as every installed binary got its own fingerprint.
SuccessMeansCurrent ==
    pc = "idle" /\ result = "ok" /\ ~edited /\ ~torn => bin = {src}

\* install_go: "a corrupted or substituted archive fail[s] closed rather than compiling
\* silently", neither from the cache, nor from the download, nor from the upload.
OnlyVerifiedToolchain == go # "forged"

\* The two together.
BinaryTrusted == SuccessMeansCurrent /\ OnlyVerifiedToolchain

\* What is unpacked on the guest was verified there.
ToolchainInv == go # "forged" /\ (pc \in {"rmgo", "untar"} => archive = "good")

\* A fingerprint that is not torn off its binary is that of its sources; while nobody edits
\* them, what is staged, compiled and installed are the sources, file by file.
SourcesInv ==
    /\ ~torn /\ bin # {} => stamp = bin
    /\ pc = "put" => up < NFiles
    /\ ~edited => /\ wanted = src
                  /\ pc = "put" => \A f \in 1..up : staged[f] = src[f]
                  /\ pc \in {"compile", "install"} => staged = src
                  /\ pc = "stamp" => bin = {src}

\* The inductive invariant.
IInv == TypeOK /\ ToolchainInv /\ SourcesInv /\ SuccessMeansCurrent

-----------------------------------------------------------------------------
(* What the documentation says, and the code does not keep. *)

\* build_service: "Record the fingerprint of exactly what was compiled".
FingerprintOfCompiled == pc = "idle" /\ result = "ok" => stamp = bin

\* RemoteHost.sudo: "a correctly configured host never needs the variable" -- with
\* passwordless sudo a command fails only if something goes wrong in it.
PasswordNeverNeeded == result = "fail" => fault

\* install_go: "Install the pinned Go toolchain, unless the exact version is present" --
\* what it leaves alone as present can compile.
PresentMeansUsable == pc \in BuildPcs => go # "partial"
================================================================================
