------------------------------- MODULE ImagePull -------------------------------
(***************************************************************************)
(* scripts/pull-image.ps1 against the registry that publish-image.ps1      *)
(* pushes to.  The appliance lands at the template_ova path itself, where  *)
(* an interrupted pull leaves its bytes, and where an earlier image, or an *)
(* appliance exported on this machine, may lie already.  curl -C - appends *)
(* from the size it finds, whatever the bytes are; an error page served    *)
(* with status 200 or without --fail is saved like an image.  Size and     *)
(* digest are compared at the end.                                         *)
(*                                                                         *)
(* A file is the sequence of its blocks, a block the image it belongs to.  *)
(***************************************************************************)
EXTENDS Naturals, Sequences

CONSTANTS
    Images,         \* images published or exported here
    Size,           \* blocks of each
    Junk,           \* a block that belongs to no image
    Attempts,       \* -Attempts
    MaxPublishes,   \* bound: pushes to the reference
    MaxFaults       \* bound: failures of the network or the registry, stopped runs

PullAssumption ==
    /\ Images # {} /\ Junk \notin Images
    /\ Size \in [Images -> Nat \ {0}]
    /\ Attempts \in Nat \ {0} /\ MaxPublishes \in Nat /\ MaxFaults \in Nat

Whole(i) == [k \in 1..Size[i] |-> i]

VARIABLES
    published,  \* the image the reference names
    publishes,
    file,       \* the file at template_ova, <<>> if there is none
    wanted,     \* the digest and size this run read from the manifest
    attempt,
    faults,
    pc, result

vars == <<published, publishes, file, wanted, attempt, faults, pc, result>>

Init ==
    /\ published \in Images
    /\ publishes = 0
    /\ file \in {<<>>} \union {Whole(i) : i \in Images}
    /\ wanted = published
    /\ attempt = 0 /\ faults = 0
    /\ pc = "idle" /\ result = "none"

-----------------------------------------------------------------------------
\* publish-image.ps1: the tag moves; earlier blobs stay in the registry.
Publish ==
    /\ publishes < MaxPublishes
    /\ publishes' = publishes + 1
    /\ published' \in Images \ {published}
    /\ UNCHANGED <<file, wanted, attempt, faults, pc, result>>

\* The operator runs the script until it has succeeded for the published image.
Start ==
    /\ pc = "idle"
    /\ result # "ok" \/ wanted # published
    /\ pc' = "fetch"
    /\ wanted' = published
    /\ attempt' = 1
    /\ result' = "none"
    /\ UNCHANGED <<published, publishes, file, faults>>

Fails ==
    /\ pc' = "idle"
    /\ result' = "fail"
    /\ UNCHANGED <<published, publishes, wanted, attempt>>

Fault == faults < MaxFaults /\ faults' = faults + 1

\* The registry is unreachable, or the script is stopped.
StepFails == pc # "idle" /\ Fault /\ Fails /\ UNCHANGED file

-----------------------------------------------------------------------------
(* The fetch loop. *)

Goto(from, to) ==
    /\ pc = from
    /\ pc' = to
    /\ UNCHANGED <<published, publishes, wanted, result>>

\* Nothing to fetch: at least as many bytes as the image has.
HaveEnough ==
    /\ Len(file) >= Size[wanted]
    /\ Goto("fetch", "size")
    /\ UNCHANGED <<file, attempt, faults>>

\* The blob's bytes from the current size up to n.
Resumed(n) == [k \in 1..n |-> IF k <= Len(file) THEN file[k] ELSE wanted]

FetchRest ==
    /\ Len(file) < Size[wanted]
    /\ Goto("fetch", "size")
    /\ file' = Resumed(Size[wanted])
    /\ UNCHANGED <<attempt, faults>>

\* The connection drops for good: another attempt, or the last one throws.
Interrupted ==
    /\ pc = "fetch"
    /\ Fault
    /\ \E n \in Len(file)..(Size[wanted] - 1) : file' = Resumed(n)
    /\ IF attempt = Attempts
       THEN Fails
       ELSE Goto("fetch", "fetch") /\ attempt' = attempt + 1

\* An error page in place of the blob, with exit status zero; a range request is
\* refused without a byte.
ErrorPage ==
    /\ file = <<>>
    /\ Fault
    /\ Goto("fetch", "size")
    /\ file' = <<Junk>>
    /\ UNCHANGED attempt

-----------------------------------------------------------------------------
(* Verification. *)

SizeMatches ==
    /\ Len(file) = Size[wanted]
    /\ Goto("size", "digest")
    /\ UNCHANGED <<file, attempt, faults>>
SizeDiffers ==
    /\ pc = "size"
    /\ Len(file) # Size[wanted]
    /\ Fails
    /\ UNCHANGED <<file, faults>>

\* Mutant: the last block, the one this run fetched, is what is hashed.
DigestOfTail(i) == file[Len(file)] = i

DigestIs(i) == file = Whole(i)

DigestMatches ==
    /\ pc = "digest"
    /\ DigestIs(wanted)
    /\ pc' = "idle"
    /\ result' = "ok"
    /\ UNCHANGED <<published, publishes, file, wanted, attempt, faults>>

\* Mutant: the corrupt file is left in place.
DigestDiffersKept ==
    /\ pc = "digest"
    /\ ~DigestIs(wanted)
    /\ Fails
    /\ UNCHANGED <<file, faults>>

DigestDiffers ==
    /\ pc = "digest"
    /\ ~DigestIs(wanted)
    /\ Fails
    /\ file' = <<>>
    /\ UNCHANGED faults

Fetch == HaveEnough \/ FetchRest \/ Interrupted \/ ErrorPage
Verify == SizeMatches \/ SizeDiffers \/ DigestMatches \/ DigestDiffers

Next == Publish \/ Start \/ StepFails \/ Fetch \/ Verify

\* The operator does as the messages say and runs the script again, and a running
\* script goes on.
Fairness == WF_vars(Start) /\ WF_vars(Fetch \/ Verify)

Spec == Init /\ [][Next]_vars /\ Fairness

-----------------------------------------------------------------------------
(* Properties. *)

\* Every variable keeps its type; no resumption outgrows the image.
TypeOK ==
    /\ published \in Images /\ wanted \in Images
    /\ publishes \in 0..MaxPublishes /\ faults \in 0..MaxFaults /\ attempt \in 0..Attempts
    /\ file \in Seq(Images \union {Junk}) /\ \E i \in Images : Len(file) <= Size[i]
    /\ pc \in {"idle", "fetch", "size", "digest"}
    /\ result \in {"none", "ok", "fail"}

\* The script has succeeded: every block at template_ova is the image it read the
\* digest of, whatever older image, export, error page or interruption came before.
SuccessMeansIntact == pc = "idle" /\ result = "ok" => file = Whole(wanted)

\* The inductive invariant: the digest is compared in a file of the right size.
IInv == TypeOK /\ SuccessMeansIntact

\* "running the script again finishes the job": run again once the network behaves, it
\* succeeds for the published image, over any partial, foreign or corrupt bytes it
\* finds; unless the file is longer than that image, which the size check leaves there.
RerunFinishes ==
    \/ <>[](result = "ok" /\ wanted = published)
    \/ <>[](Len(file) > Size[published])

-----------------------------------------------------------------------------
(* What the documentation says, and the code does not keep. *)

\* The comment at the fetch loop, without the exception.
RerunAlwaysFinishes == <>[](result = "ok" /\ wanted = published)
================================================================================
