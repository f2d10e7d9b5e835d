------------------------------ MODULE OpticalDrive ------------------------------
(***************************************************************************)
(* The drive a guest reads its first-boot seed from: optical_slot finds a  *)
(* slot in whatever controller layout the appliance came with,             *)
(* attach_optical inserts an image there and detach_optical ejects it.     *)
(* Each runs VBoxManage twice; any sequence of them meets the layouts the  *)
(* earlier ones left.  The slots are numbered as showvminfo lists them,    *)
(* controller by controller.                                               *)
(***************************************************************************)
EXTENDS Integers, FiniteSetsExt

CONSTANTS
    NSlots,     \* slots of the machine
    Ide,        \* those of a controller with "ide" in its name
    Seeds,      \* seed images that are attached
    OtherIso    \* an image that came with the appliance

Slots == 1..NSlots
NoSlot == 0
Isos == Seeds \cup {OtherIso}
NoImage == {"disk", "none", "emptydrive"}
Media == Isos \cup NoImage

DriveAssumption ==
    /\ NSlots \in Nat /\ Ide \subseteq Slots
    /\ OtherIso \notin Seeds /\ Isos \cap NoImage = {}

VARIABLES
    medium,     \* what each slot holds
    pc,         \* "idle", "attach" or "detach": an operation that has found its slot
    slot,       \* the slot found, or NoSlot
    want,       \* the image to attach
    done        \* the operation that ended last, and how

vars == <<medium, pc, slot, want, done>>

Nothing == [op |-> "none", image |-> "none"]

\* Any layout with a disk and without a seed.
Init ==
    /\ medium \in [Slots -> Media \ Seeds] /\ \E s \in Slots : medium[s] = "disk"
    /\ pc = "idle" /\ slot = NoSlot /\ want = OtherIso /\ done = Nothing

Optical(s) == medium[s] \in Isos \cup {"emptydrive"}
Free(s) == medium[s] = "none" /\ s \in Ide
Holding(P(_)) == {s \in Slots : P(s)}

\* Mutant: a free slot is taken before an optical drive.
OpticalSlotFreeFirst ==
    IF Holding(Free) # {} THEN Min(Holding(Free))
    ELSE IF Holding(Optical) # {} THEN Min(Holding(Optical)) ELSE NoSlot

\* Mutant: the first slot of an IDE controller.
OpticalSlotFirstIde == IF Ide # {} THEN Min(Ide) ELSE NoSlot

\* optical_slot: the first slot with an optical medium, otherwise the first free
\* one of an IDE controller.
OpticalSlot ==
    IF Holding(Optical) # {} THEN Min(Holding(Optical))
    ELSE IF Holding(Free) # {} THEN Min(Holding(Free)) ELSE NoSlot

End(op, image) == pc' = "idle" /\ slot' = NoSlot /\ done' = [op |-> op, image |-> image]

\* showvminfo answers; its exit status is not looked at, so an answer that is not
\* to be had is a machine without slots.
FindForAttach(image) ==
    /\ pc = "idle"
    /\ \E found \in {OpticalSlot, NoSlot} :
          IF found = NoSlot THEN End("refused", image)
                            ELSE pc' = "attach" /\ slot' = found /\ done' = Nothing
    /\ want' = image
    /\ UNCHANGED medium

\* storageattach --medium image.
StorageAttach ==
    /\ pc = "attach"
    /\ medium' = [medium EXCEPT ![slot] = want]
    /\ End("attached", want) /\ UNCHANGED want

AttachFails == pc = "attach" /\ End("refused", want) /\ UNCHANGED <<medium, want>>

\* detach_optical: no slot is tolerated.
FindForDetach ==
    /\ pc = "idle"
    /\ \E found \in {OpticalSlot, NoSlot} :
          IF found = NoSlot THEN End("tolerated", OtherIso)
                            ELSE pc' = "detach" /\ slot' = found /\ done' = Nothing
    /\ UNCHANGED <<medium, want>>

\* Mutant: the drive is attached again with the medium it holds.
EjectNothing ==
    /\ pc = "detach"
    /\ medium' = [medium EXCEPT ![slot] = IF @ = "none" THEN "emptydrive" ELSE @]
    /\ End("ejected", OtherIso) /\ UNCHANGED want

\* storageattach --medium emptydrive, and a failure of it that nobody sees.
Eject ==
    /\ pc = "detach"
    /\ medium' = [medium EXCEPT ![slot] = "emptydrive"]
    /\ End("ejected", OtherIso) /\ UNCHANGED want

EjectFails == pc = "detach" /\ End("tolerated", OtherIso) /\ UNCHANGED <<medium, want>>

Next ==
    \/ \E image \in Seeds : FindForAttach(image)
    \/ StorageAttach \/ AttachFails \/ FindForDetach \/ Eject \/ EjectFails

Spec == Init /\ [][Next]_vars

-----------------------------------------------------------------------------
(* Properties. *)

\* A slot is chosen exactly while an operation is under way, and nothing but the
\* media that are known is in the drives.
TypeOK ==
    /\ medium \in [Slots -> Media]
    /\ pc \in {"idle", "attach", "detach"} /\ slot \in Slots \cup {NoSlot}
    /\ (pc = "idle" <=> slot = NoSlot)
    /\ want \in Isos
    /\ done.op \in {"none", "attached", "refused", "ejected", "tolerated"}

SeedSlots == {s \in Slots : medium[s] \in Seeds}

\* However often seeds are attached and ejected, the guest sees one seed at most
\* and, after an attach that succeeded, exactly the one attached: an attach
\* repeated finds the slot of the one before (optical_slot prefers an optical
\* medium to a free slot).
OneSeed ==
    /\ \A s, t \in SeedSlots : s = t
    /\ done.op = "attached" => \E s \in SeedSlots : medium[s] = done.image

\* After an ejection that VirtualBox carried out no seed is left: the slot found
\* is the one the seed is in.
EjectDelivers == done.op = "ejected" => SeedSlots = {}

\* The two together.
SeedsInTurn == OneSeed /\ EjectDelivers

\* The inductive invariant: a seed is in the first optical drive, and the slot an operation
\* found is that one, or a free one where there is no optical drive.
FirstOptical(s) == s \in Slots /\ Optical(s) /\ \A t \in Slots : Optical(t) => s <= t
IInv ==
    /\ TypeOK /\ SeedsInTurn
    /\ \A s \in SeedSlots : FirstOptical(s)
    /\ pc # "idle" =>
          \/ FirstOptical(slot)
          \/ Free(slot) /\ \A t \in Slots : ~Optical(t)
    /\ pc = "attach" => want \in Seeds

\* No sequence of attaching and ejecting takes the guest's disk away, "since
\* attaching over it would detach the guest's root filesystem", or loses an
\* optical drive.
DisksKept ==
    [][\A s \in Slots : /\ medium[s] = "disk" => medium'[s] = "disk"
                        /\ medium[s] \in Isos \cup {"emptydrive"} => medium'[s] \notin {"none", "disk"}]_vars
=============================================================================
