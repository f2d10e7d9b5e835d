---------------------------- MODULE Guests_proofs -----------------------------
(***************************************************************************)
(* Proofs about the components of Guests, for every value of the           *)
(* constants: the image pull, the seed's optical drive, finding a guest's  *)
(* address, publishing the website and waiting for the cluster.  Each      *)
(* section proves the inductive invariant IInv of the component's module   *)
(* and from it the properties that the Guests run checks.                  *)
(***************************************************************************)
EXTENDS Guests, SequenceTheorems, WellFoundedInduction, TLAPS

-----------------------------------------------------------------------------
(* The image pull. *)

\* A function on 1..n is a sequence of length n.
LEMMA PullSeq ==
    ASSUME NEW S, NEW n \in Nat, NEW f \in [1..n -> S]
    PROVE  f \in Seq(S) /\ Len(f) = n
<1>1. f \in Seq(S)
  BY SeqDef
<1>2. DOMAIN f = 1..n /\ DOMAIN f = 1..Len(f) /\ Len(f) \in Nat
  BY <1>1, LenProperties
<1> QED
  BY <1>1, <1>2

\* The sizes.
LEMMA PullSizes == \A i \in Images : Size[i] \in Nat /\ Size[i] >= 1
<1>1. Size \in [Images -> Nat \ {0}]
  BY PullHolds DEF Pull!PullAssumption
<1> QED
  BY <1>1

\* A whole image is a file.
LEMMA PullWhole ==
    ASSUME NEW i \in Images
    PROVE  Pull!Whole(i) \in Seq(Images \union {Junk}) /\ Len(Pull!Whole(i)) = Size[i]
<1>1. Size[i] \in Nat /\ Pull!Whole(i) \in [1..Size[i] -> Images \union {Junk}]
  BY PullSizes DEF Pull!Whole
<1> QED
  BY <1>1, PullSeq

\* A resumed file is one of the length resumed to.
LEMMA PullResumed ==
    ASSUME Pull!TypeOK, NEW n \in Nat, Len(file) <= n
    PROVE  Pull!Resumed(n) \in Seq(Images \union {Junk}) /\ Len(Pull!Resumed(n)) = n
<1>1. /\ file \in Seq(Images \union {Junk}) /\ wanted \in Images
      /\ Len(file) \in Nat /\ DOMAIN file = 1..Len(file)
  BY LenProperties DEF Pull!TypeOK
<1>2. \A k \in 1..n : (IF k <= Len(file) THEN file[k] ELSE wanted) \in Images \union {Junk}
  BY <1>1, ElementOfSeq
<1>3. Pull!Resumed(n) \in [1..n -> Images \union {Junk}]
  BY <1>2 DEF Pull!Resumed
<1> QED
  BY <1>3, PullSeq

\* The initial states satisfy the invariant.
LEMMA PullInitInv == Pull!Init => Pull!IInv
<1> SUFFICES ASSUME Pull!Init PROVE Pull!IInv
  OBVIOUS
<1>1. file \in Seq(Images \union {Junk}) /\ \E i \in Images : Len(file) <= Size[i]
  <2>1. CASE file = <<>>
    <3>1. file \in Seq(Images \union {Junk}) /\ Len(file) = 0
      BY <2>1
    <3>2. PICK i \in Images : Size[i] \in Nat
      BY PullHolds, PullSizes DEF Pull!PullAssumption
    <3>3. 0 <= Size[i]
      BY <3>2
    <3> QED
      BY <3>1, <3>3
  <2>2. ASSUME NEW i \in Images, file = Pull!Whole(i)
        PROVE  file \in Seq(Images \union {Junk}) /\ Len(file) <= Size[i]
    <3>1. file \in Seq(Images \union {Junk}) /\ Len(file) = Size[i] /\ Size[i] \in Nat
      BY <2>2, PullWhole, PullSizes
    <3>2. Size[i] <= Size[i]
      BY <3>1
    <3> QED
      BY <3>1, <3>2
  <2> QED
    BY <2>1, <2>2 DEF Pull!Init
<1>2. publishes \in 0..MaxPublishes /\ faults \in 0..MaxFaults /\ attempt \in 0..Attempts
  BY PullHolds DEF Pull!Init, Pull!PullAssumption
<1> QED
  BY <1>1, <1>2 DEF Pull!Init, Pull!IInv, Pull!TypeOK, Pull!SuccessMeansIntact

\* What is left of the types once the file is dealt with.
LEMMA PullTypeStep ==
    ASSUME Pull!IInv, [Pull!Next]_Pull!vars
    PROVE  /\ published' \in Images /\ wanted' \in Images
           /\ publishes' \in 0..MaxPublishes /\ faults' \in 0..MaxFaults
           /\ attempt' \in 0..Attempts
           /\ pullPc' \in {"idle", "fetch", "size", "digest"}
           /\ pullResult' \in {"none", "ok", "fail"}
<1> USE DEF Pull!IInv, Pull!TypeOK
<1>1. CASE Pull!Publish
  BY <1>1, PullHolds DEF Pull!Publish, Pull!PullAssumption
<1>2. CASE Pull!Start
  BY <1>2, PullHolds DEF Pull!Start, Pull!PullAssumption
<1>3. CASE Pull!StepFails
  BY <1>3, PullHolds DEF Pull!StepFails, Pull!Fault, Pull!Fails, Pull!PullAssumption
<1>4. CASE Pull!HaveEnough \/ Pull!FetchRest \/ Pull!ErrorPage
  BY <1>4, PullHolds DEF Pull!HaveEnough, Pull!FetchRest, Pull!ErrorPage, Pull!Goto, Pull!Fault,
     Pull!PullAssumption
<1>5. CASE Pull!Interrupted
  BY <1>5, PullHolds DEF Pull!Interrupted, Pull!Goto, Pull!Fault, Pull!Fails, Pull!PullAssumption
<1>6. CASE Pull!Verify
  BY <1>6 DEF Pull!Verify, Pull!SizeMatches, Pull!SizeDiffers, Pull!DigestMatches,
     Pull!DigestDiffers, Pull!Goto, Pull!Fails
<1>7. CASE UNCHANGED Pull!vars
  BY <1>7 DEF Pull!vars
<1> QED
  BY <1>1, <1>2, <1>3, <1>4, <1>5, <1>6, <1>7 DEF Pull!Next, Pull!Fetch

\* Every step keeps the file a sequence of blocks no longer than some image.
LEMMA PullFileStep ==
    ASSUME Pull!IInv, [Pull!Next]_Pull!vars
    PROVE  file' \in Seq(Images \union {Junk}) /\ \E i \in Images : Len(file') <= Size[i]
<1>1. Pull!TypeOK /\ wanted \in Images /\ Size[wanted] \in Nat /\ Size[wanted] >= 1
  BY PullSizes DEF Pull!IInv, Pull!TypeOK
<1>2. Len(file) \in Nat
  BY <1>1, LenProperties DEF Pull!TypeOK
<1>3. CASE file' = file
  BY <1>1, <1>3 DEF Pull!TypeOK
<1>4. CASE Pull!FetchRest
  <2>1. Len(file) <= Size[wanted] /\ file' = Pull!Resumed(Size[wanted])
    BY <1>1, <1>2, <1>4 DEF Pull!FetchRest
  <2>2. file' \in Seq(Images \union {Junk}) /\ Len(file') = Size[wanted]
    BY <1>1, <2>1, PullResumed
  <2>3. Size[wanted] <= Size[wanted]
    BY <1>1
  <2> QED
    BY <1>1, <2>2, <2>3
<1>5. CASE Pull!Interrupted
  <2>1. PICK n \in Len(file)..(Size[wanted] - 1) : file' = Pull!Resumed(n)
    BY <1>5 DEF Pull!Interrupted
  <2>2. n \in Nat /\ Len(file) <= n /\ n <= Size[wanted]
    BY <1>1, <1>2, <2>1
  <2>3. file' \in Seq(Images \union {Junk}) /\ Len(file') = n
    BY <1>1, <2>1, <2>2, PullResumed
  <2> QED
    BY <1>1, <2>2, <2>3
<1>6. CASE Pull!ErrorPage
  <2>1. file' = <<Junk>>
    BY <1>6 DEF Pull!ErrorPage
  <2>2. file' \in Seq(Images \union {Junk}) /\ Len(file') = 1
    BY <2>1
  <2>3. 1 <= Size[wanted]
    BY <1>1
  <2> QED
    BY <1>1, <2>2, <2>3
<1>7. CASE Pull!DigestDiffers
  <2>1. file' = <<>>
    BY <1>7 DEF Pull!DigestDiffers
  <2>2. file' \in Seq(Images \union {Junk}) /\ Len(file') = 0
    BY <2>1
  <2>3. 0 <= Size[wanted]
    BY <1>1
  <2> QED
    BY <1>1, <2>2, <2>3
<1> QED
  BY <1>3, <1>4, <1>5, <1>6, <1>7 DEF Pull!Next, Pull!Fetch, Pull!Verify, Pull!Publish,
     Pull!Start, Pull!StepFails, Pull!HaveEnough, Pull!SizeMatches, Pull!SizeDiffers,
     Pull!DigestMatches, Pull!vars

\* Every step keeps a success a success.
LEMMA PullIntactStep == ASSUME Pull!IInv, [Pull!Next]_Pull!vars PROVE Pull!SuccessMeansIntact'
<1> USE DEF Pull!IInv, Pull!SuccessMeansIntact
<1>1. CASE Pull!Publish
  BY <1>1 DEF Pull!Publish, Pull!Whole
<1>2. CASE Pull!Start
  BY <1>2 DEF Pull!Start
<1>3. CASE Pull!StepFails
  BY <1>3 DEF Pull!StepFails, Pull!Fails
<1>4. CASE Pull!HaveEnough \/ Pull!FetchRest \/ Pull!ErrorPage \/ Pull!SizeMatches
  BY <1>4 DEF Pull!HaveEnough, Pull!FetchRest, Pull!ErrorPage, Pull!SizeMatches, Pull!Goto
<1>5. CASE Pull!Interrupted
  BY <1>5 DEF Pull!Interrupted, Pull!Goto, Pull!Fails
<1>6. CASE Pull!SizeDiffers \/ Pull!DigestDiffers
  BY <1>6 DEF Pull!SizeDiffers, Pull!DigestDiffers, Pull!Fails
<1>7. CASE Pull!DigestMatches
  BY <1>7 DEF Pull!DigestMatches, Pull!DigestIs
<1>8. CASE UNCHANGED Pull!vars
  BY <1>8 DEF Pull!vars, Pull!Whole
<1> QED
  BY <1>1, <1>2, <1>3, <1>4, <1>5, <1>6, <1>7, <1>8 DEF Pull!Next, Pull!Fetch, Pull!Verify

\* The invariant holds in every reachable state.
THEOREM PullInductive == Pull!Spec => []Pull!IInv
<1>1. Pull!IInv /\ [Pull!Next]_Pull!vars => Pull!IInv'
  <2> SUFFICES ASSUME Pull!IInv, [Pull!Next]_Pull!vars PROVE Pull!IInv'
    OBVIOUS
  <2>1. Pull!TypeOK'
    BY PullTypeStep, PullFileStep DEF Pull!TypeOK
  <2> QED
    BY <2>1, PullIntactStep DEF Pull!IInv
<1> QED
  BY <1>1, PullInitInv, PTL DEF Pull!Spec

\* The pull keeps its types, and no resumption outgrows the images.
THEOREM PullTypeCorrect == Pull!Spec => []Pull!TypeOK
<1>1. Pull!IInv => Pull!TypeOK
  BY DEF Pull!IInv
<1> QED
  BY <1>1, PullInductive, PTL

\* A script that succeeded left the image it read the digest of, whatever bytes it resumed over.
THEOREM PullIntact == Pull!Spec => []Pull!SuccessMeansIntact
<1>1. Pull!IInv => Pull!SuccessMeansIntact
  BY DEF Pull!IInv
<1> QED
  BY <1>1, PullInductive, PTL


-----------------------------------------------------------------------------
(* The optical drive. *)

\* A set of numbers that is not empty has a least element.
LEMMA LeastExists ==
    ASSUME NEW S, S # {}, S \subseteq Nat
    PROVE  \E x \in S : \A y \in S : x <= y
<1>1. PICK x \in S : \A y \in S : ~(<<y, x>> \in OpToRel(<, Nat))
  BY NatLessThanWellFounded, WFMin
<1>2. ASSUME NEW y \in S PROVE x <= y
  <2>1. x \in Nat /\ y \in Nat
    OBVIOUS
  <2>2. y < x => <<y, x>> \in OpToRel(<, Nat)
    BY <2>1 DEF OpToRel
  <2>3. ~(y < x)
    BY <1>1, <2>2
  <2> QED
    BY <2>1, <2>3
<1> QED
  BY <1>2

\* The slot numbers.
LEMMA DriveSlots == Drive!Slots \subseteq Nat /\ Drive!NoSlot \notin Drive!Slots
BY DriveHolds DEF Drive!DriveAssumption, Drive!Slots, Drive!NoSlot

\* A seed is optical, and no disk, no free slot and no empty drive.
LEMMA DriveMedia ==
    /\ \A m \in Seeds : m \in Drive!Isos
    /\ \A m \in Drive!Isos : m # "disk" /\ m # "none" /\ m # "emptydrive"
    /\ OtherIso \notin Seeds
BY DriveHolds DEF Drive!DriveAssumption, Drive!Isos, Drive!NoImage

\* The first of some slots is one of them and the least.
LEMMA DriveFirst ==
    ASSUME NEW S, S # {}, S \subseteq Drive!Slots
    PROVE  Drive!Min(S) \in S /\ \A t \in S : Drive!Min(S) <= t
<1>1. \E x \in S : \A y \in S : x <= y
  BY DriveSlots, LeastExists
<1> QED
  BY <1>1 DEF Drive!Min

\* optical_slot returns the first optical drive, else a free slot where there is none, or nothing.
LEMMA DriveFound ==
    ASSUME Drive!OpticalSlot # Drive!NoSlot
    PROVE  /\ Drive!OpticalSlot \in Drive!Slots
           /\ \/ Drive!FirstOptical(Drive!OpticalSlot)
              \/ Drive!Free(Drive!OpticalSlot) /\ \A t \in Drive!Slots : ~Drive!Optical(t)
<1>1. CASE Drive!Holding(Drive!Optical) # {}
  <2>1. /\ Drive!Holding(Drive!Optical) \subseteq Drive!Slots
        /\ Drive!OpticalSlot = Drive!Min(Drive!Holding(Drive!Optical))
    BY <1>1 DEF Drive!OpticalSlot, Drive!Holding
  <2>2. /\ Drive!OpticalSlot \in Drive!Holding(Drive!Optical)
        /\ \A t \in Drive!Holding(Drive!Optical) : Drive!OpticalSlot <= t
    BY <1>1, <2>1, DriveFirst
  <2> QED
    BY <2>2 DEF Drive!Holding, Drive!FirstOptical
<1>2. CASE Drive!Holding(Drive!Optical) = {}
  <2>1. /\ Drive!Holding(Drive!Free) # {}
        /\ Drive!Holding(Drive!Free) \subseteq Drive!Slots
        /\ Drive!OpticalSlot = Drive!Min(Drive!Holding(Drive!Free))
    BY <1>2 DEF Drive!OpticalSlot, Drive!Holding
  <2>2. Drive!OpticalSlot \in Drive!Holding(Drive!Free)
    BY <2>1, DriveFirst
  <2> QED
    BY <1>2, <2>2 DEF Drive!Holding
<1> QED
  BY <1>1, <1>2

\* There is one first optical drive.
LEMMA DriveOneFirst ==
    ASSUME NEW s, NEW t, Drive!FirstOptical(s), Drive!FirstOptical(t)
    PROVE  s = t
<1>1. s \in Nat /\ t \in Nat /\ s <= t /\ t <= s
  BY DriveSlots DEF Drive!FirstOptical
<1> QED
  BY <1>1

\* The initial states satisfy the invariant.
LEMMA DriveInitInv == Drive!Init => Drive!IInv
<1> SUFFICES ASSUME Drive!Init PROVE Drive!IInv
  OBVIOUS
<1>1. Drive!SeedSlots = {}
  BY DEF Drive!Init, Drive!SeedSlots
<1>2. Drive!TypeOK
  BY DEF Drive!Init, Drive!TypeOK, Drive!Isos, Drive!Nothing
<1>3. Drive!SeedsInTurn
  BY <1>1 DEF Drive!SeedsInTurn, Drive!OneSeed, Drive!EjectDelivers, Drive!Init, Drive!Nothing
<1> QED
  BY <1>1, <1>2, <1>3 DEF Drive!Init, Drive!IInv

\* What goes into the slot an operation found makes of the drives: that slot is the first
\* optical drive, and the only one that may hold a seed.
LEMMA DriveInsert ==
    ASSUME Drive!IInv, drivePc # "idle", NEW m \in Drive!Isos \cup {"emptydrive"},
           NEW s \in Drive!Slots, s = slot,
           medium' = [medium EXCEPT ![s] = m]
    PROVE  /\ medium'[s] = m /\ medium' \in [Drive!Slots -> Drive!Media]
           /\ Drive!FirstOptical(s)'
           /\ \A t \in Drive!Slots : t # s => medium'[t] = medium[t] /\ medium'[t] \notin Seeds
<1>1. medium \in [Drive!Slots -> Drive!Media]
  BY DEF Drive!IInv, Drive!TypeOK
<1>2. /\ medium'[s] = m /\ medium' \in [Drive!Slots -> Drive!Media]
      /\ \A t \in Drive!Slots : t # s => medium'[t] = medium[t]
  BY <1>1 DEF Drive!Media, Drive!NoImage
<1>3. /\ Drive!Optical(s)'
      /\ \A t \in Drive!Slots : t # s => (Drive!Optical(t)' <=> Drive!Optical(t))
  BY <1>2 DEF Drive!Optical
<1>4. s <= s
  BY DriveSlots
<1>5. CASE Drive!FirstOptical(s)
  <2>1. \A t \in Drive!Slots : Drive!Optical(t)' => s <= t
    BY <1>3, <1>4, <1>5 DEF Drive!FirstOptical
  <2>2. Drive!FirstOptical(s)'
    BY <1>3, <2>1 DEF Drive!FirstOptical
  <2>3. ASSUME NEW t \in Drive!Slots, t # s, medium[t] \in Seeds PROVE FALSE
    <3>1. Drive!FirstOptical(t)
      BY <2>3 DEF Drive!IInv, Drive!SeedSlots
    <3> QED
      BY <1>5, <2>3, <3>1, DriveOneFirst
  <2> QED
    BY <1>2, <2>2, <2>3
<1>6. CASE \A t \in Drive!Slots : ~Drive!Optical(t)
  <2>1. \A t \in Drive!Slots : medium[t] \notin Seeds
    BY <1>6, DriveMedia DEF Drive!Optical
  <2>2. \A t \in Drive!Slots : Drive!Optical(t)' => s <= t
    BY <1>3, <1>4, <1>6
  <2>3. Drive!FirstOptical(s)'
    BY <1>3, <2>2 DEF Drive!FirstOptical
  <2> QED
    BY <1>2, <2>1, <2>3
<1> QED
  BY <1>5, <1>6 DEF Drive!IInv

\* Operations that end keep the rest of the invariant.
LEMMA DriveEndTypes ==
    ASSUME Drive!TypeOK, NEW op \in {"attached", "refused", "ejected", "tolerated"}, NEW image,
           Drive!End(op, image), medium' \in [Drive!Slots -> Drive!Media], want' \in Drive!Isos
    PROVE  Drive!TypeOK'
BY DEF Drive!TypeOK, Drive!End, Drive!NoSlot

\* A step that leaves the drives as they are keeps the invariant.
LEMMA DriveLookStep ==
    ASSUME Drive!IInv, medium' = medium, Drive!TypeOK', 
           done'.op = "attached" => done.op = "attached" /\ done' = done,
           done'.op = "ejected" => done.op = "ejected",
           drivePc' = "idle" \/ (slot' = Drive!OpticalSlot /\ Drive!OpticalSlot # Drive!NoSlot),
           drivePc' = "attach" => want' \in Seeds
    PROVE  Drive!IInv'
<1>1. Drive!SeedSlots' = Drive!SeedSlots
  BY DEF Drive!SeedSlots, Drive!Slots
<1>2. Drive!SeedsInTurn'
  BY <1>1 DEF Drive!IInv, Drive!SeedsInTurn, Drive!OneSeed, Drive!EjectDelivers
<1>3. \A s : Drive!FirstOptical(s)' <=> Drive!FirstOptical(s)
  BY DEF Drive!FirstOptical, Drive!Optical, Drive!Slots
<1>4. ASSUME drivePc' # "idle"
      PROVE  \/ Drive!FirstOptical(slot)'
             \/ Drive!Free(slot)' /\ \A t \in Drive!Slots : ~Drive!Optical(t)'
  <2>1. slot' = Drive!OpticalSlot /\ Drive!OpticalSlot # Drive!NoSlot
    BY <1>4
  <2> QED
    BY <2>1, DriveFound DEF Drive!FirstOptical, Drive!Optical, Drive!Free
<1>5. \A s \in Drive!SeedSlots' : Drive!FirstOptical(s)'
  BY <1>1, <1>3 DEF Drive!IInv
<1> QED
  BY <1>2, <1>4, <1>5 DEF Drive!IInv

\* What an operation puts into the slot it found keeps the invariant.
LEMMA DriveInsertStep ==
    ASSUME Drive!IInv, Drive!StorageAttach \/ Drive!Eject
    PROVE  Drive!IInv'
<1>1. PICK s \in Drive!Slots : s = slot
  BY DEF Drive!IInv, Drive!TypeOK, Drive!StorageAttach, Drive!Eject
<1>2. PICK m : /\ medium' = [medium EXCEPT ![s] = m]
               /\ \/ m \in Seeds /\ Drive!End("attached", m)
                  \/ m = "emptydrive" /\ Drive!End("ejected", OtherIso)
  BY <1>1 DEF Drive!StorageAttach, Drive!Eject, Drive!IInv
<1>3. m \in Drive!Isos \cup {"emptydrive"} /\ drivePc # "idle" /\ want' = want
  BY <1>2, DriveMedia DEF Drive!StorageAttach, Drive!Eject
<1>4. /\ medium'[s] = m /\ medium' \in [Drive!Slots -> Drive!Media]
      /\ Drive!FirstOptical(s)'
      /\ \A t \in Drive!Slots : t # s => medium'[t] = medium[t] /\ medium'[t] \notin Seeds
  BY <1>1, <1>2, <1>3, DriveInsert
<1>5. drivePc' = "idle" /\ slot' = Drive!NoSlot /\ Drive!TypeOK'
  <2>1. want' \in Drive!Isos /\ Drive!TypeOK
    BY <1>3 DEF Drive!IInv, Drive!TypeOK
  <2> QED
    BY <1>2, <1>4, <2>1, DriveEndTypes DEF Drive!End
<1>6. \A t \in Drive!SeedSlots' : t = s
  BY <1>4 DEF Drive!SeedSlots
<1>7. \A t, u \in Drive!SeedSlots' : t = u
  BY <1>6
<1>8. Drive!SeedsInTurn'
  <2>1. CASE m \in Seeds /\ Drive!End("attached", m)
    <3>1. s \in Drive!SeedSlots'
      BY <1>4, <2>1 DEF Drive!SeedSlots, Drive!Slots
    <3>2. done'.op = "attached" /\ done'.image = m
      BY <2>1 DEF Drive!End
    <3> QED
      BY <1>4, <1>7, <3>1, <3>2 DEF Drive!SeedsInTurn, Drive!OneSeed, Drive!EjectDelivers
  <2>2. CASE m = "emptydrive" /\ Drive!End("ejected", OtherIso)
    <3>1. m \notin Seeds
      BY <2>2, DriveMedia
    <3>2. Drive!SeedSlots' = {}
      BY <1>4, <1>6, <3>1 DEF Drive!SeedSlots
    <3>3. done'.op = "ejected"
      BY <2>2 DEF Drive!End
    <3> QED
      BY <1>7, <3>2, <3>3 DEF Drive!SeedsInTurn, Drive!OneSeed, Drive!EjectDelivers
  <2> QED
    BY <1>2, <2>1, <2>2
<1>9. \A t \in Drive!SeedSlots' : Drive!FirstOptical(t)'
  BY <1>4, <1>6
<1> QED
  BY <1>5, <1>8, <1>9 DEF Drive!IInv

\* Every step keeps the invariant.
LEMMA DriveStep == Drive!IInv /\ [Drive!Next]_Drive!vars => Drive!IInv'
<1> SUFFICES ASSUME Drive!IInv, [Drive!Next]_Drive!vars PROVE Drive!IInv'
  OBVIOUS
<1>1. Drive!TypeOK /\ (\A image \in Seeds : image \in Drive!Isos) /\ OtherIso \in Drive!Isos
  BY DriveMedia DEF Drive!IInv, Drive!Isos
<1>2. ASSUME NEW image \in Seeds, Drive!FindForAttach(image) PROVE Drive!IInv'
  <2>1. PICK found \in {Drive!OpticalSlot, Drive!NoSlot} :
            IF found = Drive!NoSlot THEN Drive!End("refused", image)
                              ELSE drivePc' = "attach" /\ slot' = found /\ done' = Drive!Nothing
    BY <1>2 DEF Drive!FindForAttach
  <2>2. medium' = medium /\ want' = image
    BY <1>2 DEF Drive!FindForAttach
  <2>3. CASE found = Drive!NoSlot
    <3>1. Drive!TypeOK'
      BY <1>1, <2>1, <2>2, <2>3, DriveEndTypes DEF Drive!TypeOK
    <3>2. drivePc' = "idle" /\ done'.op = "refused"
      BY <2>1, <2>3 DEF Drive!End
    <3> QED
      BY <2>2, <3>1, <3>2, DriveLookStep
  <2>4. CASE found # Drive!NoSlot
    <3>1. /\ slot' = Drive!OpticalSlot
          /\ Drive!OpticalSlot # Drive!NoSlot
          /\ drivePc' = "attach"
          /\ done'.op = "none"
      BY <2>1, <2>4 DEF Drive!Nothing
    <3>2. Drive!OpticalSlot \in Drive!Slots
      BY <3>1, DriveFound
    <3>3. Drive!TypeOK'
      BY <1>1, <2>2, <3>1, <3>2 DEF Drive!TypeOK
    <3> QED
      BY <2>2, <3>1, <3>3, DriveLookStep
  <2> QED
    BY <2>3, <2>4
<1>3. CASE Drive!FindForDetach
  <2>1. PICK found \in {Drive!OpticalSlot, Drive!NoSlot} :
            IF found = Drive!NoSlot THEN Drive!End("tolerated", OtherIso)
                              ELSE drivePc' = "detach" /\ slot' = found /\ done' = Drive!Nothing
    BY <1>3 DEF Drive!FindForDetach
  <2>2. medium' = medium /\ want' = want
    BY <1>3 DEF Drive!FindForDetach
  <2>3. CASE found = Drive!NoSlot
    <3>1. Drive!TypeOK'
      BY <1>1, <2>1, <2>2, <2>3, DriveEndTypes DEF Drive!TypeOK
    <3>2. drivePc' = "idle" /\ done'.op = "tolerated"
      BY <2>1, <2>3 DEF Drive!End
    <3> QED
      BY <2>2, <3>1, <3>2, DriveLookStep
  <2>4. CASE found # Drive!NoSlot
    <3>1. /\ slot' = Drive!OpticalSlot
          /\ Drive!OpticalSlot # Drive!NoSlot
          /\ drivePc' = "detach"
          /\ done'.op = "none"
      BY <2>1, <2>4 DEF Drive!Nothing
    <3>2. Drive!OpticalSlot \in Drive!Slots
      BY <3>1, DriveFound
    <3>3. Drive!TypeOK'
      BY <1>1, <2>2, <3>1, <3>2 DEF Drive!TypeOK
    <3> QED
      BY <2>2, <3>1, <3>3, DriveLookStep
  <2> QED
    BY <2>3, <2>4
<1>4. CASE Drive!StorageAttach \/ Drive!Eject
  BY <1>4, DriveInsertStep
<1>5. CASE Drive!AttachFails \/ Drive!EjectFails
  <2>1. PICK op \in {"refused", "tolerated"}, image \in {want, OtherIso} : Drive!End(op, image)
    BY <1>5 DEF Drive!AttachFails, Drive!EjectFails
  <2>2. medium' = medium /\ want' = want
    BY <1>5 DEF Drive!AttachFails, Drive!EjectFails
  <2>3. Drive!TypeOK'
    BY <1>1, <2>1, <2>2, DriveEndTypes DEF Drive!TypeOK
  <2>4. drivePc' = "idle" /\ done'.op = op
    BY <2>1 DEF Drive!End
  <2> QED
    BY <2>2, <2>3, <2>4, DriveLookStep
<1>6. CASE UNCHANGED Drive!vars
  BY <1>6 DEF Drive!vars, Drive!IInv, Drive!TypeOK, Drive!SeedsInTurn, Drive!OneSeed,
     Drive!EjectDelivers, Drive!SeedSlots, Drive!FirstOptical, Drive!Optical, Drive!Free
<1> QED
  BY <1>2, <1>3, <1>4, <1>5, <1>6 DEF Drive!Next

\* The invariant holds in every reachable state.
THEOREM DriveInductive == Drive!Spec => []Drive!IInv
BY DriveInitInv, DriveStep, PTL DEF Drive!Spec

\* The drives keep their types.
THEOREM DriveTypeCorrect == Drive!Spec => []Drive!TypeOK
<1>1. Drive!IInv => Drive!TypeOK
  BY DEF Drive!IInv
<1> QED
  BY <1>1, DriveInductive, PTL

\* However often seeds are attached and ejected, the guest sees one at most, the one attached last,
\* and none after an ejection that was carried out.
THEOREM DriveSeedsInTurn == Drive!Spec => []Drive!SeedsInTurn
<1>1. Drive!IInv => Drive!SeedsInTurn
  BY DEF Drive!IInv
<1> QED
  BY <1>1, DriveInductive, PTL

\* No sequence of attaching and ejecting takes the guest's disk or an optical drive away.
THEOREM DriveDisksKept == Drive!Spec => Drive!DisksKept
<1> DEFINE Kept == \A s \in Drive!Slots :
        /\ medium[s] = "disk" => medium'[s] = "disk"
        /\ medium[s] \in Drive!Isos \cup {"emptydrive"} => medium'[s] \notin {"none", "disk"}
<1>1. Drive!IInv /\ [Drive!Next]_Drive!vars => [Kept]_Drive!vars
  <2> SUFFICES ASSUME Drive!IInv, [Drive!Next]_Drive!vars PROVE Kept
    OBVIOUS
  <2>1. CASE medium' = medium
    BY <2>1, DriveMedia
  <2>2. CASE Drive!StorageAttach \/ Drive!Eject
    <3>1. PICK s \in Drive!Slots : s = slot
      BY <2>2 DEF Drive!IInv, Drive!TypeOK, Drive!StorageAttach, Drive!Eject
    <3>2. PICK m \in Drive!Isos \cup {"emptydrive"} : medium' = [medium EXCEPT ![s] = m]
      BY <2>2, <3>1, DriveMedia DEF Drive!StorageAttach, Drive!Eject, Drive!IInv
    <3>3. m \notin {"none", "disk"}
      BY <3>2, DriveMedia
    <3>4. medium[s] # "disk"
      <4>1. Drive!FirstOptical(s) \/ Drive!Free(s)
        BY <2>2, <3>1 DEF Drive!IInv, Drive!StorageAttach, Drive!Eject
      <4> QED
        BY <4>1, DriveMedia DEF Drive!FirstOptical, Drive!Optical, Drive!Free
    <3>5. medium'[s] = m /\ \A t \in Drive!Slots : t # s => medium'[t] = medium[t]
      BY <3>2 DEF Drive!IInv, Drive!TypeOK
    <3> QED
      BY <3>3, <3>4, <3>5, DriveMedia
  <2> QED
    BY <2>1, <2>2 DEF Drive!Next, Drive!vars, Drive!FindForAttach, Drive!AttachFails,
       Drive!FindForDetach, Drive!EjectFails
<1> QED
  BY <1>1, DriveInductive, PTL DEF Drive!Spec, Drive!DisksKept


-----------------------------------------------------------------------------
(* Finding the address. *)

\* The first of some interfaces is one of them.
LEMMA FindFirst == ASSUME NEW S, S # {}, S \subseteq Find!Ifaces PROVE Find!Min(S) \in S
<1>1. S \subseteq Nat
  BY FindHolds DEF Find!Ifaces, Find!DiscoveryAssumption
<1>2. \E x \in S : \A y \in S : x <= y
  BY <1>1, LeastExists
<1> QED
  BY <1>2 DEF Find!Min

\* _select_lan_address takes a candidate, and one on the host's own subnet where there is one.
LEMMA FindSelected ==
    ASSUME NEW C, C # {}, C \subseteq Find!Ifaces
    PROVE  /\ Find!Selected(C) \in C
           /\ hostLan /\ (\E i \in C : ip[i] = "lan") => ip[Find!Selected(C)] = "lan"
<1> DEFINE onLan == {i \in C : hostLan /\ ip[i] = "lan"}
           common == {i \in C : ip[i] \in {"lan", "private"}}
<1>1. CASE onLan # {}
  <2>1. Find!Min(onLan) \in onLan
    BY <1>1, FindFirst
  <2>2. Find!Selected(C) = Find!Min(onLan)
    BY <1>1 DEF Find!Selected
  <2> QED
    BY <2>1, <2>2
<1>2. CASE onLan = {}
  <2>1. ~(hostLan /\ \E i \in C : ip[i] = "lan")
    BY <1>2
  <2>2. CASE common # {}
    <3>1. Find!Min(common) \in common
      BY <2>2, FindFirst
    <3>2. Find!Selected(C) = Find!Min(common)
      BY <1>2, <2>2 DEF Find!Selected
    <3> QED
      BY <2>1, <3>1, <3>2
  <2>3. CASE common = {}
    <3>1. Find!Min(C) \in C
      BY FindFirst
    <3>2. Find!Selected(C) = Find!Min(C)
      BY <1>2, <2>3 DEF Find!Selected
    <3> QED
      BY <2>1, <3>1, <3>2
  <2> QED
    BY <2>2, <2>3
<1> QED
  BY <1>1, <1>2

\* The initial states satisfy the invariant.
LEMMA FindInitInv == Find!Init => Find!IInv
<1> SUFFICES ASSUME Find!Init PROVE Find!IInv
  OBVIOUS
<1>1. Find!TypeOK
  <2>1. Find!NoSnap \in [ip: [Find!Ifaces -> Find!Classes], named: [Find!Ifaces -> BOOLEAN], read: BOOLEAN]
    BY DEF Find!NoSnap, Find!Classes
  <2>2. 0 \in 0..NIfaces
    BY FindHolds DEF Find!DiscoveryAssumption
  <2>3. /\ ip \in [Find!Ifaces -> Find!Classes] /\ named \in [Find!Ifaces -> BOOLEAN]
        /\ addr \in [Find!Ifaces -> Find!Classes]
        /\ snap \in [ip: [Find!Ifaces -> Find!Classes], named: [Find!Ifaces -> BOOLEAN], read: BOOLEAN]
    BY <2>1 DEF Find!Init, Find!Classes
  <2>4. chosen \in [iface: 0..NIfaces, class: Find!Classes, via: Find!Via]
    BY <2>2 DEF Find!Init, Find!Classes, Find!Via
  <2> QED
    BY <2>3, <2>4 DEF Find!Init, Find!TypeOK, Find!Classes
<1> QED
  BY <1>1 DEF Find!Init, Find!IInv, Find!AddressExplained, Find!LanWins, Find!DetourExplained

\* A candidate is an interface, one of those the bridge filter lets through; a physical one with
\* an address of the LAN is a candidate.
LEMMA FindCandidates ==
    /\ Find!Candidates \subseteq Find!Ifaces
    /\ \A i \in Find!Candidates : i \in Virtual => ~named[i]
    /\ \A i \in Find!Physical : ip[i] = "lan" => i \in Find!Candidates
BY DEF Find!Candidates, Find!Physical

\* Every step keeps the types.
LEMMA FindTypeStep == Find!IInv /\ [Find!Next]_Find!vars => Find!TypeOK'
<1> SUFFICES ASSUME Find!IInv, [Find!Next]_Find!vars PROVE Find!TypeOK'
  OBVIOUS
<1> USE DEF Find!IInv, Find!TypeOK, Find!guest
<1>1. ASSUME NEW i \in Find!Ifaces, Find!Address(i) PROVE Find!TypeOK'
  <2>1. PICK c \in Find!Classes : addr' = [addr EXCEPT ![i] = c]
    BY <1>1, FindHolds DEF Find!Address, Find!Classes, Find!DiscoveryAssumption
  <2> QED
    BY <1>1, <2>1 DEF Find!Address
<1>2. ASSUME NEW i \in Find!Ifaces, Find!PublishIp(i) PROVE Find!TypeOK'
  BY <1>2 DEF Find!PublishIp
<1>3. ASSUME NEW i \in Find!Ifaces, Find!PublishName(i) PROVE Find!TypeOK'
  BY <1>3 DEF Find!PublishName
<1>4. CASE Find!Register
  BY <1>4 DEF Find!Register, Find!Classes
<1>5. CASE Find!PollSelects
  <2>1. Find!Selected(Find!Candidates) \in Find!Ifaces
    BY <1>5, FindSelected, FindCandidates DEF Find!PollSelects, Find!Enumerate
  <2>2. /\ Find!Selected(Find!Candidates) \in 0..NIfaces
        /\ ip[Find!Selected(Find!Candidates)] \in Find!Classes
    BY <2>1, FindHolds DEF Find!Ifaces, Find!DiscoveryAssumption
  <2>3. chosen' \in [iface: 0..NIfaces, class: Find!Classes, via: Find!Via]
    BY <1>5, <2>2 DEF Find!PollSelects, Find!Enumerate, Find!Returns, Find!Via
  <2>4. snap' \in [ip: [Find!Ifaces -> Find!Classes], named: [Find!Ifaces -> BOOLEAN], read: BOOLEAN]
    BY <1>5 DEF Find!PollSelects, Find!Enumerate
  <2> QED
    BY <1>5, <2>3, <2>4 DEF Find!PollSelects, Find!Enumerate, Find!Returns
<1>6. CASE Find!PollFindsNone
  <2>1. snap' \in [ip: [Find!Ifaces -> Find!Classes], named: [Find!Ifaces -> BOOLEAN], read: BOOLEAN]
    BY <1>6 DEF Find!PollFindsNone, Find!Enumerate
  <2> QED
    BY <1>6, <2>1 DEF Find!PollFindsNone, Find!Enumerate
<1>6a. CASE Find!PollFails
  <2>1. snap' \in [ip: [Find!Ifaces -> Find!Classes], named: [Find!Ifaces -> BOOLEAN], read: BOOLEAN]
    BY <1>6a DEF Find!PollFails, Find!Enumerate
  <2> QED
    BY <1>6a, <2>1 DEF Find!PollFails, Find!Enumerate
<1>7. CASE Find!Resolves
  <2>1. 0 \in 0..NIfaces
    BY FindHolds DEF Find!DiscoveryAssumption
  <2>2. chosen' \in [iface: 0..NIfaces, class: Find!Classes, via: Find!Via]
    BY <1>7, <2>1 DEF Find!Resolves, Find!Returns, Find!Via
  <2> QED
    BY <1>7, <2>2 DEF Find!Resolves, Find!Returns
<1>8. CASE Find!ResolvesNot
  BY <1>8 DEF Find!ResolvesNot
<1>9. CASE Find!PollAgain
  BY <1>9 DEF Find!PollAgain
<1>10. CASE Find!Expires
  BY <1>10 DEF Find!Expires
<1>11. CASE UNCHANGED Find!vars
  BY <1>11 DEF Find!vars
<1> HIDE DEF Find!TypeOK
<1> QED
  BY <1>1, <1>2, <1>3, <1>4, <1>5, <1>6, <1>6a, <1>7, <1>8, <1>9, <1>10, <1>11 DEF Find!Next, Find!Guest,
     Find!Discover

\* Every step keeps what is known of the address.
LEMMA FindAddressStep ==
    ASSUME Find!IInv, [Find!Next]_Find!vars
    PROVE  Find!AddressExplained' /\ (findPc' \in {"resolve", "sleep"} => ~Find!ListedLan')
<1> USE DEF Find!AddressExplained, Find!LanWins, Find!DetourExplained, Find!ListedLan
<1>1. CASE Find!Guest \/ UNCHANGED Find!vars
  <2>1. UNCHANGED <<hostLan, findPc, chosen, snap>>
    BY <1>1 DEF Find!Guest, Find!Register, Find!Address, Find!PublishIp, Find!PublishName,
       Find!vars
  <2> QED
    BY <2>1 DEF Find!IInv
<1>2. CASE Find!PollSelects
  <2> DEFINE c == Find!Selected(Find!Candidates)
  <2>1. /\ c \in Find!Candidates
        /\ hostLan /\ (\E i \in Find!Candidates : ip[i] = "lan") => ip[c] = "lan"
    BY <1>2, FindSelected, FindCandidates DEF Find!PollSelects, Find!Enumerate
  <2>2. /\ findPc' = "found"
        /\ chosen'.iface = c
        /\ chosen'.class = ip[c]
        /\ chosen'.via = "additions"
        /\ snap'.ip = ip /\ snap'.named = named /\ hostLan' = hostLan
    BY <1>2 DEF Find!PollSelects, Find!Enumerate, Find!Returns
  <2> HIDE DEF c
  <2>3. Find!LanWins'
    BY <2>1, <2>2, FindCandidates
  <2>4. Find!DetourExplained'
    BY <2>1, <2>2, FindCandidates
  <2> QED
    BY <2>2, <2>3, <2>4
<1>3. CASE Find!PollFindsNone
  <2>1. ~Find!ListedLan'
    BY <1>3, FindCandidates DEF Find!PollFindsNone, Find!Enumerate
  <2> QED
    BY <1>3, <2>1 DEF Find!PollFindsNone, Find!Enumerate
<1>3a. CASE Find!PollFails
  <2>1. ~Find!ListedLan'
    BY <1>3a DEF Find!PollFails, Find!Enumerate
  <2> QED
    BY <1>3a, <2>1 DEF Find!PollFails, Find!Enumerate
<1>4. CASE Find!Resolves
  <2>1. chosen'.via = "dns" /\ findPc' = "found" /\ snap' = snap /\ findPc = "resolve"
    BY <1>4 DEF Find!Resolves, Find!Returns
  <2> QED
    BY <2>1 DEF Find!IInv
<1>5. CASE Find!ResolvesNot \/ Find!PollAgain \/ Find!Expires
  <2>1. /\ snap' = snap
        /\ findPc \in {"resolve", "sleep"}
        /\ findPc' \in {"sleep", "poll", "timeout"}
    BY <1>5 DEF Find!ResolvesNot, Find!PollAgain, Find!Expires
  <2> QED
    BY <2>1 DEF Find!IInv
<1> QED
  BY <1>1, <1>2, <1>3, <1>3a, <1>4, <1>5 DEF Find!Next, Find!Discover

\* The invariant holds in every reachable state.
THEOREM FindInductive == Find!Spec => []Find!IInv
<1>1. Find!IInv /\ [Find!Next]_Find!vars => Find!IInv'
  BY FindTypeStep, FindAddressStep DEF Find!IInv
<1> QED
  BY <1>1, FindInitInv, PTL DEF Find!Spec

\* Discovery keeps its types.
THEOREM FindTypeCorrect == Find!Spec => []Find!TypeOK
<1>1. Find!IInv => Find!TypeOK
  BY DEF Find!IInv
<1> QED
  BY <1>1, FindInductive, PTL

\* An address on the host's own subnet that the Guest Additions published is what
\* wait_for_guest_ip returns; a bridge, a stale DNS record or a timeout come only of a race.
THEOREM FindExplained == Find!Spec => []Find!AddressExplained
<1>1. Find!IInv => Find!AddressExplained
  BY DEF Find!IInv
<1> QED
  BY <1>1, FindInductive, PTL


-----------------------------------------------------------------------------
(* The website. *)

\* A build's files are pages.
LEMMA SitePages == \A b \in Website!Builds : Website!Site(b) \subseteq Pages
BY WebsiteHolds DEF Website!SiteAssumption, Website!Site, Website!Builds

\* The initial states satisfy the invariant.
LEMMA SiteInitInv == Website!Init => Website!IInv
<1> SUFFICES ASSUME Website!Init PROVE Website!IInv
  OBVIOUS
<1>1. Website!TypeOK
  <2>1. again \in BOOLEAN /\ envSet \in BOOLEAN
    BY DEF Website!Init
  <2>2. runs \in 0..MaxRuns /\ stamps \in [Pages -> Nat] /\ content \in [Pages -> Website!Builds]
    BY WebsiteHolds DEF Website!Init, Website!SiteAssumption, Website!Builds
  <2> QED
    BY <2>1, <2>2 DEF Website!Init, Website!TypeOK, Website!Pcs
<1>2. Website!StepsInv
  BY DEF Website!Init, Website!StepsInv
<1>3. Website!SiteDelivered
  BY DEF Website!Init, Website!SiteDelivered, Website!PublishDelivers, Website!NoDuplicateTags
<1> QED
  BY <1>1, <1>2, <1>3 DEF Website!IInv

\* Every step keeps the types.
LEMMA SiteTypeStep == ASSUME Website!IInv, [Website!Next]_Website!vars PROVE Website!TypeOK'
<1> USE DEF Website!IInv, Website!TypeOK, Website!Pcs, Website!Goto, Website!Ends, Website!site,
   Website!loop
<1>1. CASE Website!Rebuild
  BY <1>1 DEF Website!Rebuild
<1>2. CASE Website!PublishSite
  BY <1>2, WebsiteHolds DEF Website!PublishSite, Website!SiteAssumption
<1>3. CASE Website!StepRaises
  BY <1>3 DEF Website!StepRaises
<1>4. CASE Website!ClearStaging
  BY <1>4 DEF Website!ClearStaging
<1>5. CASE Website!Unpack
  <2>1. stage' \in [build: Website!Builds, files: SUBSET Pages]
    BY <1>5, SitePages DEF Website!Unpack
  <2> QED
    BY <1>5, <2>1 DEF Website!Unpack
<1>6. CASE Website!UnpackFails
  <2>1. stage' \in [build: Website!Builds, files: SUBSET Pages]
    BY <1>6, SitePages DEF Website!UnpackFails
  <2> QED
    BY <1>6, <2>1 DEF Website!UnpackFails
<1>7. CASE Website!CheckRoot \/ Website!CheckFails
  BY <1>7 DEF Website!CheckRoot, Website!CheckFails
<1>8. CASE Website!RemoveRoot
  BY <1>8 DEF Website!RemoveRoot
<1>9. ASSUME NEW files \in SUBSET Pages, Website!Copied(files)
      PROVE  /\ doc' \subseteq Pages
             /\ content' \in [Pages -> Website!Builds]
             /\ stamps' \in [Pages -> Nat]
  BY <1>9 DEF Website!Copied
<1>10. CASE Website!Copy
  <2>1. stage.files \in SUBSET Pages
    OBVIOUS
  <2> QED
    BY <1>9, <1>10, <2>1 DEF Website!Copy
<1>11. CASE Website!CopyFails
  <2>1. PICK part \in SUBSET stage.files : Website!Copied(part)
    BY <1>11 DEF Website!CopyFails
  <2>2. part \in SUBSET Pages
    OBVIOUS
  <2>3. /\ doc' \subseteq Pages
        /\ content' \in [Pages -> Website!Builds]
        /\ stamps' \in [Pages -> Nat]
    BY <1>9, <2>1, <2>2
  <2> QED
    BY <1>11, <2>3 DEF Website!CopyFails
<1>12. CASE Website!Permissions
  BY <1>12 DEF Website!Permissions
<1>13. CASE Website!StampStarts
  BY <1>13 DEF Website!StampStarts
<1>14. CASE Website!SkipPage
  BY <1>14 DEF Website!SkipPage, Website!Consume
<1>15. CASE Website!StampPage
  BY <1>15 DEF Website!StampPage, Website!Consume
<1>16. CASE Website!SedFails
  BY <1>16 DEF Website!SedFails, Website!Consume
<1>17. CASE Website!StampDone
  BY <1>17 DEF Website!StampDone
<1>18. CASE Website!StampAgain
  BY <1>18 DEF Website!StampAgain
<1>19. CASE Website!StampRaises
  BY <1>19 DEF Website!StampRaises
<1>20. CASE UNCHANGED Website!vars
  BY <1>20 DEF Website!vars
<1> HIDE DEF Website!TypeOK
<1> QED
  BY <1>1, <1>2, <1>3, <1>4, <1>5, <1>6, <1>7, <1>8, <1>10, <1>11, <1>12, <1>13, <1>14, <1>15,
     <1>16, <1>17, <1>18, <1>19, <1>20 DEF Website!Next, Website!Fetch, Website!Install,
     Website!Stamp

\* Copying leaves every page of the document root with at most one tag.
LEMMA SiteCopied ==
    ASSUME Website!IInv, NEW files \in SUBSET Pages, Website!Copied(files)
    PROVE  Website!NoDuplicateTags'
BY DEF Website!Copied, Website!IInv, Website!TypeOK, Website!SiteDelivered,
   Website!NoDuplicateTags

\* Every step keeps what the steps find and what a publication delivers.
LEMMA SiteStep ==
    ASSUME Website!IInv, [Website!Next]_Website!vars
    PROVE  Website!StepsInv' /\ Website!SiteDelivered'
<1> USE DEF Website!SiteDelivered, Website!PublishDelivers, Website!NoDuplicateTags,
   Website!StepsInv, Website!Goto, Website!Ends, Website!site, Website!loop
<1>1. CASE Website!Rebuild
  BY <1>1 DEF Website!Rebuild, Website!IInv
<1>2. CASE Website!PublishSite
  BY <1>2 DEF Website!PublishSite, Website!IInv
<1>3. CASE Website!StepRaises
  BY <1>3 DEF Website!StepRaises, Website!IInv
<1>4. CASE Website!ClearStaging
  BY <1>4 DEF Website!ClearStaging, Website!IInv
<1>5. CASE Website!Unpack
  BY <1>5 DEF Website!Unpack, Website!IInv
<1>6. CASE Website!UnpackFails
  BY <1>6 DEF Website!UnpackFails, Website!IInv
<1>7. CASE Website!CheckRoot
  <2>1. stage.build # "other"
    BY <1>7 DEF Website!CheckRoot, Website!IInv, Website!Site
  <2> QED
    BY <1>7, <2>1 DEF Website!CheckRoot, Website!IInv
<1>20. CASE Website!CheckFails
  BY <1>20 DEF Website!CheckFails, Website!IInv
<1>8. CASE Website!RemoveRoot
  BY <1>8 DEF Website!RemoveRoot, Website!IInv
<1>9. CASE Website!Copy
  <2>1. stage.files \in SUBSET Pages
    BY DEF Website!IInv, Website!TypeOK
  <2>2. Website!NoDuplicateTags'
    BY <1>9, <2>1, SiteCopied DEF Website!Copy
  <2>3. stage' = stage /\ doc' = stage.files /\ \A p \in stage.files : content'[p] = stage.build
    BY <1>9, <2>1 DEF Website!Copy, Website!Copied, Website!IInv
  <2>4. /\ sitePc = "copy" /\ sitePc' = "permissions" /\ stage.files = Website!Site(stage.build)
        /\ stage.build # "other"
    BY <1>9 DEF Website!Copy, Website!IInv
  <2> QED
    BY <2>2, <2>3, <2>4 DEF Website!Site
<1>10. CASE Website!CopyFails
  <2>1. PICK part \in SUBSET stage.files : Website!Copied(part)
    BY <1>10 DEF Website!CopyFails
  <2>2. part \in SUBSET Pages
    BY DEF Website!IInv, Website!TypeOK
  <2>3. Website!NoDuplicateTags'
    BY <2>1, <2>2, SiteCopied
  <2>4. sitePc' = "idle" /\ siteResult' = "fail"
    BY <1>10 DEF Website!CopyFails
  <2> QED
    BY <2>3, <2>4
<1>11. CASE Website!Permissions
  BY <1>11 DEF Website!Permissions, Website!IInv
<1>12. CASE Website!StampStarts
  <2>1. sitePc' = "each" /\ todo' = doc \intersect LowerHead
    BY <1>12 DEF Website!StampStarts
  <2>2. \A p \in doc \ todo' : ~Website!Stampable(p)
    BY <2>1 DEF Website!Stampable
  <2> QED
    BY <1>12, <2>1, <2>2 DEF Website!StampStarts, Website!IInv
<1>13. CASE Website!SkipPage
  <2>1. PICK p \in todo : Website!Marked(p) /\ todo' = todo \ {p}
    BY <1>13 DEF Website!SkipPage, Website!Consume
  <2>2. Website!Stampable(p) => stamps[p] = 1
    <3>1. p \in Pages /\ stamps[p] \in Nat /\ stamps[p] <= 1
      BY DEF Website!IInv, Website!TypeOK
    <3> QED
      BY <2>1, <3>1 DEF Website!Marked, Website!Stampable
  <2> QED
    BY <1>13, <2>1, <2>2 DEF Website!SkipPage, Website!Consume, Website!IInv
<1>14. CASE Website!StampPage
  <2>1. PICK p \in todo : /\ ~Website!Marked(p)
                          /\ todo' = todo \ {p}
                          /\ stamps' = [stamps EXCEPT ![p] = @ + 1]
    BY <1>14 DEF Website!StampPage, Website!Consume
  <2>2. p \in Pages /\ stamps[p] = 0
    BY <2>1 DEF Website!IInv, Website!TypeOK, Website!Marked
  <2>3. stamps'[p] = 1 /\ \A q \in Pages : q # p => stamps'[q] = stamps[q]
    BY <2>1, <2>2 DEF Website!IInv, Website!TypeOK
  <2>4. Website!NoDuplicateTags'
    BY <2>3 DEF Website!IInv
  <2>5. /\ sitePc = "each" /\ sitePc' = "each"
        /\ UNCHANGED <<stage, doc, content, sedFailed>>
    BY <1>14 DEF Website!StampPage, Website!Consume
  <2>6. doc \subseteq Pages
    BY DEF Website!IInv, Website!TypeOK
  <2>7. \A q \in doc' \ todo' : Website!Stampable(q) => stamps'[q] = 1 \/ q \in sedFailed'
    BY <2>1, <2>3, <2>5, <2>6 DEF Website!IInv
  <2> QED
    BY <2>4, <2>5, <2>7 DEF Website!IInv
<1>15. CASE Website!SedFails
  BY <1>15 DEF Website!SedFails, Website!Consume, Website!IInv
<1>16. CASE Website!StampDone
  <2>1. /\ sitePc = "each" /\ sitePc' = "idle" /\ todo = {}
        /\ UNCHANGED <<doc, content, stamps, sedFailed>>
    BY <1>16 DEF Website!StampDone
  <2>2. /\ stage.build \in {"old", "new"}
        /\ doc = Website!Site(stage.build)
        /\ \A p \in doc : content[p] = stage.build
    BY <2>1 DEF Website!IInv, Website!TypeOK, Website!Builds
  <2>3. \A p \in doc : Website!Stampable(p) /\ p \notin sedFailed => stamps[p] = 1
    BY <2>1 DEF Website!IInv
  <2> QED
    BY <2>1, <2>2, <2>3 DEF Website!IInv
<1>17. CASE Website!StampAgain
  <2>1. sitePc = "each" /\ sitePc' = "each" /\ todo' = doc \intersect LowerHead
    BY <1>17 DEF Website!StampAgain
  <2>2. \A p \in doc \ todo' : ~Website!Stampable(p)
    BY <2>1 DEF Website!Stampable
  <2> QED
    BY <1>17, <2>1, <2>2 DEF Website!StampAgain, Website!IInv
<1>18. CASE Website!StampRaises
  BY <1>18 DEF Website!StampRaises, Website!IInv
<1>19. CASE UNCHANGED Website!vars
  BY <1>19 DEF Website!vars, Website!IInv, Website!Stampable
<1> HIDE DEF Website!SiteDelivered, Website!StepsInv
<1> QED
  BY <1>1, <1>2, <1>3, <1>4, <1>5, <1>6, <1>7, <1>8, <1>9, <1>10, <1>11, <1>12, <1>13, <1>14,
     <1>15, <1>16, <1>17, <1>18, <1>19, <1>20 DEF Website!Next, Website!Fetch, Website!Install,
     Website!Stamp

\* The invariant holds in every reachable state.
THEOREM SiteInductive == Website!Spec => []Website!IInv
<1>1. Website!IInv /\ [Website!Next]_Website!vars => Website!IInv'
  BY SiteTypeStep, SiteStep DEF Website!IInv
<1> QED
  BY <1>1, SiteInitInv, PTL DEF Website!Spec

\* Publishing keeps its types.
THEOREM SiteTypeCorrect == Website!Spec => []Website!TypeOK
<1>1. Website!IInv => Website!TypeOK
  BY DEF Website!IInv
<1> QED
  BY <1>1, SiteInductive, PTL

\* Once publish_site has returned, the document root is one build of the site, and every page the
\* loop can stamp carries the identity, once; no page ever carries it twice.
THEOREM SiteIsDelivered == Website!Spec => []Website!SiteDelivered
<1>1. Website!IInv => Website!SiteDelivered
  BY DEF Website!IInv
<1> QED
  BY <1>1, SiteInductive, PTL

\* The site being served is given up only for a build of the site that was fetched whole.
THEOREM SiteIsKept == Website!Spec => Website!SiteKeptUntilFetched
<1>1. Website!IInv /\ [Website!Next]_Website!vars => [doc' # doc =>
          stage.build # "other" /\ stage.files = Website!Site(stage.build)]_Website!vars
  <2> SUFFICES ASSUME Website!IInv, Website!Next, doc' # doc
               PROVE  stage.build # "other" /\ stage.files = Website!Site(stage.build)
    BY DEF Website!vars, Website!site
  <2>1. sitePc \in {"remove", "copy"}
    BY DEF Website!Next, Website!Fetch, Website!Install, Website!Stamp, Website!Rebuild,
       Website!PublishSite, Website!StepRaises, Website!ClearStaging, Website!Unpack,
       Website!UnpackFails, Website!CheckRoot, Website!CheckFails, Website!RemoveRoot, Website!Copy,
       Website!CopyFails, Website!Permissions, Website!StampStarts, Website!SkipPage,
       Website!StampPage, Website!SedFails, Website!StampDone, Website!StampAgain,
       Website!StampRaises, Website!Goto, Website!Consume, Website!site
  <2> QED
    BY <2>1 DEF Website!IInv, Website!StepsInv
<1> QED
  BY <1>1, SiteInductive, PTL DEF Website!Spec, Website!SiteKeptUntilFetched


-----------------------------------------------------------------------------
(* Waiting for the cluster. *)

\* The constants, and the endpoints by number.
LEMMA ReadyNumbers ==
    /\ Len(Endpoints) \in Nat /\ Len(Endpoints) >= 1 /\ Ready!Polled = 1..Len(Endpoints)
    /\ Timeout \in Nat /\ Attempt \in Nat /\ Poll \in Nat /\ Poll >= 1 /\ MaxFlips \in Nat
BY ReadyHolds DEF Ready!ReadinessAssumption, Ready!Polled

\* The initial states satisfy the invariant.
LEMMA ReadyInitInv == Ready!Init => Ready!IInv
<1> SUFFICES ASSUME Ready!Init PROVE Ready!IInv
  OBVIOUS
<1>1. 1 \in Ready!Polled
  BY ReadyNumbers
<1>2. /\ clock \in Nat
      /\ since \in 0..clock
      /\ upSince \in [Ready!Polled -> 0..clock]
      /\ flips \in 0..MaxFlips
  BY ReadyNumbers DEF Ready!Init
<1>3. tried \in BOOLEAN
  BY DEF Ready!Init
<1>4. Ready!TypeOK
  BY <1>1, <1>2, <1>3 DEF Ready!Init, Ready!TypeOK
<1>5. Ready!ProgressInv
  BY DEF Ready!Init, Ready!ProgressInv
<1>6. Ready!WaitJustified
  BY DEF Ready!Init, Ready!WaitJustified, Ready!ReadyMeansServed, Ready!TimeoutJustified,
     Ready!BoundedWait
<1> QED
  BY <1>4, <1>5, <1>6 DEF Ready!IInv

\* Every step keeps the types.
LEMMA ReadyTypeStep == ASSUME Ready!IInv, [Ready!Next]_Ready!vars PROVE Ready!TypeOK'
<1> USE ReadyNumbers DEF Ready!IInv, Ready!TypeOK, Ready!world
<1>1. CASE Ready!Flip
  <2>1. PICK e \in Ready!Polled, c \in Ready!Conditions :
            /\ flips < MaxFlips
            /\ flips' = flips + 1
            /\ up' = [up EXCEPT ![e] = c]
            /\ upSince' = [upSince EXCEPT ![e] = clock]
            /\ seen' = IF e = cur THEN seen \union {c} ELSE seen
            /\ UNCHANGED <<clock, cur, since, tried, answered, readyPc>>
    BY <1>1 DEF Ready!Flip
  <2>2. /\ up' \in [Ready!Polled -> Ready!Conditions]
        /\ upSince' \in [Ready!Polled -> 0..clock]
        /\ flips' \in 0..MaxFlips
    BY <2>1
  <2>3. seen' \subseteq Ready!Conditions
    BY <2>1
  <2> QED
    BY <2>1, <2>2, <2>3
<1>2. CASE Ready!Tick
  <2>1. /\ clock' = clock + 1
        /\ UNCHANGED <<up, upSince, flips, cur, since, tried, seen, answered, readyPc>>
    BY <1>2 DEF Ready!Tick
  <2>2. upSince' \in [Ready!Polled -> 0..clock']
    BY <2>1
  <2> QED
    BY <2>1, <2>2
<1>3. CASE Ready!Request
  <2>1. tried' \in BOOLEAN
    BY <1>3 DEF Ready!Request
  <2> QED
    BY <1>3, <2>1 DEF Ready!Request
<1>4. CASE Ready!Answered
  <2>1. cur' \in Ready!Polled
    BY <1>4 DEF Ready!Answered
  <2>2. tried' \in BOOLEAN
    BY <1>4 DEF Ready!Answered
  <2> QED
    BY <1>4, <2>1, <2>2 DEF Ready!Answered
<1>5. CASE Ready!NotReady
  BY <1>5 DEF Ready!NotReady
<1>6. CASE Ready!Awake
  BY <1>6 DEF Ready!Awake
<1>7. CASE Ready!TimesOut
  BY <1>7 DEF Ready!TimesOut
<1>8. CASE UNCHANGED Ready!vars
  BY <1>8 DEF Ready!vars
<1> HIDE DEF Ready!TypeOK
<1> QED
  BY <1>1, <1>2, <1>3, <1>4, <1>5, <1>6, <1>7, <1>8 DEF Ready!Next, Ready!Step

\* Every step keeps what is known of the time.
LEMMA ReadyStep ==
    ASSUME Ready!IInv, [Ready!Next]_Ready!vars
    PROVE  Ready!ProgressInv' /\ Ready!WaitJustified'
<1> USE DEF Ready!WaitJustified, Ready!ReadyMeansServed, Ready!TimeoutJustified, Ready!BoundedWait
<1>1. /\ clock \in Nat /\ since \in Nat /\ since <= clock /\ cur \in Ready!Polled /\ cur \in Nat
      /\ cur >= 1 /\ cur <= Len(Endpoints) /\ upSince[cur] \in Nat
  BY ReadyNumbers DEF Ready!IInv, Ready!TypeOK
<1>2. Ready!ProgressInv /\ Ready!WaitJustified
  BY DEF Ready!IInv
<1>3. CASE Ready!Flip
  <2>1. PICK e \in Ready!Polled, c \in Ready!Conditions :
            /\ readyPc \in {"request", "sleep"}
            /\ up' = [up EXCEPT ![e] = c]
            /\ upSince' = [upSince EXCEPT ![e] = clock]
            /\ seen' = IF e = cur THEN seen \union {c} ELSE seen
            /\ UNCHANGED <<clock, cur, since, tried, answered, readyPc>>
    BY <1>3 DEF Ready!Flip
  <2>2. CASE e = cur
    <3>1. up'[cur] = c /\ upSince'[cur] = clock
      BY <1>1, <2>1, <2>2 DEF Ready!IInv, Ready!TypeOK
    <3> QED
      BY <1>1, <1>2, <2>1, <3>1, ReadyNumbers DEF Ready!ProgressInv
  <2>3. CASE e # cur
    <3>1. up'[cur] = up[cur] /\ upSince'[cur] = upSince[cur] /\ seen' = seen
      BY <1>1, <2>1, <2>3 DEF Ready!IInv, Ready!TypeOK
    <3> QED
      BY <1>1, <1>2, <2>1, <3>1 DEF Ready!ProgressInv
  <2> QED
    BY <2>2, <2>3
<1>4. CASE Ready!Tick
  <2>1. /\ clock' = clock + 1
        /\ UNCHANGED <<up, upSince, cur, since, tried, seen, answered, readyPc>>
    BY <1>4 DEF Ready!Tick, Ready!world
  <2>2. CASE readyPc = "request" /\ clock < since + Attempt
    BY <1>1, <1>2, <2>1, <2>2, ReadyNumbers DEF Ready!ProgressInv
  <2>3. CASE readyPc = "sleep" /\ clock < since + Poll
    BY <1>1, <1>2, <2>1, <2>3, ReadyNumbers DEF Ready!ProgressInv
  <2> QED
    BY <1>4, <2>2, <2>3 DEF Ready!Tick
<1>5. CASE Ready!Request
  <2>1. /\ readyPc' = "request" /\ since' = clock /\ clock < Timeout /\ seen' = {up[cur]}
        /\ UNCHANGED <<clock, up, upSince, cur, answered>>
    BY <1>5 DEF Ready!Request, Ready!world, Ready!InTime
  <2>2. up[cur] = "serving" => ~\E c \in seen' : ~Ready!Ok(c)
    BY <2>1 DEF Ready!Ok
  <2> QED
    BY <1>1, <1>2, <2>1, <2>2, ReadyNumbers DEF Ready!ProgressInv
<1>6. CASE Ready!Answered
  <2>1. answered' = answered \union {cur} /\ readyPc = "request" /\ clock' = clock
    BY <1>6 DEF Ready!Answered, Ready!Ok
  <2>2. 1..cur \subseteq answered'
    BY <1>1, <1>2, <2>1 DEF Ready!ProgressInv
  <2>3. answered' \subseteq Ready!Polled
    BY <1>1, <2>1 DEF Ready!IInv, Ready!TypeOK
  <2>4. Ready!BoundedWait'
    BY <1>1, <1>2, <2>1
  <2>5. CASE cur = Len(Endpoints)
    <3>1. answered' = Ready!Polled /\ readyPc' = "ready" /\ cur' = cur
      BY <1>6, <2>2, <2>3, <2>5, ReadyNumbers DEF Ready!Answered
    <3>2. 1..(cur' - 1) \subseteq answered'
      BY <1>1, <2>2, <3>1
    <3> QED
      BY <2>4, <3>1, <3>2 DEF Ready!ProgressInv
  <2>6. CASE cur # Len(Endpoints)
    <3>1. readyPc' = "check" /\ cur' = cur + 1 /\ ~tried'
      BY <1>6, <2>6 DEF Ready!Answered
    <3>2. 1..(cur' - 1) \subseteq answered'
      BY <1>1, <2>2, <3>1
    <3> QED
      BY <2>4, <3>1, <3>2 DEF Ready!ProgressInv
  <2> QED
    BY <2>5, <2>6
<1>7. CASE Ready!NotReady
  <2>1. /\ readyPc = "request"
        /\ readyPc' = "sleep"
        /\ since' = clock
        /\ (\E c \in seen : ~Ready!Ok(c))
        /\ UNCHANGED <<clock, up, upSince, cur, answered>>
    BY <1>7 DEF Ready!NotReady, Ready!world
  <2> QED
    BY <1>1, <1>2, <2>1, ReadyNumbers DEF Ready!ProgressInv
<1>8. CASE Ready!Awake
  <2>1. /\ readyPc = "sleep" /\ readyPc' = "check" /\ clock = since + Poll
        /\ UNCHANGED <<clock, up, upSince, cur, answered>>
    BY <1>8 DEF Ready!Awake, Ready!world
  <2> QED
    BY <1>1, <1>2, <2>1, ReadyNumbers DEF Ready!ProgressInv
<1>9. CASE Ready!TimesOut
  <2>1. /\ readyPc = "check" /\ readyPc' = "timeout" /\ ~(clock < Timeout)
        /\ UNCHANGED <<clock, up, upSince, cur, answered, tried>>
    BY <1>9 DEF Ready!TimesOut, Ready!world, Ready!InTime
  <2> QED
    BY <1>1, <1>2, <2>1, ReadyNumbers DEF Ready!ProgressInv
<1>10. CASE UNCHANGED Ready!vars
  BY <1>2, <1>10 DEF Ready!vars, Ready!world, Ready!ProgressInv
<1> QED
  BY <1>3, <1>4, <1>5, <1>6, <1>7, <1>8, <1>9, <1>10 DEF Ready!Next, Ready!Step

\* The invariant holds in every reachable state.
THEOREM ReadyInductive == Ready!Spec => []Ready!IInv
<1>1. Ready!IInv /\ [Ready!Next]_Ready!vars => Ready!IInv'
  BY ReadyTypeStep, ReadyStep DEF Ready!IInv
<1> QED
  BY <1>1, ReadyInitInv, PTL DEF Ready!Spec

\* The wait keeps its types.
THEOREM ReadyTypeCorrect == Ready!Spec => []Ready!TypeOK
<1>1. Ready!IInv => Ready!TypeOK
  BY DEF Ready!IInv
<1> QED
  BY <1>1, ReadyInductive, PTL

\* wait_for_cluster_ready returns only when every endpoint served a request of this call, times out
\* only on an endpoint that was not serving throughout, and outlasts its deadline by less than a
\* request and a sleep.
THEOREM ReadyJustified == Ready!Spec => []Ready!WaitJustified
<1>1. Ready!IInv => Ready!WaitJustified
  BY DEF Ready!IInv
<1> QED
  BY <1>1, ReadyInductive, PTL


-----------------------------------------------------------------------------
(* The properties of the run. *)

\* pull-image.ps1 that succeeded left the image it read the digest of, whatever older, foreign or
\* corrupt bytes it resumed over.
THEOREM PulledImageIntact == Pull!Spec => []SuccessMeansIntact
BY PullIntact, PTL DEF SuccessMeansIntact

\* However often attach_optical and detach_optical run, the guest sees one seed at most, the one
\* attached last, and none after an ejection that VirtualBox carried out.
THEOREM OneSeedAtATime == Drive!Spec => []SeedsInTurn
BY DriveSeedsInTurn, PTL DEF SeedsInTurn

\* No sequence of attaching and ejecting takes the guest's disk or an optical drive away.
THEOREM NoDiskTaken == Drive!Spec => DisksKept
BY DriveDisksKept, PTL DEF DisksKept

\* An address on the host's own subnet that was published is what wait_for_guest_ip returns; a
\* bridge's address, a stale DNS record or a timeout come only of a race.
THEOREM AddressIsExplained == Find!Spec => []AddressExplained
BY FindExplained, PTL DEF AddressExplained

\* Once publish_site has returned, the document root is one build of the site with every page the
\* loop can stamp stamped; no page ever carries the tag twice.
THEOREM WebsiteDelivered == Website!Spec => []SiteDelivered
BY SiteIsDelivered, PTL DEF SiteDelivered

\* The site that is served is given up only for a build that was fetched whole.
THEOREM WebsiteKept == Website!Spec => SiteKeptUntilFetched
BY SiteIsKept, PTL DEF SiteKeptUntilFetched

\* wait_for_cluster_ready returns only once every endpoint served a request of this call, times out
\* only on an endpoint that was not serving throughout, and outlasts its deadline by less than a
\* request and a sleep.
THEOREM WaitIsJustified == Ready!Spec => []WaitJustified
BY ReadyJustified, PTL DEF WaitJustified

\* The components keep their types, in every behaviour of all of them.
THEOREM GuestsTypeCorrect ==
    Pull!Spec /\ Drive!Spec /\ Find!Spec /\ Website!Spec /\ Ready!Spec => []TypeOK
<1>1. Pull!TypeOK /\ Drive!TypeOK /\ Find!TypeOK /\ Website!TypeOK /\ Ready!TypeOK => TypeOK
  BY DEF TypeOK
<1> QED
  BY <1>1, PullTypeCorrect, DriveTypeCorrect, FindTypeCorrect, SiteTypeCorrect, ReadyTypeCorrect,
     PTL
===============================================================================
