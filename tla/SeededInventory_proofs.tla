------------------------ MODULE SeededInventory_proofs ------------------------
(***************************************************************************)
(* Proofs about the inventory service beside vmdeploy's seed_inventory,    *)
(* for any number of handlers, records, seeds and crashes.  Most of the    *)
(* service's own invariant is lost beside a writer that ignores its lock;  *)
(* the lemmas on its types and on unique hostnames do not need it.         *)
(***************************************************************************)
EXTENDS SeededInventory, InventoryStore_proofs

\* What seed_inventory leaves at the path is a datastore.
LEMMA SeedContents ==
    /\ NoFile \in Contents /\ Private \in Contents
    /\ Sealed(SeedRecords, FALSE) \in Contents
    /\ UniqueHosts(NoFile.recs) /\ UniqueHosts(Private.recs)
    /\ UniqueHosts(Sealed(SeedRecords, FALSE).recs)
BY SeedRecordsAssumption, EmptyUnique DEF NoFile, Private, Sealed, Contents, Registries

\* Upsert drops no hostname from a registry.
LEMMA UpsertKeepsHosts ==
    ASSUME NEW s \in Seq(Record), UniqueHosts(s), NEW r \in Record
    PROVE  HostsOf(s) \subseteq HostsOf(Upsert(s, r))
<1> DEFINE t == Upsert(s, r)
<1>1. /\ t \in Seq(Record) /\ Len(s) <= Len(t)
      /\ \A i \in DOMAIN s : t[i].hostname = s[i].hostname
  BY UpsertStable
<1> HIDE DEF t
<1>2. DOMAIN s \subseteq DOMAIN t
  BY <1>1
<1>3. HostsOf(s) \subseteq HostsOf(t)
  BY <1>1, <1>2 DEF HostsOf
<1> QED
  BY <1>3 DEF t

\* Only a rename or a restart of the machine changes the datastore on the service's side.
LEMMA FileChanges ==
    ASSUME TypeOK, Next, file' # file
    PROVE  crashes' # crashes \/ \E h \in Handlers : Rename(h)
<1>1. ASSUME NEW h \in Handlers, Get(h) \/ Post(h) \/ PostRefused(h) \/ Lock(h)
      PROVE  FALSE
  BY <1>1 DEF Get, Post, PostRefused, Lock, diskVars
<1>2. ASSUME NEW h \in Handlers, Handle(h), ~Rename(h)
      PROVE  FALSE
  BY <1>2 DEF Handle, RefusalSent, RLock, RLockWaits, ReadFile, ReadFileFails, ReadReturn,
     LockGranted, LoadLocked, LoadFails, CreateTemp, WriteTemp, SyncTemp, CloseAndChmod,
     SaveFails, Return, diskVars
<1>3. Crash \/ PowerLoss => crashes' # crashes
  BY DEF Crash, PowerLoss, Restart, TypeOK
<1>4. ~Flush
  BY DEF Flush
<1> QED
  BY <1>1, <1>2, <1>3, <1>4 DEF Next

\* A handler that is saving has been, with the same registry, or has just loaded it.
LEMMA SavingSteps ==
    ASSUME TypeOK, Next, NEW g \in Handlers, pc'[g] \in SavePcs
    PROVE  (pc[g] \in SavePcs /\ recs'[g] = recs[g]) \/ LoadLocked(g)
<1> USE DEF SavePcs
<1>1. ASSUME NEW h \in Handlers, Get(h) \/ Post(h) \/ PostRefused(h) \/ Lock(h)
      PROVE  pc[g] \in SavePcs /\ recs'[g] = recs[g]
  BY <1>1 DEF Get, Post, PostRefused, Lock, Step, Goto, TypeOK, callVars
<1>2. ASSUME NEW h \in Handlers, RefusalSent(h) \/ ReadReturn(h)
      PROVE  pc[g] \in SavePcs /\ recs'[g] = recs[g]
  BY <1>2 DEF RefusalSent, ReadReturn, Step, Goto, Forget, TypeOK
<1>3. ASSUME NEW h \in Handlers, RLock(h) \/ RLockWaits(h) \/ LockGranted(h)
      PROVE  pc[g] \in SavePcs /\ recs'[g] = recs[g]
  BY <1>3 DEF RLock, RLockWaits, LockGranted, Step, Goto, TypeOK, callVars
<1>4. ASSUME NEW h \in Handlers, ReadFile(h) \/ ReadFileFails(h) \/ LoadFails(h) \/ SaveFails(h)
      PROVE  pc[g] \in SavePcs /\ recs'[g] = recs[g]
  BY <1>4 DEF ReadFile, ReadFileFails, LoadFails, SaveFails, Step, Goto, Result, TypeOK
<1>5. ASSUME NEW h \in Handlers, LoadLocked(h), h # g
      PROVE  pc[g] \in SavePcs /\ recs'[g] = recs[g]
  BY <1>5 DEF LoadLocked, Step, Goto, Result, TypeOK
<1>6. ASSUME NEW h \in Handlers,
             CreateTemp(h) \/ WriteTemp(h) \/ SyncTemp(h) \/ CloseAndChmod(h) \/ Rename(h)
      PROVE  pc[g] \in SavePcs /\ recs'[g] = recs[g]
  BY <1>6 DEF CreateTemp, WriteTemp, SyncTemp, CloseAndChmod, Rename, Step, Goto, TypeOK,
     callVars
<1>7. ASSUME NEW h \in Handlers, Return(h)
      PROVE  pc[g] \in SavePcs /\ recs'[g] = recs[g]
  BY <1>7 DEF Return, Unlock, Forget, TypeOK
<1>8. ~Crash /\ ~PowerLoss
  BY DEF Crash, PowerLoss, Restart
<1>9. Flush => pc[g] \in SavePcs /\ recs'[g] = recs[g]
  BY DEF Flush, callVars
<1> QED
  BY <1>1, <1>2, <1>3, <1>4, <1>5, <1>6, <1>7, <1>8, <1>9 DEF Next, Handle

\* Every step keeps the types and the hostnames unique.
LEMMA SeededTypeStep ==
    ASSUME SeededIInv, [SeededNext]_allVars PROVE SeededTypeOK' /\ RegistriesUnique'
<1> USE DEF SeededIInv, SeededTypeOK, RegistriesUnique, seedVars
<1>1. MaxSeeds \in Nat
  BY MaxSeedsAssumption
<1>2. CASE Next /\ UNCHANGED seedVars /\ Watch
  <2>1. TypeOK' /\ HostnamesUnique' /\ UniqueHosts(durable'.recs)
    BY <1>2, TypeStep, UniqueStep
  <2>2. disturbed' \in BOOLEAN
    BY <1>2 DEF Watch
  <2> QED
    BY <1>2, <2>1, <2>2
<1>3. CASE SeedStep /\ Watch
  <2>1. /\ seedPc' \in {"staged", "unlinked", "created", "installed", "failed", "done"}
        /\ seeds' = seeds \/ (seeds < MaxSeeds /\ seeds' = seeds + 1)
    BY <1>3 DEF SeedStep, SeedStart, InstallUnlink, InstallCreate, InstallCollides,
       InstallWrite, SeedRestartsService, SeedFails
  <2>2. seeds' \in 0..MaxSeeds
    BY <1>1, <2>1
  <2>3. disturbed' \in BOOLEAN
    BY <1>3 DEF Watch
  <2>4. file' \in {file, NoFile, Private, Sealed(SeedRecords, FALSE)}
    BY <1>3 DEF SeedStep, SeedStart, InstallUnlink, InstallCreate, InstallCollides,
       InstallWrite, SeedRestartsService, SeedFails, vars, diskVars
  <2>5. UNCHANGED <<durable, temp, orphans, stuck, crashes, lockVars, pc, callVars>>
    BY <1>3 DEF SeedStep, SeedStart, InstallUnlink, InstallCreate, InstallCollides,
       InstallWrite, SeedRestartsService, SeedFails, vars, diskVars
  <2>6. file' \in Contents /\ UniqueHosts(file'.recs)
    <3>1. file \in Contents /\ UniqueHosts(file.recs)
      BY DEF TypeOK, HostnamesUnique
    <3> QED
      BY <2>4, <3>1, SeedContents
  <2>7. TypeOK'
    BY <2>5, <2>6 DEF TypeOK, lockVars, callVars
  <2>8. RegistriesUnique'
    BY <2>5, <2>6 DEF HostnamesUnique, callVars
  <2> QED
    BY <2>1, <2>2, <2>3, <2>7, <2>8
<1>4. CASE UNCHANGED allVars
  BY <1>4 DEF allVars, vars, diskVars, lockVars, callVars, TypeOK, HostnamesUnique
<1> QED
  BY <1>2, <1>3, <1>4 DEF SeededNext

\* A seed that nothing has disturbed is one that no POST races and no loss of power touches.
LEMMA Undisturbed ==
    ASSUME Watch, ~disturbed'
    PROVE  ~disturbed /\ ~Racing' /\ (crashes' = crashes \/ file' = file)
BY DEF Watch

\* A step of the service leaves a quiet seed alone, or saves a registry that has its hosts.
LEMMA QuietServiceStep ==
    ASSUME SeededIInv, Next, UNCHANGED seedVars, Watch PROVE QuietInv' /\ QuietSeedKept'
<1> USE DEF SeededIInv, SeededTypeOK, seedVars
<1> SUFFICES ASSUME ~disturbed' PROVE QuietInv' /\ QuietSeedKept'
  BY DEF QuietInv, QuietSeedKept
<1>1. ~disturbed /\ ~Racing' /\ (crashes' = crashes \/ file' = file)
  BY Undisturbed
<1>2. file' = file \/ \E h \in Handlers : Rename(h)
  BY <1>1, FileChanges
<1>3. seedPc \in {"created", "installed"} => file' = file
  <2> SUFFICES ASSUME seedPc \in {"created", "installed"}, NEW h \in Handlers, Rename(h)
               PROVE  FALSE
    BY <1>2
  <2>1. pc[h] \in SavePcs
    BY DEF Rename, Step, SavePcs
  <2>2. Racing
    BY <2>1 DEF Racing, Upserting
  <2> QED
    BY <1>1, <2>2 DEF QuietInv
<1>4. ASSUME seedPc = "done", NEW g \in Handlers, pc'[g] \in SavePcs
      PROVE  SeedHosts \subseteq HostsOf(recs'[g])
  <2>1. CASE pc[g] \in SavePcs /\ recs'[g] = recs[g]
    BY <1>1, <1>4, <2>1 DEF QuietInv
  <2>2. CASE LoadLocked(g)
    <3>1. recs'[g] = Upsert(file.recs, cand[g])
      BY <2>2 DEF LoadLocked, Result, RecordsOf, TypeOK
    <3>2. file.recs \in Seq(Record) /\ UniqueHosts(file.recs) /\ cand[g] \in Record
      BY DEF TypeOK, Contents, Registries, RegistriesUnique, HostnamesUnique
    <3>3. SeedHosts \subseteq HostsOf(file.recs)
      BY <1>1, <1>4 DEF QuietSeedKept, Members
    <3> QED
      BY <3>1, <3>2, <3>3, UpsertKeepsHosts
  <2> QED
    BY <1>4, <2>1, <2>2, SavingSteps
<1>5. ASSUME seedPc = "done" PROVE Whole(file') /\ SeedHosts \subseteq Members(file')
  <2>1. CASE file' = file
    BY <1>1, <1>5, <2>1 DEF QuietSeedKept
  <2>2. ASSUME NEW h \in Handlers, Rename(h)
        PROVE  Whole(file') /\ SeedHosts \subseteq Members(file')
    <3>1. pc[h] \in SavePcs /\ file'.kind = "sealed" /\ file'.recs = recs[h]
      BY <2>2 DEF Rename, Step, SavePcs, Sealed
    <3>2. SeedHosts \subseteq HostsOf(recs[h])
      BY <1>1, <1>5, <3>1 DEF QuietInv
    <3> QED
      BY <3>1, <3>2 DEF Whole, Members
  <2> QED
    BY <1>2, <2>1, <2>2
<1>6. QuietInv'
  BY <1>1, <1>3, <1>4 DEF QuietInv
<1>7. QuietSeedKept'
  BY <1>5 DEF QuietSeedKept
<1> QED
  BY <1>6, <1>7

\* A step of seed_inventory finds its file as it left it, and ends with the configured hosts in it.
LEMMA QuietSeedStep ==
    ASSUME SeededIInv, SeedStep, Watch PROVE QuietInv' /\ QuietSeedKept'
<1> USE DEF SeededIInv
<1> SUFFICES ASSUME ~disturbed' PROVE QuietInv' /\ QuietSeedKept'
  BY DEF QuietInv, QuietSeedKept
<1>1. ~disturbed /\ ~Racing'
  BY Undisturbed
<1>2. ASSUME seedPc' \notin {"created", "installed", "done"}
      PROVE  QuietInv' /\ QuietSeedKept'
  BY <1>1, <1>2 DEF QuietInv, QuietSeedKept
<1>3. CASE SeedStart \/ InstallUnlink \/ InstallCollides \/ SeedFails
  BY <1>2, <1>3 DEF SeedStart, InstallUnlink, InstallCollides, SeedFails
<1>4. CASE InstallCreate
  BY <1>1, <1>4 DEF InstallCreate, QuietInv, QuietSeedKept
<1>5. CASE InstallWrite
  BY <1>1, <1>5 DEF InstallWrite, QuietInv, QuietSeedKept
<1>6. CASE SeedRestartsService
  <2>1. /\ seedPc = "installed" /\ UNCHANGED <<file, pc>> /\ seedPc' = "done"
        /\ \A h \in Handlers : pc[h] = "idle"
    BY <1>6 DEF SeedRestartsService, vars, diskVars
  <2>2. file = Sealed(SeedRecords, FALSE)
    BY <1>1, <2>1 DEF QuietInv
  <2>3. Whole(file') /\ SeedHosts \subseteq Members(file')
    BY <2>1, <2>2 DEF Whole, Sealed, Members, SeedHosts
  <2>4. QuietInv'
    BY <1>1, <2>1 DEF QuietInv, SavePcs
  <2> QED
    BY <2>3, <2>4 DEF QuietSeedKept
<1> QED
  BY <1>3, <1>4, <1>5, <1>6 DEF SeedStep

\* The initial states satisfy the invariant.
LEMMA SeededInitInv == SeedInit => SeededIInv
<1> SUFFICES ASSUME SeedInit PROVE SeededIInv
  OBVIOUS
<1>1. IInv
  BY InitInv DEF SeedInit
<1>2. seedPc = "idle" /\ seeds = 0 /\ disturbed = FALSE
  BY DEF SeedInit
<1>3. SeededTypeOK
  <2>1. TypeOK
    BY <1>1 DEF IInv
  <2>2. 0 \in 0..MaxSeeds
    BY MaxSeedsAssumption
  <2> QED
    BY <1>2, <2>1, <2>2 DEF SeededTypeOK
<1>4. RegistriesUnique
  BY <1>1 DEF RegistriesUnique, IInv, FileInv
<1>5. QuietInv /\ QuietSeedKept
  BY <1>2 DEF QuietInv, QuietSeedKept, Racing
<1> QED
  BY <1>3, <1>4, <1>5 DEF SeededIInv

\* The invariant of the service and the seeder together.
THEOREM SeededInductive == SeededSpec => []SeededIInv
<1>1. SeededIInv /\ [SeededNext]_allVars => SeededIInv'
  <2> SUFFICES ASSUME SeededIInv, [SeededNext]_allVars PROVE SeededIInv'
    OBVIOUS
  <2>1. SeededTypeOK' /\ RegistriesUnique'
    BY SeededTypeStep
  <2>2. QuietInv' /\ QuietSeedKept'
    <3>1. CASE Next /\ UNCHANGED seedVars /\ Watch
      BY <3>1, QuietServiceStep
    <3>2. CASE SeedStep /\ Watch
      BY <3>2, QuietSeedStep
    <3>3. CASE UNCHANGED allVars
      BY <3>3 DEF SeededIInv, QuietInv, QuietSeedKept, Racing, Upserting, allVars, seedVars,
         vars, diskVars, callVars
    <3> QED
      BY <3>1, <3>2, <3>3 DEF SeededNext
  <2> QED
    BY <2>1, <2>2 DEF SeededIInv
<1> QED
  BY SeededInitInv, <1>1, PTL DEF SeededSpec

\* The service and the seeder keep their types, whatever file the seeder's install(1) leaves at the
\* path between two steps of a handler.
THEOREM SeededTypeCorrect == SeededSpec => []SeededTypeOK
<1>1. SeededIInv => SeededTypeOK
  BY DEF SeededIInv
<1> QED
  BY SeededInductive, <1>1, PTL

\* seed_inventory that returned, with no POST under way during it and no loss of power taking it
\* back, put every configured host in the registry, and no later POST, failure or crash drops one.
THEOREM QuietSeedIsKept == SeededSpec => []QuietSeedKept
<1>1. SeededIInv => QuietSeedKept
  BY DEF SeededIInv
<1> QED
  BY SeededInductive, <1>1, PTL
===============================================================================
