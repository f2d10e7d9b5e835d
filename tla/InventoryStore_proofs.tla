------------------------- MODULE InventoryStore_proofs -------------------------
(***************************************************************************)
(* Proofs about the Go inventory service for any number of handlers, any   *)
(* records and any number of crashes.                                      *)
(***************************************************************************)
EXTENDS InventoryStore, SequenceTheorems, TLAPS

\* The default record is a record.
LEMMA AnyRecordType == AnyRecord \in Record
BY RecordAssumption DEF AnyRecord

\* Upsert yields a registry, keeps hostnames unique, keeps every position's hostname and never
\* shortens the registry (Store.Upsert's "member ordering stays stable").
LEMMA UpsertStable ==
    ASSUME NEW s \in Seq(Record), UniqueHosts(s), NEW r \in Record
    PROVE  /\ Upsert(s, r) \in Seq(Record)
           /\ UniqueHosts(Upsert(s, r))
           /\ Len(s) <= Len(Upsert(s, r))
           /\ \A i \in DOMAIN s : Upsert(s, r)[i].hostname = s[i].hostname
<1>1. CASE Positions(s, r.hostname) = {}
  <2>1. Upsert(s, r) = Append(s, r)
    BY <1>1 DEF Upsert
  <2>2. \A i \in DOMAIN s : s[i].hostname # r.hostname
    BY <1>1 DEF Positions
  <2>3. UniqueHosts(Append(s, r))
    BY <2>2 DEF UniqueHosts
  <2> QED
    BY <2>1, <2>3
<1>2. CASE Positions(s, r.hostname) # {}
  <2> DEFINE first == CHOOSE i \in Positions(s, r.hostname) :
                          \A j \in Positions(s, r.hostname) : i <= j
  <2>1. PICK k \in Positions(s, r.hostname) : TRUE
    BY <1>2
  <2>2. \A j \in Positions(s, r.hostname) : k <= j
    BY <2>1 DEF Positions, UniqueHosts
  <2>3. first \in Positions(s, r.hostname)
    BY <2>1, <2>2
  <2>4. Upsert(s, r) = [s EXCEPT ![first] = r]
    BY <1>2 DEF Upsert
  <2> HIDE DEF first
  <2>5. first \in DOMAIN s /\ s[first].hostname = r.hostname
    BY <2>3 DEF Positions
  <2>6. \A i \in DOMAIN s : [s EXCEPT ![first] = r][i].hostname = s[i].hostname
    BY <2>5
  <2>7. DOMAIN [s EXCEPT ![first] = r] = DOMAIN s
        /\ Len([s EXCEPT ![first] = r]) = Len(s)
        /\ [s EXCEPT ![first] = r] \in Seq(Record)
    BY <2>5, ExceptSeq
  <2>8. UniqueHosts([s EXCEPT ![first] = r])
    BY <2>6, <2>7 DEF UniqueHosts
  <2> QED
    BY <2>4, <2>6, <2>7, <2>8
<1> QED
  BY <1>1, <1>2

\* Every step keeps the types; the seeded composition, where the rest of IInv is lost, uses it too.
LEMMA TypeStep == TypeOK /\ HostnamesUnique /\ [Next]_vars => TypeOK'
<1> SUFFICES ASSUME TypeOK, HostnamesUnique, [Next]_vars PROVE TypeOK'
  OBVIOUS
<1> USE DEF TypeOK, Contents, NoFile, Torn, Empty, Sealed, Readable, HostnamesUnique, Registries, diskVars, lockVars, callVars, Pcs, ReaderPcs, SavePcs, WriterPcs
<1>1. ASSUME NEW h \in Handlers, Get(h) PROVE TypeOK'
  BY <1>1 DEF Get, Step, Goto
<1>2. ASSUME NEW h \in Handlers, Post(h) PROVE TypeOK'
  BY <1>2 DEF Post, Step, Goto
<1>3. ASSUME NEW h \in Handlers, PostRefused(h) PROVE TypeOK'
  BY <1>3 DEF PostRefused, Step, Goto
<1>4. ASSUME NEW h \in Handlers, RefusalSent(h) PROVE TypeOK'
  BY <1>4, AnyRecordType DEF RefusalSent, Step, Goto, Forget
<1>5. ASSUME NEW h \in Handlers, RLock(h) PROVE TypeOK'
  BY <1>5 DEF RLock, Step, Goto
<1>6. ASSUME NEW h \in Handlers, RLockWaits(h) PROVE TypeOK'
  BY <1>6 DEF RLockWaits, Step, Goto
<1>7. ASSUME NEW h \in Handlers, ReadFile(h) PROVE TypeOK'
  BY <1>7 DEF ReadFile, Step, Goto, Result, RecordsOf
<1>8. ASSUME NEW h \in Handlers, ReadFileFails(h) PROVE TypeOK'
  BY <1>8 DEF ReadFileFails, Step, Goto, Result
<1>9. ASSUME NEW h \in Handlers, ReadReturn(h) PROVE TypeOK'
  BY <1>9, AnyRecordType DEF ReadReturn, Step, Goto, RUnlock, Forget
<1>10. ASSUME NEW h \in Handlers, Lock(h) PROVE TypeOK'
  BY <1>10 DEF Lock, Step, Goto
<1>11. ASSUME NEW h \in Handlers, LockGranted(h) PROVE TypeOK'
  BY <1>11 DEF LockGranted, Step, Goto
<1>12. ASSUME NEW h \in Handlers, LoadLocked(h) PROVE TypeOK'
  <2>1. Upsert(file.recs, cand[h]) \in Registries
    BY UpsertStable
  <2> QED
    BY <1>12, <2>1 DEF LoadLocked, Step, Goto, Result, RecordsOf
<1>13. ASSUME NEW h \in Handlers, LoadFails(h) PROVE TypeOK'
  BY <1>13 DEF LoadFails, Step, Goto, Result
<1>14. ASSUME NEW h \in Handlers, CreateTemp(h) PROVE TypeOK'
  BY <1>14 DEF CreateTemp, Step, Goto
<1>15. ASSUME NEW h \in Handlers, WriteTemp(h) PROVE TypeOK'
  BY <1>15 DEF WriteTemp, Step, Goto
<1>16. ASSUME NEW h \in Handlers, SyncTemp(h) PROVE TypeOK'
  BY <1>16 DEF SyncTemp, Step, Goto
<1>17. ASSUME NEW h \in Handlers, CloseAndChmod(h) PROVE TypeOK'
  BY <1>17 DEF CloseAndChmod, Step, Goto
<1>18. ASSUME NEW h \in Handlers, Rename(h) PROVE TypeOK'
  BY <1>18 DEF Rename, Step, Goto, Sealed
<1>19. ASSUME NEW h \in Handlers, SaveFails(h) PROVE TypeOK'
  BY <1>19 DEF SaveFails, RemoveFails, Goto, Result
<1>20. ASSUME NEW h \in Handlers, Return(h) PROVE TypeOK'
  BY <1>20, AnyRecordType DEF Return, Unlock, Forget
<1>21. CASE Crash
  BY <1>21, AnyRecordType DEF Crash, Restart
<1>22. CASE PowerLoss
  <2>1. file' \in {durable, file, Torn, Empty} /\ durable' = file'
    BY <1>22 DEF PowerLoss
  <2>2. Torn \in Contents /\ Empty \in Contents
    OBVIOUS
  <2> HIDE DEF Contents, Torn, Empty
  <2>3. file' \in Contents /\ durable' \in Contents
    BY <2>1, <2>2
  <2>4. Restart
    BY <1>22 DEF PowerLoss
  <2> QED
    BY <2>3, <2>4, AnyRecordType DEF Restart
<1>23. CASE Flush
  BY <1>23 DEF Flush
<1>24. CASE UNCHANGED vars
  BY <1>24 DEF vars
<1> HIDE DEF TypeOK, Contents, NoFile, Torn, Empty, Sealed, Readable, HostnamesUnique
<1> QED
  BY <1>1, <1>2, <1>3, <1>4, <1>5, <1>6, <1>7, <1>8, <1>9, <1>10, <1>11, <1>12, <1>13, <1>14, <1>15, <1>16, <1>17, <1>18, <1>19, <1>20, <1>21, <1>22, <1>23, <1>24 DEF Next, Handle

\* Every step keeps the lock and the program counters in agreement.
LEMMA LockStep == IInv /\ [Next]_vars => LockInv'
<1> SUFFICES ASSUME IInv, [Next]_vars PROVE LockInv'
  OBVIOUS
<1> USE DEF IInv, TypeOK, LockInv, Registries, diskVars, lockVars, callVars, Pcs, ReaderPcs, SavePcs, WriterPcs
<1>1. ASSUME NEW h \in Handlers, Get(h) PROVE LockInv'
  BY <1>1, HandlersAssumption DEF Get, Step, Goto
<1>2. ASSUME NEW h \in Handlers, Post(h) PROVE LockInv'
  BY <1>2, HandlersAssumption DEF Post, Step, Goto
<1>3. ASSUME NEW h \in Handlers, PostRefused(h) PROVE LockInv'
  BY <1>3, HandlersAssumption DEF PostRefused, Step, Goto
<1>4. ASSUME NEW h \in Handlers, RefusalSent(h) PROVE LockInv'
  BY <1>4, HandlersAssumption DEF RefusalSent, Step, Goto, Forget
<1>5. ASSUME NEW h \in Handlers, RLock(h) PROVE LockInv'
  BY <1>5, HandlersAssumption DEF RLock, Step, Goto
<1>6. ASSUME NEW h \in Handlers, RLockWaits(h) PROVE LockInv'
  BY <1>6, HandlersAssumption DEF RLockWaits, Step, Goto
<1>7. ASSUME NEW h \in Handlers, ReadFile(h) PROVE LockInv'
  BY <1>7, HandlersAssumption DEF ReadFile, Step, Goto, Result, RecordsOf
<1>8. ASSUME NEW h \in Handlers, ReadFileFails(h) PROVE LockInv'
  BY <1>8, HandlersAssumption DEF ReadFileFails, Step, Goto, Result
<1>9. ASSUME NEW h \in Handlers, ReadReturn(h) PROVE LockInv'
  BY <1>9, HandlersAssumption DEF ReadReturn, Step, Goto, RUnlock, Forget
<1>10. ASSUME NEW h \in Handlers, Lock(h) PROVE LockInv'
  BY <1>10, HandlersAssumption DEF Lock, Step, Goto
<1>11. ASSUME NEW h \in Handlers, LockGranted(h) PROVE LockInv'
  BY <1>11, HandlersAssumption DEF LockGranted, Step, Goto
<1>12. ASSUME NEW h \in Handlers, LoadLocked(h) PROVE LockInv'
  BY <1>12, HandlersAssumption DEF LoadLocked, Step, Goto, Result, RecordsOf
<1>13. ASSUME NEW h \in Handlers, LoadFails(h) PROVE LockInv'
  BY <1>13, HandlersAssumption DEF LoadFails, Step, Goto, Result
<1>14. ASSUME NEW h \in Handlers, CreateTemp(h) PROVE LockInv'
  BY <1>14, HandlersAssumption DEF CreateTemp, Step, Goto
<1>15. ASSUME NEW h \in Handlers, WriteTemp(h) PROVE LockInv'
  BY <1>15, HandlersAssumption DEF WriteTemp, Step, Goto
<1>16. ASSUME NEW h \in Handlers, SyncTemp(h) PROVE LockInv'
  BY <1>16, HandlersAssumption DEF SyncTemp, Step, Goto
<1>17. ASSUME NEW h \in Handlers, CloseAndChmod(h) PROVE LockInv'
  BY <1>17, HandlersAssumption DEF CloseAndChmod, Step, Goto
<1>18. ASSUME NEW h \in Handlers, Rename(h) PROVE LockInv'
  BY <1>18, HandlersAssumption DEF Rename, Step, Goto, Sealed
<1>19. ASSUME NEW h \in Handlers, SaveFails(h) PROVE LockInv'
  BY <1>19, HandlersAssumption DEF SaveFails, Goto, Result
<1>20. ASSUME NEW h \in Handlers, Return(h) PROVE LockInv'
  BY <1>20, HandlersAssumption DEF Return, Unlock, Forget
<1>21. CASE Crash
  BY <1>21, HandlersAssumption DEF Crash, Restart
<1>22. CASE PowerLoss
  BY <1>22, HandlersAssumption DEF PowerLoss, Restart
<1>23. CASE Flush
  BY <1>23, HandlersAssumption DEF Flush
<1>24. CASE UNCHANGED vars
  BY <1>24 DEF vars
<1> HIDE DEF IInv, TypeOK, LockInv
<1> QED
  BY <1>1, <1>2, <1>3, <1>4, <1>5, <1>6, <1>7, <1>8, <1>9, <1>10, <1>11, <1>12, <1>13, <1>14, <1>15, <1>16, <1>17, <1>18, <1>19, <1>20, <1>21, <1>22, <1>23, <1>24 DEF Next, Handle

\* Every step keeps temporary files with their owners, synced before rename.
LEMMA TempStep == IInv /\ [Next]_vars => TempInv'
<1> SUFFICES ASSUME IInv, [Next]_vars PROVE TempInv'
  OBVIOUS
<1> USE DEF IInv, TypeOK, TempInv, Registries, diskVars, lockVars, callVars, Pcs, ReaderPcs, SavePcs, WriterPcs
<1>1. ASSUME NEW h \in Handlers, Get(h) PROVE TempInv'
  BY <1>1 DEF Get, Step, Goto
<1>2. ASSUME NEW h \in Handlers, Post(h) PROVE TempInv'
  BY <1>2 DEF Post, Step, Goto
<1>3. ASSUME NEW h \in Handlers, PostRefused(h) PROVE TempInv'
  BY <1>3 DEF PostRefused, Step, Goto
<1>4. ASSUME NEW h \in Handlers, RefusalSent(h) PROVE TempInv'
  BY <1>4 DEF RefusalSent, Step, Goto, Forget
<1>5. ASSUME NEW h \in Handlers, RLock(h) PROVE TempInv'
  BY <1>5 DEF RLock, Step, Goto
<1>6. ASSUME NEW h \in Handlers, RLockWaits(h) PROVE TempInv'
  BY <1>6 DEF RLockWaits, Step, Goto
<1>7. ASSUME NEW h \in Handlers, ReadFile(h) PROVE TempInv'
  BY <1>7 DEF ReadFile, Step, Goto, Result, RecordsOf
<1>8. ASSUME NEW h \in Handlers, ReadFileFails(h) PROVE TempInv'
  BY <1>8 DEF ReadFileFails, Step, Goto, Result
<1>9. ASSUME NEW h \in Handlers, ReadReturn(h) PROVE TempInv'
  BY <1>9 DEF ReadReturn, Step, Goto, RUnlock, Forget
<1>10. ASSUME NEW h \in Handlers, Lock(h) PROVE TempInv'
  BY <1>10 DEF Lock, Step, Goto
<1>11. ASSUME NEW h \in Handlers, LockGranted(h) PROVE TempInv'
  BY <1>11 DEF LockGranted, Step, Goto
<1>12. ASSUME NEW h \in Handlers, LoadLocked(h) PROVE TempInv'
  BY <1>12 DEF LoadLocked, Step, Goto, Result, RecordsOf
<1>13. ASSUME NEW h \in Handlers, LoadFails(h) PROVE TempInv'
  BY <1>13 DEF LoadFails, Step, Goto, Result
<1>14. ASSUME NEW h \in Handlers, CreateTemp(h) PROVE TempInv'
  BY <1>14 DEF CreateTemp, Step, Goto
<1>15. ASSUME NEW h \in Handlers, WriteTemp(h) PROVE TempInv'
  BY <1>15 DEF WriteTemp, Step, Goto
<1>16. ASSUME NEW h \in Handlers, SyncTemp(h) PROVE TempInv'
  BY <1>16 DEF SyncTemp, Step, Goto
<1>17. ASSUME NEW h \in Handlers, CloseAndChmod(h) PROVE TempInv'
  BY <1>17 DEF CloseAndChmod, Step, Goto
<1>18. ASSUME NEW h \in Handlers, Rename(h) PROVE TempInv'
  BY <1>18 DEF Rename, Step, Goto, Sealed
<1>19. ASSUME NEW h \in Handlers, SaveFails(h) PROVE TempInv'
  BY <1>19 DEF SaveFails, Goto, Result
<1>20. ASSUME NEW h \in Handlers, Return(h) PROVE TempInv'
  BY <1>20 DEF Return, Unlock, LockInv
<1>21. CASE Crash
  BY <1>21 DEF Crash, Restart
<1>22. CASE PowerLoss
  BY <1>22 DEF PowerLoss, Restart
<1>23. CASE Flush
  BY <1>23 DEF Flush
<1>24. CASE UNCHANGED vars
  BY <1>24 DEF vars
<1> HIDE DEF IInv, TypeOK, TempInv
<1> QED
  BY <1>1, <1>2, <1>3, <1>4, <1>5, <1>6, <1>7, <1>8, <1>9, <1>10, <1>11, <1>12, <1>13, <1>14, <1>15, <1>16, <1>17, <1>18, <1>19, <1>20, <1>21, <1>22, <1>23, <1>24 DEF Next, Handle

\* Every step keeps the file and its durable version whole and without duplicates.
LEMMA FileStep == IInv /\ [Next]_vars => FileInv'
<1> SUFFICES ASSUME IInv, [Next]_vars PROVE FileInv'
  OBVIOUS
<1> USE DEF IInv, TypeOK, FileInv, TempInv, HostnamesUnique, Readable, Whole, Contents, Registries, diskVars, lockVars, callVars, Pcs, ReaderPcs, SavePcs, WriterPcs
<1>1. ASSUME NEW h \in Handlers, Get(h) PROVE FileInv'
  BY <1>1 DEF Get, Step, Goto
<1>2. ASSUME NEW h \in Handlers, Post(h) PROVE FileInv'
  BY <1>2 DEF Post, Step, Goto
<1>3. ASSUME NEW h \in Handlers, PostRefused(h) PROVE FileInv'
  BY <1>3 DEF PostRefused, Step, Goto
<1>4. ASSUME NEW h \in Handlers, RefusalSent(h) PROVE FileInv'
  BY <1>4 DEF RefusalSent, Step, Goto, Forget
<1>5. ASSUME NEW h \in Handlers, RLock(h) PROVE FileInv'
  BY <1>5 DEF RLock, Step, Goto
<1>6. ASSUME NEW h \in Handlers, RLockWaits(h) PROVE FileInv'
  BY <1>6 DEF RLockWaits, Step, Goto
<1>7. ASSUME NEW h \in Handlers, ReadFile(h) PROVE FileInv'
  BY <1>7 DEF ReadFile, Step, Goto, Result, RecordsOf
<1>8. ASSUME NEW h \in Handlers, ReadFileFails(h) PROVE FileInv'
  BY <1>8 DEF ReadFileFails, Step, Goto, Result
<1>9. ASSUME NEW h \in Handlers, ReadReturn(h) PROVE FileInv'
  BY <1>9 DEF ReadReturn, Step, Goto, RUnlock, Forget
<1>10. ASSUME NEW h \in Handlers, Lock(h) PROVE FileInv'
  BY <1>10 DEF Lock, Step, Goto
<1>11. ASSUME NEW h \in Handlers, LockGranted(h) PROVE FileInv'
  BY <1>11 DEF LockGranted, Step, Goto
<1>12. ASSUME NEW h \in Handlers, LoadLocked(h) PROVE FileInv'
  BY <1>12 DEF LoadLocked, Step, Goto, Result, RecordsOf
<1>13. ASSUME NEW h \in Handlers, LoadFails(h) PROVE FileInv'
  BY <1>13 DEF LoadFails, Step, Goto, Result
<1>14. ASSUME NEW h \in Handlers, CreateTemp(h) PROVE FileInv'
  BY <1>14 DEF CreateTemp, Step, Goto
<1>15. ASSUME NEW h \in Handlers, WriteTemp(h) PROVE FileInv'
  BY <1>15 DEF WriteTemp, Step, Goto
<1>16. ASSUME NEW h \in Handlers, SyncTemp(h) PROVE FileInv'
  BY <1>16 DEF SyncTemp, Step, Goto
<1>17. ASSUME NEW h \in Handlers, CloseAndChmod(h) PROVE FileInv'
  BY <1>17 DEF CloseAndChmod, Step, Goto
<1>18. ASSUME NEW h \in Handlers, Rename(h) PROVE FileInv'
  BY <1>18 DEF Rename, Step, Goto, Sealed
<1>19. ASSUME NEW h \in Handlers, SaveFails(h) PROVE FileInv'
  BY <1>19 DEF SaveFails, Goto, Result
<1>20. ASSUME NEW h \in Handlers, Return(h) PROVE FileInv'
  BY <1>20 DEF Return, Unlock, Forget
<1>21. CASE Crash
  BY <1>21 DEF Crash, Restart
<1>22. CASE PowerLoss
  <2>1. file' = durable \/ file' = file
    BY <1>22 DEF PowerLoss
  <2>2. durable' = file'
    BY <1>22 DEF PowerLoss
  <2> QED
    BY <2>1, <2>2
<1>23. CASE Flush
  BY <1>23 DEF Flush
<1>24. CASE UNCHANGED vars
  BY <1>24 DEF vars
<1> HIDE DEF IInv, TypeOK, FileInv, TempInv, HostnamesUnique, Readable, Whole, Contents
<1> QED
  BY <1>1, <1>2, <1>3, <1>4, <1>5, <1>6, <1>7, <1>8, <1>9, <1>10, <1>11, <1>12, <1>13, <1>14, <1>15, <1>16, <1>17, <1>18, <1>19, <1>20, <1>21, <1>22, <1>23, <1>24 DEF Next, Handle

\* The empty registry lists no hostname twice.
LEMMA EmptyUnique == UniqueHosts(<<>>)
BY DEF UniqueHosts

\* Every step keeps hostnames unique in the file, in what a loss of power would bring back and in
\* every handler's registry.
LEMMA UniqueStep ==
    TypeOK /\ HostnamesUnique /\ UniqueHosts(durable.recs) /\ [Next]_vars
      => HostnamesUnique' /\ UniqueHosts(durable'.recs)
<1> DEFINE Goal == HostnamesUnique' /\ UniqueHosts(durable'.recs)
<1> SUFFICES ASSUME TypeOK, HostnamesUnique, UniqueHosts(durable.recs), [Next]_vars
             PROVE  Goal
  OBVIOUS
<1> USE DEF TypeOK, HostnamesUnique, Contents, Registries, diskVars, lockVars, callVars, Pcs, ReaderPcs, SavePcs, WriterPcs
<1>1. ASSUME NEW h \in Handlers, Get(h) PROVE Goal
  BY <1>1 DEF Get, Step, Goto
<1>2. ASSUME NEW h \in Handlers, Post(h) PROVE Goal
  BY <1>2 DEF Post, Step, Goto
<1>3. ASSUME NEW h \in Handlers, PostRefused(h) PROVE Goal
  BY <1>3 DEF PostRefused, Step, Goto
<1>4. ASSUME NEW h \in Handlers, RefusalSent(h) PROVE Goal
  BY <1>4, EmptyUnique DEF RefusalSent, Step, Goto, Forget
<1>5. ASSUME NEW h \in Handlers, RLock(h) PROVE Goal
  BY <1>5 DEF RLock, Step, Goto
<1>6. ASSUME NEW h \in Handlers, RLockWaits(h) PROVE Goal
  BY <1>6 DEF RLockWaits, Step, Goto
<1>7. ASSUME NEW h \in Handlers, ReadFile(h) PROVE Goal
  BY <1>7 DEF ReadFile, Step, Goto, Result, RecordsOf
<1>8. ASSUME NEW h \in Handlers, ReadFileFails(h) PROVE Goal
  BY <1>8, EmptyUnique DEF ReadFileFails, Step, Goto, Result
<1>9. ASSUME NEW h \in Handlers, ReadReturn(h) PROVE Goal
  BY <1>9, EmptyUnique DEF ReadReturn, Step, Goto, RUnlock, Forget
<1>10. ASSUME NEW h \in Handlers, Lock(h) PROVE Goal
  BY <1>10 DEF Lock, Step, Goto
<1>11. ASSUME NEW h \in Handlers, LockGranted(h) PROVE Goal
  BY <1>11 DEF LockGranted, Step, Goto
<1>12. ASSUME NEW h \in Handlers, LoadLocked(h) PROVE Goal
  <2> DEFINE s == Upsert(file.recs, cand[h])
  <2>1. UniqueHosts(s)
    BY UpsertStable
  <2>2. recs' = [recs EXCEPT ![h] = s] /\ file' = file /\ durable' = durable
    BY <1>12 DEF LoadLocked, Result, RecordsOf
  <2> HIDE DEF s
  <2> QED
    BY <2>1, <2>2
<1>13. ASSUME NEW h \in Handlers, LoadFails(h) PROVE Goal
  BY <1>13, EmptyUnique DEF LoadFails, Step, Goto, Result
<1>14. ASSUME NEW h \in Handlers, CreateTemp(h) PROVE Goal
  BY <1>14 DEF CreateTemp, Step, Goto
<1>15. ASSUME NEW h \in Handlers, WriteTemp(h) PROVE Goal
  BY <1>15 DEF WriteTemp, Step, Goto
<1>16. ASSUME NEW h \in Handlers, SyncTemp(h) PROVE Goal
  BY <1>16 DEF SyncTemp, Step, Goto
<1>17. ASSUME NEW h \in Handlers, CloseAndChmod(h) PROVE Goal
  BY <1>17 DEF CloseAndChmod, Step, Goto
<1>18. ASSUME NEW h \in Handlers, Rename(h) PROVE Goal
  BY <1>18 DEF Rename, Step, Goto, Sealed
<1>19. ASSUME NEW h \in Handlers, SaveFails(h) PROVE Goal
  BY <1>19, EmptyUnique DEF SaveFails, Goto, Result
<1>20. ASSUME NEW h \in Handlers, Return(h) PROVE Goal
  BY <1>20, EmptyUnique DEF Return, Unlock, Forget
<1>21. CASE Crash
  BY <1>21, EmptyUnique DEF Crash, Restart
<1>22. CASE PowerLoss
  <2>1. file' \in {durable, file, Torn, Empty} /\ durable' = file'
    BY <1>22 DEF PowerLoss
  <2>2. recs' = [h \in Handlers |-> <<>>]
    BY <1>22 DEF PowerLoss, Restart
  <2> QED
    BY <2>1, <2>2, EmptyUnique DEF Torn, Empty
<1>23. CASE Flush
  BY <1>23 DEF Flush
<1>24. CASE UNCHANGED vars
  BY <1>24 DEF vars
<1> HIDE DEF TypeOK, HostnamesUnique, Contents, Goal
<1> QED
  BY <1>1, <1>2, <1>3, <1>4, <1>5, <1>6, <1>7, <1>8, <1>9, <1>10, <1>11, <1>12, <1>13, <1>14, <1>15, <1>16, <1>17, <1>18, <1>19, <1>20, <1>21, <1>22, <1>23, <1>24 DEF Next, Handle

\* One handler at most, the writer, has a temporary file.
LEMMA OneTemp ==
    ASSUME IInv, NEW g \in Handlers, NEW h \in Handlers, temp[g] # "none", temp[h] # "none"
    PROVE  g = h
BY DEF IInv, TempInv, LockInv, SavePcs, WriterPcs

\* No other handler has one while a writer is inside saveLocked.
LEMMA TempOfWriter ==
    ASSUME IInv, NEW g \in Handlers, NEW h \in Handlers, temp[g] # "none", pc[h] \in SavePcs
    PROVE  g = h
BY DEF IInv, TempInv, LockInv, SavePcs, WriterPcs

\* At a restart at most one handler, the writer, owns a temporary file.
LEMMA RestartOrphans == IInv /\ Restart => OneOrphanPerFault'
<1> SUFFICES ASSUME IInv, Restart PROVE OneOrphanPerFault'
  OBVIOUS
<1> USE DEF IInv, TypeOK, OneOrphanPerFault
<1> DEFINE New == {<<h, "crash", crashes>> : h \in {g \in Handlers : temp[g] # "none"}}
<1>1. \A o, p \in New : o = p
  BY OneTemp
<1>2. \A o \in New : o[2] = "crash" /\ o[3] = crashes
  OBVIOUS
<1>3. orphans' = orphans \union New /\ crashes' = crashes + 1 /\ stuck' = stuck
  BY DEF Restart
<1>4. \A o \in orphans : o[3] \in Nat /\ o[3] < (IF o[2] = "crash" THEN crashes ELSE stuck)
  OBVIOUS
<1>5. \A h \in Handlers : temp'[h] = "none"
  BY DEF Restart
<1>6. crashes \in Nat /\ stuck \in Nat /\ \A o, p \in orphans : o[2] = p[2] /\ o[3] = p[3] => o = p
  OBVIOUS
<1> HIDE DEF New
<1>7. \A o \in orphans' : o[3] < (IF o[2] = "crash" THEN crashes' ELSE stuck')
  BY <1>2, <1>3, <1>4, <1>6
<1>8. \A o, p \in orphans' : o[2] = p[2] /\ o[3] = p[3] => o = p
  BY <1>1, <1>2, <1>3, <1>4, <1>6
<1> QED
  BY <1>5, <1>7, <1>8

\* A save that fails leaves its temporary file only where it cannot be removed.
LEMMA SaveFailsOrphans ==
    ASSUME IInv, NEW h \in Handlers, SaveFails(h) PROVE OneOrphanPerFault'
<1> USE DEF IInv, TypeOK, OneOrphanPerFault
<1>1. /\ \A g \in Handlers : g # h => temp'[g] = temp[g] /\ pc'[g] = pc[g]
      /\ temp'[h] = "none" /\ crashes' = crashes
  BY DEF SaveFails, Goto
<1>2. \A g \in Handlers : temp'[g] # "none" =>
        pc'[g] \in SavePcs /\ \A f \in Handlers : temp'[f] # "none" => f = g
  BY <1>1
<1>3. CASE UNCHANGED <<orphans, stuck>>
  BY <1>1, <1>2, <1>3
<1>4. CASE RemoveFails(h)
  <2>1. /\ orphans' = orphans \union {<<h, "remove", stuck>>}
        /\ stuck' = stuck + 1 /\ stuck \in Nat /\ crashes \in Nat
    BY <1>4 DEF RemoveFails
  <2>2. \A o \in orphans : o[3] \in Nat /\ o[3] < (IF o[2] = "crash" THEN crashes ELSE stuck)
    OBVIOUS
  <2>3. \A o \in orphans' : o[3] < (IF o[2] = "crash" THEN crashes' ELSE stuck')
    BY <1>1, <2>1, <2>2
  <2>4. \A o, p \in orphans' : o[2] = p[2] /\ o[3] = p[3] => o = p
    BY <2>1, <2>2
  <2> QED
    BY <1>2, <2>3, <2>4
<1> QED
  BY <1>3, <1>4 DEF SaveFails

\* Every step leaves at most one temporary file per fault behind.
LEMMA OrphanStep == IInv /\ [Next]_vars => OneOrphanPerFault'
<1> SUFFICES ASSUME IInv, [Next]_vars PROVE OneOrphanPerFault'
  OBVIOUS
<1> USE DEF IInv, TypeOK, OneOrphanPerFault, Registries, diskVars, lockVars, callVars, Pcs, ReaderPcs, SavePcs, WriterPcs
<1>1. ASSUME NEW h \in Handlers, Get(h) PROVE OneOrphanPerFault'
  BY <1>1 DEF Get, Step, Goto
<1>2. ASSUME NEW h \in Handlers, Post(h) PROVE OneOrphanPerFault'
  BY <1>2 DEF Post, Step, Goto
<1>3. ASSUME NEW h \in Handlers, PostRefused(h) PROVE OneOrphanPerFault'
  BY <1>3 DEF PostRefused, Step, Goto
<1>4. ASSUME NEW h \in Handlers, RefusalSent(h) PROVE OneOrphanPerFault'
  BY <1>4 DEF RefusalSent, Step, Goto, Forget
<1>5. ASSUME NEW h \in Handlers, RLock(h) PROVE OneOrphanPerFault'
  BY <1>5 DEF RLock, Step, Goto
<1>6. ASSUME NEW h \in Handlers, RLockWaits(h) PROVE OneOrphanPerFault'
  BY <1>6 DEF RLockWaits, Step, Goto
<1>7. ASSUME NEW h \in Handlers, ReadFile(h) PROVE OneOrphanPerFault'
  BY <1>7 DEF ReadFile, Step, Goto, Result, RecordsOf
<1>8. ASSUME NEW h \in Handlers, ReadFileFails(h) PROVE OneOrphanPerFault'
  BY <1>8 DEF ReadFileFails, Step, Goto, Result
<1>9. ASSUME NEW h \in Handlers, ReadReturn(h) PROVE OneOrphanPerFault'
  BY <1>9 DEF ReadReturn, Step, Goto, RUnlock, Forget
<1>10. ASSUME NEW h \in Handlers, Lock(h) PROVE OneOrphanPerFault'
  BY <1>10 DEF Lock, Step, Goto
<1>11. ASSUME NEW h \in Handlers, LockGranted(h) PROVE OneOrphanPerFault'
  BY <1>11 DEF LockGranted, Step, Goto
<1>12. ASSUME NEW h \in Handlers, LoadLocked(h) PROVE OneOrphanPerFault'
  BY <1>12 DEF LoadLocked, Step, Goto, Result, RecordsOf
<1>13. ASSUME NEW h \in Handlers, LoadFails(h) PROVE OneOrphanPerFault'
  BY <1>13 DEF LoadFails, Step, Goto, Result
<1>14. ASSUME NEW h \in Handlers, CreateTemp(h) PROVE OneOrphanPerFault'
  BY <1>14, TempOfWriter DEF CreateTemp, Step, Goto
<1>15. ASSUME NEW h \in Handlers, WriteTemp(h) PROVE OneOrphanPerFault'
  BY <1>15, TempOfWriter DEF WriteTemp, Step, Goto
<1>16. ASSUME NEW h \in Handlers, SyncTemp(h) PROVE OneOrphanPerFault'
  BY <1>16, TempOfWriter DEF SyncTemp, Step, Goto
<1>17. ASSUME NEW h \in Handlers, CloseAndChmod(h) PROVE OneOrphanPerFault'
  BY <1>17 DEF CloseAndChmod, Step, Goto
<1>18. ASSUME NEW h \in Handlers, Rename(h) PROVE OneOrphanPerFault'
  BY <1>18 DEF Rename, Step, Goto, Sealed
<1>19. ASSUME NEW h \in Handlers, SaveFails(h) PROVE OneOrphanPerFault'
  BY <1>19, SaveFailsOrphans
<1>20. ASSUME NEW h \in Handlers, Return(h) PROVE OneOrphanPerFault'
  <2>1. \A g \in Handlers : temp[g] # "none" => pc'[g] = pc[g] \/ g = h
    BY <1>20 DEF Return, Unlock, TempInv, LockInv
  <2>2. temp[h] = "none" /\ UNCHANGED diskVars
    BY <1>20 DEF Return
  <2> QED
    BY <2>1, <2>2
<1>21. CASE Crash
  BY <1>21, RestartOrphans DEF Crash
<1>22. CASE PowerLoss
  BY <1>22, RestartOrphans DEF PowerLoss
<1>23. CASE Flush
  BY <1>23 DEF Flush
<1>24. CASE UNCHANGED vars
  BY <1>24 DEF vars
<1> HIDE DEF IInv, TypeOK, OneOrphanPerFault
<1> QED
  BY <1>1, <1>2, <1>3, <1>4, <1>5, <1>6, <1>7, <1>8, <1>9, <1>10, <1>11, <1>12, <1>13, <1>14, <1>15, <1>16, <1>17, <1>18, <1>19, <1>20, <1>21, <1>22, <1>23, <1>24 DEF Next, Handle

\* Every step keeps what a writer is about to save consistent with the file.
LEMMA CallStep == IInv /\ [Next]_vars => CallInv'
<1> SUFFICES ASSUME IInv, [Next]_vars PROVE CallInv'
  OBVIOUS
<1> USE DEF IInv, TypeOK, LockInv, CallInv, Registries, diskVars, lockVars, callVars, Pcs, ReaderPcs, SavePcs, WriterPcs
<1>1. ASSUME NEW h \in Handlers, Get(h) PROVE CallInv'
  BY <1>1 DEF Get, Step, Goto
<1>2. ASSUME NEW h \in Handlers, Post(h) PROVE CallInv'
  BY <1>2 DEF Post, Step, Goto
<1>3. ASSUME NEW h \in Handlers, PostRefused(h) PROVE CallInv'
  BY <1>3 DEF PostRefused, Step, Goto
<1>4. ASSUME NEW h \in Handlers, RefusalSent(h) PROVE CallInv'
  BY <1>4 DEF RefusalSent, Step, Goto, Forget
<1>5. ASSUME NEW h \in Handlers, RLock(h) PROVE CallInv'
  BY <1>5 DEF RLock, Step, Goto
<1>6. ASSUME NEW h \in Handlers, RLockWaits(h) PROVE CallInv'
  BY <1>6 DEF RLockWaits, Step, Goto
<1>7. ASSUME NEW h \in Handlers, ReadFile(h) PROVE CallInv'
  BY <1>7 DEF ReadFile, Step, Goto, Result, RecordsOf
<1>8. ASSUME NEW h \in Handlers, ReadFileFails(h) PROVE CallInv'
  BY <1>8 DEF ReadFileFails, Step, Goto, Result
<1>9. ASSUME NEW h \in Handlers, ReadReturn(h) PROVE CallInv'
  BY <1>9 DEF ReadReturn, Step, Goto, RUnlock, Forget
<1>10. ASSUME NEW h \in Handlers, Lock(h) PROVE CallInv'
  BY <1>10 DEF Lock, Step, Goto
<1>11. ASSUME NEW h \in Handlers, LockGranted(h) PROVE CallInv'
  BY <1>11 DEF LockGranted, Step, Goto
<1>12. ASSUME NEW h \in Handlers, LoadLocked(h) PROVE CallInv'
  BY <1>12 DEF LoadLocked, Step, Goto, Result, RecordsOf
<1>13. ASSUME NEW h \in Handlers, LoadFails(h) PROVE CallInv'
  BY <1>13 DEF LoadFails, Step, Goto, Result
<1>14. ASSUME NEW h \in Handlers, CreateTemp(h) PROVE CallInv'
  BY <1>14 DEF CreateTemp, Step, Goto
<1>15. ASSUME NEW h \in Handlers, WriteTemp(h) PROVE CallInv'
  BY <1>15 DEF WriteTemp, Step, Goto
<1>16. ASSUME NEW h \in Handlers, SyncTemp(h) PROVE CallInv'
  BY <1>16 DEF SyncTemp, Step, Goto
<1>17. ASSUME NEW h \in Handlers, CloseAndChmod(h) PROVE CallInv'
  BY <1>17 DEF CloseAndChmod, Step, Goto
<1>18. ASSUME NEW h \in Handlers, Rename(h) PROVE CallInv'
  BY <1>18 DEF Rename, Step, Goto, Sealed
<1>19. ASSUME NEW h \in Handlers, SaveFails(h) PROVE CallInv'
  BY <1>19 DEF SaveFails, Goto, Result
<1>20. ASSUME NEW h \in Handlers, Return(h) PROVE CallInv'
  BY <1>20 DEF Return, Unlock, Forget
<1>21. CASE Crash
  BY <1>21 DEF Crash, Restart
<1>22. CASE PowerLoss
  BY <1>22 DEF PowerLoss, Restart
<1>23. CASE Flush
  BY <1>23 DEF Flush
<1>24. CASE UNCHANGED vars
  BY <1>24 DEF vars
<1> HIDE DEF IInv, TypeOK, LockInv, CallInv
<1> QED
  BY <1>1, <1>2, <1>3, <1>4, <1>5, <1>6, <1>7, <1>8, <1>9, <1>10, <1>11, <1>12, <1>13, <1>14, <1>15, <1>16, <1>17, <1>18, <1>19, <1>20, <1>21, <1>22, <1>23, <1>24 DEF Next, Handle

\* The initial states satisfy the inductive invariant.
LEMMA InitInv == Init => IInv
<1> SUFFICES ASSUME Init PROVE IInv
  OBVIOUS
<1> USE DEF Init, NoFile, Sealed
<1>1. TypeOK
  <2>1. NoFile \in Contents /\ Sealed(Seed, TRUE) \in Contents
    BY SeedAssumption DEF Contents, Registries
  <2>2. recs \in [Handlers -> Registries]
    BY DEF Registries
  <2> QED
    BY <2>1, <2>2, AnyRecordType DEF TypeOK, Pcs
<1>2. LockInv
  BY HandlersAssumption DEF LockInv, WriterPcs, SavePcs
<1>3. TempInv /\ OneOrphanPerFault
  BY DEF TempInv, OneOrphanPerFault
<1>4. CallInv
  BY DEF CallInv, ReaderPcs, WriterPcs, SavePcs
<1>5. FileInv /\ HostnamesUnique
  BY SeedAssumption, EmptyUnique DEF FileInv, HostnamesUnique, Readable, Whole
<1> QED
  BY <1>1, <1>2, <1>3, <1>4, <1>5 DEF IInv

\* The inductive invariant holds in every reachable state of the service.
THEOREM Inductive == Spec => []IInv
<1>1. IInv /\ [Next]_vars => IInv'
  BY TypeStep, LockStep, TempStep, FileStep, UniqueStep, OrphanStep, CallStep
     DEF IInv, FileInv
<1> QED
  BY InitInv, <1>1, PTL DEF Spec

\* Every variable of the service keeps its type.
THEOREM TypeCorrect == Spec => []TypeOK
<1>1. IInv => TypeOK
  BY DEF IInv
<1> QED
  BY Inductive, <1>1, PTL

\* saveLocked: no interleaving, crash or loss of power leaves a half-written
\* datastore at the path.
THEOREM NoTornDatastore == Spec => []NeverHalfWritten
<1>1. IInv => NeverHalfWritten
  BY DEF IInv, FileInv, NeverHalfWritten
<1> QED
  BY Inductive, <1>1, PTL

\* Upsert under the lock: no interleaving of POSTs lists a hostname twice.
THEOREM NoDuplicateHosts == Spec => []HostnamesUnique
<1>1. IInv => HostnamesUnique
  BY DEF IInv
<1> QED
  BY Inductive, <1>1, PTL

\* saveLocked's clean-up: one leftover temporary file per restart at most.
THEOREM OrphansBounded == Spec => []OneOrphanPerFault
<1>1. IInv => OneOrphanPerFault
  BY DEF IInv
<1> QED
  BY Inductive, <1>1, PTL

\* The action of OneRecordAtATime.
OneRecordStep ==
    crashes' = crashes /\ file' # file =>
      /\ Len(file.recs) <= Len(file'.recs)
      /\ \E r \in Record : file'.recs = Upsert(file.recs, r)
      /\ \A i \in DOMAIN file.recs : file'.recs[i].hostname = file.recs[i].hostname

\* While the service lives, the datastore changes by one Upsert at a time: no
\* update of one handler overwrites another's.
THEOREM UpdatesNeverLost == Spec => OneRecordAtATime
<1>1. IInv /\ [Next]_vars => [OneRecordStep]_vars
  <2> SUFFICES ASSUME IInv, Next, crashes' = crashes, file' # file
               PROVE  OneRecordStep
    BY DEF OneRecordStep
  <2>1. PICK h \in Handlers : Rename(h)
    <3>1. ASSUME NEW h \in Handlers, Get(h) \/ Post(h) \/ PostRefused(h) \/ Lock(h)
          PROVE  FALSE
      BY <3>1 DEF Get, Post, PostRefused, Lock, diskVars
    <3>2. ASSUME NEW h \in Handlers, Handle(h), ~Rename(h)
          PROVE  FALSE
      BY <3>2 DEF Handle, RefusalSent, RLock, RLockWaits, ReadFile, ReadFileFails, ReadReturn,
                  LockGranted, LoadLocked, LoadFails, CreateTemp, WriteTemp, SyncTemp,
                  CloseAndChmod, SaveFails, Return, diskVars
    <3>3. ~Crash /\ ~PowerLoss
      BY DEF Crash, PowerLoss, Restart, IInv, TypeOK
    <3>4. ~Flush
      BY DEF Flush
    <3> QED
      BY <3>1, <3>2, <3>3, <3>4 DEF Next
  <2>2. file'.recs = Upsert(file.recs, cand[h]) /\ cand[h] \in Record
    BY <2>1 DEF Rename, Step, Sealed, IInv, CallInv, TypeOK, SavePcs
  <2>3. file.recs \in Seq(Record) /\ UniqueHosts(file.recs)
    BY DEF IInv, TypeOK, Contents, Registries, FileInv
  <2> QED
    BY <2>2, <2>3, UpsertStable DEF OneRecordStep
<1>2. []IInv /\ [][Next]_vars => [][OneRecordStep]_vars
  BY <1>1, PTL
<1>3. [][OneRecordStep]_vars => OneRecordAtATime
  BY DEF OneRecordStep, OneRecordAtATime
<1> QED
  BY Inductive, <1>2, <1>3, PTL DEF Spec

\* Inside the instance, records and Upsert are the same.
LEMMA SameUpsert ==
    /\ Registry!Record = Record /\ Registry!AnyRecord = AnyRecord
    /\ \A s, r : Registry!Upsert(s, r) = Upsert(s, r)
BY DEF Registry!Record, Record, Registry!AnyRecord, AnyRecord, Registry!Upsert, Upsert,
       Registry!Positions, Positions

\* Initial states of the service are initial states of the registry.
LEMMA RegistryInit == Init => Registry!RInit
BY SameUpsert DEF Init, Registry!RInit, NoFile, Sealed, RecordsOf, PhaseOf, ReplyOf, SavePcs

\* The mapped phases and replies, as functions.
Phases == [g \in Handlers |-> PhaseOf(pc[g])]
Replies == [g \in Handlers |-> ReplyOf(g)]

\* A handler that moves changes its own phase only.
LEMMA PhaseGoto ==
    ASSUME TypeOK, NEW h \in Handlers, NEW x, Goto(h, x)
    PROVE  Phases' = [Phases EXCEPT ![h] = PhaseOf(x)]
BY DEF Phases, Goto, TypeOK

\* What the handler's own locals become decides its reply; others keep theirs.
LEMMA ReplyGoto ==
    ASSUME TypeOK, NEW h \in Handlers, NEW x, Goto(h, x), NEW s,
           recs' = [recs EXCEPT ![h] = s]
    PROVE  Replies' = [Replies EXCEPT ![h] = IF x \in SavePcs THEN <<>> ELSE s]
BY DEF Replies, ReplyOf, Goto, TypeOK

\* Steps inside a request that the registry does not see.
LEMMA StutterSteps ==
    ASSUME IInv, NEW h \in Handlers,
           \/ RLock(h) \/ RLockWaits(h) \/ Lock(h) \/ LockGranted(h) \/ LoadLocked(h)
           \/ CreateTemp(h) \/ WriteTemp(h) \/ SyncTemp(h) \/ CloseAndChmod(h)
    PROVE  UNCHANGED <<file, durable, op, cand, status, Phases, Replies>>
<1> USE DEF IInv, TypeOK, diskVars, lockVars, callVars, Step, Goto, PhaseOf, Phases
<1>1. UNCHANGED <<file, durable, op, cand>>
  BY DEF RLock, RLockWaits, Lock, LockGranted, LoadLocked, CreateTemp, WriteTemp, SyncTemp,
         CloseAndChmod, Result
<1>2. UNCHANGED status
  BY DEF RLock, RLockWaits, Lock, LockGranted, LoadLocked, CreateTemp, WriteTemp, SyncTemp,
         CloseAndChmod, Result, CallInv
<1>3. UNCHANGED Phases
  BY DEF RLock, RLockWaits, Lock, LockGranted, LoadLocked, CreateTemp, WriteTemp, SyncTemp,
         CloseAndChmod
<1>4. UNCHANGED Replies
  BY DEF RLock, RLockWaits, Lock, LockGranted, LoadLocked, CreateTemp, WriteTemp, SyncTemp,
         CloseAndChmod, Result, Replies, ReplyOf, CallInv, SavePcs
<1> QED
  BY <1>1, <1>2, <1>3, <1>4

\* Every step of the service is a step of the registry or leaves it unchanged:
\* an upsert happens at the rename, a read at ReadFile.
LEMMA RegistryStep == IInv /\ [Next]_vars => [Registry!RNext]_(Registry!rvars)
<1> SUFFICES ASSUME IInv, [Next]_vars PROVE [Registry!RNext]_(Registry!rvars)
  OBVIOUS
<1> USE DEF diskVars, lockVars, callVars, RecordsOf
<1>1. ASSUME NEW h \in Handlers, Get(h) \/ Post(h) PROVE Registry!RInvoke(h)
  <2>1. Phases[h] = "idle" /\ Phases' = [Phases EXCEPT ![h] = "pending"]
    BY <1>1, PhaseGoto DEF Get, Post, Step, Goto, PhaseOf, Phases, IInv
  <2>2. UNCHANGED Replies
    BY <1>1 DEF Get, Post, Step, Goto, Replies, ReplyOf, SavePcs, IInv, TypeOK
  <2>3. \E m \in {"GET", "RAW", "POST"}, r \in Record :
          op' = [op EXCEPT ![h] = m] /\ cand' = [cand EXCEPT ![h] = r]
    <3>1. CASE Get(h)
      <4>1. cand[h] \in Record /\ cand' = [cand EXCEPT ![h] = cand[h]]
        BY <3>1 DEF Get, IInv, TypeOK
      <4> QED
        BY <3>1, <4>1 DEF Get
    <3>2. CASE Post(h)
      BY <3>2 DEF Post
    <3> QED
      BY <1>1, <3>1, <3>2
  <2>4. UNCHANGED <<file, durable, status>>
    BY <1>1 DEF Get, Post
  <2> QED
    BY <2>1, <2>2, <2>3, <2>4, SameUpsert DEF Registry!RInvoke, Phases, Replies
<1>2. ASSUME NEW h \in Handlers, PostRefused(h) PROVE Registry!RReject(h)
  <2>1. Phases[h] = "idle" /\ Phases' = [Phases EXCEPT ![h] = "done"]
    BY <1>2, PhaseGoto DEF PostRefused, Step, Goto, PhaseOf, Phases, IInv
  <2>2. UNCHANGED Replies
    BY <1>2 DEF PostRefused, Step, Goto, Replies, ReplyOf, SavePcs, IInv, TypeOK
  <2> QED
    BY <1>2, <2>1, <2>2 DEF PostRefused, Registry!RReject, Phases, Replies
<1>3. ASSUME NEW h \in Handlers, ReadFile(h) PROVE Registry!RRead(h)
  <2>1. Phases[h] = "pending" /\ Phases' = [Phases EXCEPT ![h] = "done"]
    BY <1>3, PhaseGoto DEF ReadFile, Step, Goto, PhaseOf, Phases, IInv
  <2>2. Replies' = [Replies EXCEPT ![h] = file.recs]
    <3>1. recs' = [recs EXCEPT ![h] = file.recs] /\ Goto(h, "rreturn") /\ TypeOK
      BY <1>3 DEF ReadFile, Step, Result, IInv
    <3>2. Replies' = [Replies EXCEPT ![h] = IF "rreturn" \in SavePcs THEN <<>> ELSE file.recs]
      BY <3>1, ReplyGoto
    <3> QED
      BY <3>2 DEF SavePcs
  <2>3. op[h] # "POST"
    BY <1>3 DEF ReadFile, Step, IInv, CallInv, ReaderPcs
  <2> QED
    BY <1>3, <2>1, <2>2, <2>3
    DEF ReadFile, Result, Registry!RRead, Registry!Answer, Phases, Replies
<1>4. ASSUME NEW h \in Handlers, ReadFileFails(h) \/ LoadFails(h) \/ SaveFails(h)
      PROVE  Registry!RFail(h)
  <2>1. PICK x \in {"return", "rreturn"} : Goto(h, x)
    BY <1>4 DEF ReadFileFails, LoadFails, SaveFails, Step
  <2>2. Phases[h] = "pending"
    BY <1>4 DEF ReadFileFails, LoadFails, SaveFails, Step, Phases, PhaseOf, SavePcs
  <2>3. Phases' = [Phases EXCEPT ![h] = "done"]
    BY <2>1, PhaseGoto DEF PhaseOf, IInv
  <2>4. Result(h, 500, <<>>) /\ UNCHANGED <<file, durable>>
    BY <1>4 DEF ReadFileFails, LoadFails, SaveFails
  <2>5. Replies' = [Replies EXCEPT ![h] = <<>>]
    BY <2>1, <2>4, ReplyGoto DEF Result, SavePcs, IInv
  <2> QED
    BY <2>2, <2>3, <2>4, <2>5 DEF Result, Registry!RFail, Registry!Answer, Phases, Replies
<1>5. ASSUME NEW h \in Handlers, Rename(h) PROVE Registry!RUpsert(h)
  <2>1. Phases[h] = "pending" /\ Phases' = [Phases EXCEPT ![h] = "done"]
    BY <1>5, PhaseGoto DEF Rename, Step, Goto, PhaseOf, Phases, IInv
  <2>2. /\ op[h] = "POST" /\ status[h] = 200
        /\ recs[h] = Upsert(file.recs, cand[h])
    BY <1>5 DEF Rename, Step, IInv, CallInv, WriterPcs, SavePcs
  <2>3. status' = [status EXCEPT ![h] = 200] /\ UNCHANGED <<op, cand, durable>>
    BY <1>5, <2>2 DEF Rename, IInv, TypeOK
  <2>4. file'.recs = Upsert(file.recs, cand[h])
    BY <1>5, <2>2 DEF Rename, Sealed
  <2>5. Replies' = [Replies EXCEPT ![h] = Upsert(file.recs, cand[h])]
    <3>1. recs' = [recs EXCEPT ![h] = recs[h]]
      BY <1>5 DEF Rename, IInv, TypeOK
    <3>2. Goto(h, "return") /\ TypeOK
      BY <1>5 DEF Rename, Step, IInv
    <3>3. Replies' = [Replies EXCEPT ![h] = IF "return" \in SavePcs THEN <<>> ELSE recs[h]]
      BY <3>1, <3>2, ReplyGoto
    <3> QED
      BY <3>3, <2>2 DEF SavePcs
  <2> QED
    BY <2>1, <2>2, <2>3, <2>4, <2>5, SameUpsert
    DEF Registry!RUpsert, Registry!Answer, Phases, Replies
<1>6. ASSUME NEW h \in Handlers, RefusalSent(h) \/ ReadReturn(h) \/ Return(h)
      PROVE  Registry!RReturn(h)
  <2>1. Phases[h] = "done"
    BY <1>6 DEF RefusalSent, ReadReturn, Return, Step, Phases, PhaseOf
  <2>2. /\ Phases' = [Phases EXCEPT ![h] = "idle"]
        /\ Replies' = [Replies EXCEPT ![h] = <<>>]
    <3>1. CASE RefusalSent(h) \/ ReadReturn(h)
      BY <3>1, PhaseGoto, ReplyGoto
      DEF RefusalSent, ReadReturn, Step, Forget, PhaseOf, SavePcs, IInv
    <3>2. CASE Return(h)
      <4>1. /\ pc' = [g \in Handlers |->
                        IF g = h THEN "idle" ELSE IF g \in blocked THEN "read" ELSE pc[g]]
            /\ recs' = [recs EXCEPT ![h] = <<>>]
        BY <3>2 DEF Return, Unlock, Forget
      <4>2. \A g \in blocked : g \in Handlers /\ pc[g] = "rblocked" /\ recs[g] = <<>>
        BY DEF IInv, TypeOK, LockInv, CallInv, SavePcs
      <4>3. Phases' = [Phases EXCEPT ![h] = "idle"]
        BY <4>1, <4>2 DEF Phases, PhaseOf
      <4>4. Replies' = [Replies EXCEPT ![h] = <<>>]
        <5>1. ReplyOf(h)' = <<>>
          BY <4>1 DEF ReplyOf, IInv, TypeOK
        <5>2. ASSUME NEW g \in Handlers, g # h PROVE ReplyOf(g)' = ReplyOf(g)
          BY <5>2, <4>1, <4>2 DEF ReplyOf, SavePcs, IInv, TypeOK
        <5> QED
          BY <5>1, <5>2 DEF Replies
      <4> QED
        BY <4>3, <4>4
    <3> QED
      BY <1>6, <3>1, <3>2
  <2>3. Forget(h) /\ UNCHANGED <<file, durable>>
    BY <1>6 DEF RefusalSent, ReadReturn, Return
  <2> QED
    BY <2>1, <2>2, <2>3, SameUpsert DEF Forget, Registry!RReturn, Phases, Replies
<1>7. ASSUME Restart PROVE Registry!Drop
  BY <1>7, SameUpsert DEF Restart, Registry!Drop, PhaseOf, ReplyOf, SavePcs
<1>8. CASE Crash
  BY <1>7, <1>8 DEF Crash, Registry!RNext, Registry!RCrash
<1>9. CASE PowerLoss
  <2>1. file' \in {durable, file} /\ durable' = file'
    BY <1>9 DEF PowerLoss, IInv, FileInv
  <2> QED
    BY <1>7, <1>9, <2>1 DEF PowerLoss, Registry!RNext, Registry!RPowerLoss
<1>10. CASE Flush
  <2>1. UNCHANGED <<Phases, Replies, op, cand, status, file>> /\ durable' = file
    BY <1>10 DEF Flush, Phases, Replies, ReplyOf
  <2> QED
    BY <2>1 DEF Registry!RNext, Registry!RFlush, Phases, Replies
<1>11. CASE UNCHANGED vars
  BY <1>11 DEF vars, Registry!rvars, ReplyOf
<1>12. ASSUME NEW h \in Handlers,
              \/ RLock(h) \/ RLockWaits(h) \/ Lock(h) \/ LockGranted(h) \/ LoadLocked(h)
              \/ CreateTemp(h) \/ WriteTemp(h) \/ SyncTemp(h) \/ CloseAndChmod(h)
       PROVE  UNCHANGED Registry!rvars
  BY <1>12, StutterSteps DEF Registry!rvars, Phases, Replies
<1> QED
  BY <1>1, <1>2, <1>3, <1>4, <1>5, <1>6, <1>8, <1>9, <1>10, <1>11, <1>12
  DEF Next, Handle, Registry!RNext

\* The file-backed, lock-guarded service implements the atomic registry.
THEOREM ServiceImplementsRegistry == Spec => ImplementsRegistry
BY RegistryInit, RegistryStep, Inductive, PTL DEF Spec, ImplementsRegistry, Registry!RSpec
================================================================================
