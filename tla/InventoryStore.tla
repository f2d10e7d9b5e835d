---------------------------- MODULE InventoryStore ----------------------------
(***************************************************************************)
(* The Go inventory service: HTTP handler goroutines over one encrypted    *)
(* datastore file, guarded by a sync.RWMutex, replaced through a temporary *)
(* file and rename.  One action per step a handler takes between points    *)
(* where another handler, a crash of the process or a loss of power can    *)
(* intervene.                                                              *)
(*                                                                         *)
(* A datastore is described by what a reader makes of it: `missing', a     *)
(* `sealed' registry, a zero-length file (`empty'), a `torn' blob that     *)
(* AES-GCM refuses, or, where some other program writes to the path, a     *)
(* `private' file the service's user may not open.  `synced' says whether  *)
(* its bytes are on the disk, which only a loss of power can tell.         *)
(***************************************************************************)
EXTENDS InventoryRecords

CONSTANTS
    Handlers,       \* handler goroutines
    NoOne,          \* nobody holds the writer's side of the mutex
    MaxCrashes,     \* bound: crashes and power losses in one behaviour
    MaxStuck        \* bound: temporary files that os.Remove cannot remove

ASSUME HandlersAssumption == NoOne \notin Handlers
ASSUME MaxCrashesAssumption == MaxCrashes \in Nat
ASSUME MaxStuckAssumption == MaxStuck \in Nat

Registries == Seq(Record)

NoFile == [kind |-> "missing", recs |-> <<>>, synced |-> TRUE]
Torn == [kind |-> "torn", recs |-> <<>>, synced |-> TRUE]
Empty == [kind |-> "empty", recs |-> <<>>, synced |-> TRUE]
Sealed(s, onDisk) == [kind |-> "sealed", recs |-> s, synced |-> onDisk]

\* loadLocked: a missing or zero-length datastore reads as the empty registry, a
\* sealed one as its records, anything else is an error.
Readable(f) == f.kind \in {"missing", "sealed", "empty"}
RecordsOf(f) == f.recs

VARIABLES
    file,       \* what the datastore's path names
    durable,    \* what the path would name after a loss of power
    temp,       \* per handler: its temporary file
    orphans,    \* temporary files no handler will come back to, with the fault's number
    stuck,      \* temporary files that could not be removed so far
    crashes,    \* crashes so far
    writer,     \* RWMutex: who holds, or has announced, the writer's side
    readers,    \* RWMutex: who holds the reader's side
    blocked,    \* RWMutex: readers that arrived behind an announced writer
    pc,         \* per handler: where it stands
    op,         \* per handler: the method of its request
    cand,       \* per handler: the record of its POST
    recs,       \* per handler: the registry it loaded, or is about to save
    status      \* per handler: the HTTP status it will answer with

diskVars == <<file, durable, temp, orphans, stuck, crashes>>
lockVars == <<writer, readers, blocked>>
callVars == <<op, cand, recs, status>>
vars == <<diskVars, lockVars, pc, callVars>>

ReaderPcs == {"rlock", "rblocked", "read", "rreturn"}
SavePcs == {"create", "write", "sync", "chmod", "rename"}
WriterPcs == {"load"} \union SavePcs \union {"return"}
Pcs == {"idle", "lock", "drain", "rejected"} \union ReaderPcs \union WriterPcs

Init ==
    /\ file \in {NoFile, Sealed(Seed, TRUE)}
    /\ durable = file
    /\ temp = [h \in Handlers |-> "none"]
    /\ orphans = {}
    /\ stuck = 0
    /\ crashes = 0
    /\ writer = NoOne
    /\ readers = {}
    /\ blocked = {}
    /\ pc = [h \in Handlers |-> "idle"]
    /\ op = [h \in Handlers |-> "GET"]
    /\ cand = [h \in Handlers |-> AnyRecord]
    /\ recs = [h \in Handlers |-> <<>>]
    /\ status = [h \in Handlers |-> 200]

Goto(h, label) == pc' = [pc EXCEPT ![h] = label]

Step(h, from, to) == pc[h] = from /\ Goto(h, to)

Result(h, code, s) ==
    /\ status' = [status EXCEPT ![h] = code]
    /\ recs' = [recs EXCEPT ![h] = s]
    /\ UNCHANGED <<op, cand>>

\* The handler has written its response: its locals are gone.
Forget(h) ==
    /\ op' = [op EXCEPT ![h] = "GET"]
    /\ cand' = [cand EXCEPT ![h] = AnyRecord]
    /\ recs' = [recs EXCEPT ![h] = <<>>]
    /\ status' = [status EXCEPT ![h] = 200]

-----------------------------------------------------------------------------
(* Requests arrive. *)

\* GET /api/inventory and GET /clusterview (Load), GET /api/inventory/raw.
Get(h) ==
    /\ Step(h, "idle", "rlock")
    /\ \E m \in {"GET", "RAW"} : op' = [op EXCEPT ![h] = m]
    /\ UNCHANGED <<diskVars, lockVars, cand, recs, status>>

\* POST /api/inventory with a body that decodes and validates.
Post(h) ==
    /\ Step(h, "idle", "lock")
    /\ op' = [op EXCEPT ![h] = "POST"]
    /\ \E r \in Record : cand' = [cand EXCEPT ![h] = r]
    /\ UNCHANGED <<diskVars, lockVars, recs, status>>

\* POST with an undecodable body, or one Validate refuses: 400, no store access.
PostRefused(h) ==
    /\ Step(h, "idle", "rejected")
    /\ op' = [op EXCEPT ![h] = "POST"]
    /\ status' = [status EXCEPT ![h] = 400]
    /\ UNCHANGED <<diskVars, lockVars, cand, recs>>

RefusalSent(h) ==
    /\ Step(h, "rejected", "idle")
    /\ Forget(h)
    /\ UNCHANGED <<diskVars, lockVars>>

-----------------------------------------------------------------------------
(* sync.RWMutex: an announced writer holds new readers back; the writer    *)
(* proceeds once the readers before it have left, and its Unlock admits    *)
(* every reader held back meanwhile.                                       *)

RLock(h) ==
    /\ Step(h, "rlock", "read")
    /\ writer = NoOne
    /\ readers' = readers \union {h}
    /\ UNCHANGED <<diskVars, writer, blocked, callVars>>

RLockWaits(h) ==
    /\ Step(h, "rlock", "rblocked")
    /\ writer # NoOne
    /\ blocked' = blocked \union {h}
    /\ UNCHANGED <<diskVars, writer, readers, callVars>>

RUnlock(h) ==
    /\ readers' = readers \ {h}
    /\ UNCHANGED <<writer, blocked>>

\* Mutant: Upsert does not take the writer's side exclusively.
LockShared(h) ==
    /\ Step(h, "lock", "drain")
    /\ writer' = h
    /\ UNCHANGED <<diskVars, readers, blocked, callVars>>

Lock(h) ==
    /\ Step(h, "lock", "drain")
    /\ writer = NoOne
    /\ writer' = h
    /\ UNCHANGED <<diskVars, readers, blocked, callVars>>

LockGranted(h) ==
    /\ Step(h, "drain", "load")
    /\ readers = {}
    /\ UNCHANGED <<diskVars, lockVars, callVars>>

\* Mutant: a reader that arrived behind the writer is never woken.
UnlockForgetsReaders(h) ==
    /\ writer' = NoOne
    /\ blocked' = {}
    /\ Goto(h, "idle")
    /\ UNCHANGED readers

\* pc' of h and of the readers its Unlock wakes.
Unlock(h) ==
    /\ writer' = NoOne
    /\ readers' = readers \union blocked
    /\ blocked' = {}
    /\ pc' = [g \in Handlers |->
                IF g = h THEN "idle" ELSE IF g \in blocked THEN "read" ELSE pc[g]]

-----------------------------------------------------------------------------
(* The reading handlers: handleInventory GET, handleClusterView, handleRaw. *)

\* Load decrypts; RawCiphertext hands the bytes out as they are.
ReadFile(h) ==
    /\ Step(h, "read", "rreturn")
    /\ Readable(file) \/ (op[h] = "RAW" /\ file.kind # "private")
    /\ Result(h, 200, RecordsOf(file))
    /\ UNCHANGED <<diskVars, lockVars>>

\* The read fails, or Decrypt refuses what was read.
ReadFileFails(h) ==
    /\ Step(h, "read", "rreturn")
    /\ Result(h, 500, <<>>)
    /\ UNCHANGED <<diskVars, lockVars>>

ReadReturn(h) ==
    /\ Step(h, "rreturn", "idle")
    /\ RUnlock(h)
    /\ Forget(h)
    /\ UNCHANGED diskVars

-----------------------------------------------------------------------------
(* Store.Upsert: loadLocked and saveLocked under one hold of the lock. *)

LoadLocked(h) ==
    /\ Step(h, "load", "create")
    /\ Readable(file)
    /\ Result(h, 200, Upsert(RecordsOf(file), cand[h]))
    /\ UNCHANGED <<diskVars, lockVars>>

\* Mutant: a failed load is answered with a status the handlers do not use.
LoadFailsNotFound(h) ==
    /\ Step(h, "load", "return")
    /\ Result(h, 404, <<>>)
    /\ UNCHANGED <<diskVars, lockVars>>

\* The read fails, or Decrypt refuses what was read: nothing is saved.
LoadFails(h) ==
    /\ Step(h, "load", "return")
    /\ Result(h, 500, <<>>)
    /\ UNCHANGED <<diskVars, lockVars>>

CreateTemp(h) ==
    /\ Step(h, "create", "write")
    /\ temp' = [temp EXCEPT ![h] = "created"]
    /\ UNCHANGED <<file, durable, orphans, stuck, crashes, lockVars, callVars>>

\* Mutant: no fsync before the rename.
WriteTempNoSync(h) ==
    /\ Step(h, "write", "chmod")
    /\ temp' = [temp EXCEPT ![h] = "written"]
    /\ UNCHANGED <<file, durable, orphans, stuck, crashes, lockVars, callVars>>

WriteTemp(h) ==
    /\ Step(h, "write", "sync")
    /\ temp' = [temp EXCEPT ![h] = "written"]
    /\ UNCHANGED <<file, durable, orphans, stuck, crashes, lockVars, callVars>>

SyncTemp(h) ==
    /\ Step(h, "sync", "chmod")
    /\ temp' = [temp EXCEPT ![h] = "synced"]
    /\ UNCHANGED <<file, durable, orphans, stuck, crashes, lockVars, callVars>>

CloseAndChmod(h) ==
    /\ Step(h, "chmod", "rename")
    /\ UNCHANGED <<diskVars, lockVars, callVars>>

Rename(h) ==
    /\ Step(h, "rename", "return")
    /\ file' = Sealed(recs[h], temp[h] = "synced")
    /\ temp' = [temp EXCEPT ![h] = "none"]
    /\ UNCHANGED <<durable, orphans, stuck, crashes, lockVars, callVars>>

\* Mutant: an error path keeps the temporary file.
SaveFailsKeepsTemp(h) ==
    /\ pc[h] \in SavePcs
    /\ Goto(h, "return")
    /\ Result(h, 500, <<>>)
    /\ UNCHANGED <<diskVars, lockVars>>

\* Mutant: the error is dropped and the client told its record was stored.
SaveFailsSilently(h) ==
    /\ pc[h] \in SavePcs
    /\ Goto(h, "return")
    /\ temp' = [temp EXCEPT ![h] = "none"]
    /\ UNCHANGED <<file, durable, orphans, stuck, crashes, lockVars, callVars>>

\* os.Remove fails, and its error is not looked at.
RemoveFails(h) ==
    /\ temp[h] # "none"
    /\ stuck < MaxStuck
    /\ stuck' = stuck + 1
    /\ orphans' = orphans \union {<<h, "remove", stuck>>}

\* Any step of saveLocked fails: the temporary file, if there is one, is removed
\* if it can be, and the error becomes a 500.
SaveFails(h) ==
    /\ pc[h] \in SavePcs
    /\ Goto(h, "return")
    /\ temp' = [temp EXCEPT ![h] = "none"]
    /\ Result(h, 500, <<>>)
    /\ UNCHANGED <<orphans, stuck>> \/ RemoveFails(h)
    /\ UNCHANGED <<file, durable, crashes, lockVars>>

Return(h) ==
    /\ pc[h] = "return"
    /\ Unlock(h)
    /\ Forget(h)
    /\ UNCHANGED diskVars

-----------------------------------------------------------------------------
(* The process or the machine dies; systemd starts the service again. *)

Restart ==
    /\ crashes < MaxCrashes
    /\ crashes' = crashes + 1
    /\ orphans' = orphans \union {<<h, "crash", crashes>> : h \in {g \in Handlers : temp[g] # "none"}}
    /\ UNCHANGED stuck
    /\ temp' = [h \in Handlers |-> "none"]
    /\ writer' = NoOne
    /\ readers' = {}
    /\ blocked' = {}
    /\ pc' = [h \in Handlers |-> "idle"]
    /\ op' = [h \in Handlers |-> "GET"]
    /\ cand' = [h \in Handlers |-> AnyRecord]
    /\ recs' = [h \in Handlers |-> <<>>]
    /\ status' = [h \in Handlers |-> 200]

Crash == Restart /\ UNCHANGED <<file, durable>>

\* The last rename may or may not have reached the disk; if it did, and the
\* bytes it points to had not, what comes back is torn or of length zero.
PowerLoss ==
    /\ Restart
    /\ file' \in {durable} \union (IF file.synced THEN {file} ELSE {Torn, Empty})
    /\ durable' = file'

\* The operating system writes the directory entry back.
Flush ==
    /\ durable # file
    /\ durable' = file
    /\ UNCHANGED <<file, temp, orphans, stuck, crashes, lockVars, pc, callVars>>

-----------------------------------------------------------------------------
Handle(h) ==
    \/ RefusalSent(h) \/ RLock(h) \/ RLockWaits(h)
    \/ ReadFile(h) \/ ReadFileFails(h) \/ ReadReturn(h)
    \/ LockGranted(h) \/ LoadLocked(h) \/ LoadFails(h) \/ CreateTemp(h) \/ WriteTemp(h)
    \/ SyncTemp(h) \/ CloseAndChmod(h) \/ Rename(h) \/ SaveFails(h) \/ Return(h)

Next ==
    \/ \E h \in Handlers : Get(h) \/ Post(h) \/ PostRefused(h) \/ Lock(h) \/ Handle(h)
    \/ Crash \/ PowerLoss \/ Flush

Spec == Init /\ [][Next]_vars

\* A goroutine that can run does run.  sync.Mutex hands itself to a waiter that
\* has starved for a millisecond, hence the strong fairness of Lock.
Fairness == \A h \in Handlers : WF_vars(Handle(h)) /\ SF_vars(Lock(h))

FairSpec == Spec /\ Fairness

-----------------------------------------------------------------------------
(* Properties. *)

Contents ==
    [kind: {"missing", "sealed", "empty", "torn", "private"}, recs: Registries, synced: BOOLEAN]

\* Nothing at the path, or all of a saved registry.
Whole(f) == f.kind \in {"missing", "sealed"}

\* Every variable keeps its type.
TypeOK ==
    /\ file \in Contents
    /\ durable \in Contents
    /\ temp \in [Handlers -> {"none", "created", "written", "synced"}]
    /\ orphans \subseteq Handlers \X {"crash", "remove"} \X Nat
    /\ stuck \in Nat
    /\ crashes \in Nat
    /\ writer \in Handlers \union {NoOne}
    /\ readers \subseteq Handlers
    /\ blocked \subseteq Handlers
    /\ pc \in [Handlers -> Pcs]
    /\ op \in [Handlers -> {"GET", "RAW", "POST"}]
    /\ cand \in [Handlers -> Record]
    /\ recs \in [Handlers -> Registries]
    /\ status \in [Handlers -> {200, 400, 500}]

\* saveLocked's promise: no reader, and no restart after a loss of power, ever
\* finds a half-written datastore at the path.
NeverHalfWritten == Whole(file) /\ Whole(durable)

\* Whatever interleaving of POSTs and restarts wrote it, the datastore and
\* every registry a handler is about to save or send list a hostname once.
HostnamesUnique ==
    /\ UniqueHosts(file.recs)
    /\ \A h \in Handlers : UniqueHosts(recs[h])

\* Every error path of saveLocked removes the temporary file, and the lock admits
\* one writer: at any moment one handler at most has a temporary file, and only
\* while it is inside saveLocked; every other one on the disk was left by a
\* restart or by a removal that failed, one by each at most.
OneOrphanPerFault ==
    /\ \A h \in Handlers : temp[h] # "none" =>
          pc[h] \in SavePcs /\ \A g \in Handlers : temp[g] # "none" => g = h
    /\ \A o, p \in orphans : o[2] = p[2] /\ o[3] = p[3] => o = p
    /\ \A o \in orphans : o[3] < (IF o[2] = "crash" THEN crashes ELSE stuck)

\* Upsert's promise ("preserving its position so member ordering stays
\* stable"), for the file and across handlers: a step that changes the
\* datastore while the service lives changes or appends exactly one record.
OneRecordAtATime ==
    [][crashes' = crashes /\ file' # file =>
         /\ Len(file.recs) <= Len(file'.recs)
         /\ \E r \in Record : file'.recs = Upsert(file.recs, r)
         /\ \A i \in DOMAIN file.recs : file'.recs[i].hostname = file.recs[i].hostname
      ]_vars

\* A request that arrives is answered, or the service restarts under it: no
\* error path returns without releasing the lock, no reader or writer starves.
EveryRequestEnds == \A h \in Handlers : (pc[h] # "idle") ~> (pc[h] = "idle")

-----------------------------------------------------------------------------
(* The inductive invariant behind them, by part. *)

\* The mutex and the program counters agree, and a writer is alone.
LockInv ==
    /\ \A h \in Handlers : h \in readers <=> pc[h] \in {"read", "rreturn"}
    /\ \A h \in Handlers : h \in blocked <=> pc[h] = "rblocked"
    /\ \A h \in Handlers : writer = h <=> pc[h] \in WriterPcs \union {"drain"}
    /\ (\E h \in Handlers : pc[h] \in WriterPcs) => readers = {}

\* A temporary file belongs to a handler inside saveLocked, and is on the disk
\* before it is renamed.
TempInv ==
    /\ \A h \in Handlers : temp[h] # "none" => pc[h] \in SavePcs
    /\ \A h \in Handlers : pc[h] \in {"chmod", "rename"} => temp[h] = "synced"

\* What a handler is about to save is still what the file holds plus its
\* candidate: nothing moved since it loaded.
CallInv ==
    \A h \in Handlers :
      /\ pc[h] \in ReaderPcs => op[h] # "POST"
      /\ pc[h] \in {"lock", "drain"} \union WriterPcs => op[h] = "POST"
      /\ pc[h] \notin {"return", "rreturn", "rejected"} => status[h] = 200
      /\ pc[h] \notin SavePcs \union {"return", "rreturn"} => recs[h] = <<>>
      /\ pc[h] \in SavePcs => recs[h] = Upsert(file.recs, cand[h])

\* The path never names bytes that a loss of power could take away.
FileInv ==
    /\ Whole(file) /\ Whole(durable)
    /\ file.synced /\ durable.synced
    /\ UniqueHosts(file.recs) /\ UniqueHosts(durable.recs)

IInv ==
    TypeOK /\ LockInv /\ TempInv /\ CallInv /\ FileInv
    /\ HostnamesUnique /\ OneOrphanPerFault

(***************************************************************************)
(* The service implements the atomic registry.  An upsert takes effect at  *)
(* the rename, a read at ReadFile.                                         *)
(***************************************************************************)
PhaseOf(p) ==
    CASE p = "idle" -> "idle"
      [] p \in {"rreturn", "return", "rejected"} -> "done"
      [] OTHER -> "pending"

\* A registry being prepared is not an answer yet.
ReplyOf(h) == IF pc[h] \in SavePcs THEN <<>> ELSE recs[h]

Registry == INSTANCE InventoryRegistry WITH
    registry <- RecordsOf(file),
    stable <- RecordsOf(durable),
    phase <- [h \in Handlers |-> PhaseOf(pc[h])],
    reply <- [h \in Handlers |-> ReplyOf(h)]

\* Every answer of the service is one an atomic registry could have given.
ImplementsRegistry == Registry!RSpec
================================================================================
