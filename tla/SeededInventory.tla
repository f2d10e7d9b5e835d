---------------------------- MODULE SeededInventory ----------------------------
(***************************************************************************)
(* The inventory service together with the other writer of its datastore:  *)
(* vmdeploy's seed_inventory, which knows nothing of the service's mutex.  *)
(* It stages the blob over SFTP and puts it in place with install(1), whose *)
(* three system calls on the destination (unlink, exclusive create with    *)
(* mode 0600, write and chmod) are steps of their own, then fixes the group *)
(* and restarts the service.                                               *)
(***************************************************************************)
EXTENDS InventoryStore

CONSTANTS
    SeedRecords,    \* build_records: one record per configured host
    MaxSeeds        \* bound: runs of seed_inventory

ASSUME SeedRecordsAssumption ==
    SeedRecords \in Seq(Record) /\ UniqueHosts(SeedRecords)
ASSUME MaxSeedsAssumption == MaxSeeds \in Nat

VARIABLES
    seedPc,     \* where seed_inventory stands
    seeds,      \* runs of seed_inventory so far
    disturbed   \* a POST held the lock during a seed, or power was lost

seedVars == <<seedPc, seeds>>
allVars == <<vars, seedVars, disturbed>>

Private == [kind |-> "private", recs |-> <<>>, synced |-> FALSE]

SeedInit ==
    /\ Init
    /\ seedPc = "idle"
    /\ seeds = 0
    /\ disturbed = FALSE

\* seed_inventory begins, or configure is run again: the blob is staged in /tmp.
SeedStart ==
    /\ seedPc \in {"idle", "failed", "done"}
    /\ seeds < MaxSeeds
    /\ seedPc' = "staged"
    /\ seeds' = seeds + 1
    /\ UNCHANGED vars

InstallUnlink ==
    /\ seedPc = "staged"
    /\ seedPc' = "unlinked"
    /\ file' = NoFile
    /\ UNCHANGED <<seeds, durable, temp, orphans, stuck, crashes, lockVars, pc, callVars>>

InstallCreate ==
    /\ seedPc = "unlinked"
    /\ file = NoFile
    /\ seedPc' = "created"
    /\ file' = Private
    /\ UNCHANGED <<seeds, durable, temp, orphans, stuck, crashes, lockVars, pc, callVars>>

\* The exclusive create finds a file a rename put there.  RemoteHost.sudo runs
\* the command a second time with the password, or raises without one.
InstallCollides ==
    /\ seedPc = "unlinked"
    /\ file # NoFile
    /\ seedPc' \in {"staged", "failed"}
    /\ UNCHANGED <<seeds, vars>>

\* The bytes go to the file install created, which a rename may have replaced.
InstallWrite ==
    /\ seedPc = "created"
    /\ seedPc' = "installed"
    /\ file' = IF file = Private THEN Sealed(SeedRecords, FALSE) ELSE file
    /\ UNCHANGED <<seeds, durable, temp, orphans, stuck, crashes, lockVars, pc, callVars>>

\* chgrp, chmod, then systemctl restart, which waits for requests in flight
\* (a request it does not wait for is killed: Crash).  The manifest follows.
SeedRestartsService ==
    /\ seedPc = "installed"
    /\ \A h \in Handlers : pc[h] = "idle"
    /\ seedPc' = "done"
    /\ UNCHANGED <<seeds, vars>>

\* Mutant: the failure of a remote command is swallowed.
SeedFailsSilently ==
    /\ seedPc \in {"staged", "unlinked", "created", "installed"}
    /\ seedPc' = "done"
    /\ UNCHANGED <<seeds, vars>>

\* The SSH session breaks, or a command of the sequence fails.
SeedFails ==
    /\ seedPc \in {"staged", "unlinked", "created", "installed"}
    /\ seedPc' = "failed"
    /\ UNCHANGED <<seeds, vars>>

SeedStep ==
    \/ SeedStart \/ InstallUnlink \/ InstallCreate \/ InstallCollides
    \/ InstallWrite \/ SeedRestartsService \/ SeedFails

\* History: what may spoil a seed.
Upserting == \E h \in Handlers : pc[h] \in {"load"} \union SavePcs
Racing == seedPc \in {"staged", "unlinked", "created", "installed"} /\ Upserting

Watch == disturbed' = (disturbed \/ Racing' \/ (crashes' # crashes /\ file' # file))

SeededNext ==
    \/ Next /\ UNCHANGED seedVars /\ Watch
    \/ SeedStep /\ Watch

SeededSpec == SeedInit /\ [][SeededNext]_allVars

-----------------------------------------------------------------------------
HostsOf(s) == {s[i].hostname : i \in DOMAIN s}
SeedHosts == HostsOf(SeedRecords)
Members(f) == HostsOf(f.recs)

\* Types of the composition.
SeededTypeOK ==
    /\ TypeOK
    /\ seedPc \in {"idle", "staged", "unlinked", "created", "installed", "failed", "done"}
    /\ seeds \in 0..MaxSeeds
    /\ disturbed \in BOOLEAN

\* seed_inventory has returned and nothing disturbed it: every configured host
\* is in the registry, whatever was read, restarted, retried or failed before,
\* and stays there through later POSTs.
QuietSeedKept ==
    seedPc = "done" /\ ~disturbed => Whole(file) /\ SeedHosts \subseteq Members(file)

\* The claim in the comment on Store: membership is never stale immediately
\* after a deployment, because every read goes to the file Python wrote.
FreshAfterDeployment ==
    seedPc = "done" => SeedHosts \subseteq Members(file)

-----------------------------------------------------------------------------
(* The inductive invariant behind QuietSeedKept.  The service's own IInv   *)
(* does not hold beside a writer that ignores its lock; what remains is    *)
(* that no registry repeats a hostname, on which Upsert depends.           *)

RegistriesUnique == HostnamesUnique /\ UniqueHosts(durable.recs)

\* A seed that nothing disturbs finds its file as it left it, and every handler that
\* loads afterwards is about to save the configured hosts too.
QuietInv ==
    ~disturbed =>
      /\ ~Racing
      /\ seedPc = "created" => file = Private
      /\ seedPc = "installed" => file = Sealed(SeedRecords, FALSE)
      /\ seedPc = "done" =>
           \A h \in Handlers : pc[h] \in SavePcs => SeedHosts \subseteq HostsOf(recs[h])

SeededIInv == SeededTypeOK /\ RegistriesUnique /\ QuietInv /\ QuietSeedKept
================================================================================
