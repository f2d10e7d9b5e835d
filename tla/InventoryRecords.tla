---------------------------- MODULE InventoryRecords ----------------------------
(***************************************************************************)
(* The records of the cluster registry and the one pure operation on them, *)
(* shared by the abstract registry, the Go service and its composition     *)
(* with the Python seeder.                                                 *)
(***************************************************************************)
EXTENDS Naturals, Sequences

CONSTANTS
    Hosts,      \* hostnames a record may carry
    Data,       \* the other seven fields of a record, taken together
    Seed        \* what an existing datastore holds when the service starts

Record == [hostname: Hosts, data: Data]

(***************************************************************************)
(* A registry position by position: hostnames never repeat in a registry   *)
(* built by Upsert from one without repetition.                            *)
(***************************************************************************)
UniqueHosts(s) ==
    \A i, j \in DOMAIN s : s[i].hostname = s[j].hostname => i = j

Positions(s, name) == {i \in DOMAIN s : s[i].hostname = name}

\* Mutant: the candidate is appended without looking for its hostname.
UpsertAppends(s, r) == Append(s, r)

\* Store.Upsert's loop: the first entry with the hostname is overwritten in
\* place and the loop stops; without one the candidate goes to the end.
Upsert(s, r) ==
    IF Positions(s, r.hostname) = {}
    THEN Append(s, r)
    ELSE LET first == CHOOSE i \in Positions(s, r.hostname) :
                          \A j \in Positions(s, r.hostname) : i <= j
         IN  [s EXCEPT ![first] = r]

ASSUME SeedAssumption == Seed \in Seq(Record) /\ UniqueHosts(Seed)
ASSUME RecordAssumption == Record # {}

AnyRecord == CHOOSE r \in Record : TRUE
================================================================================
