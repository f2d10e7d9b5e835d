--------------------------- MODULE InventoryRegistry ---------------------------
(***************************************************************************)
(* What the inventory service promises its HTTP clients, with no file, no  *)
(* lock and no temporary file in sight: one registry, every request        *)
(* applied to it atomically at some moment between its arrival and its     *)
(* answer, a failed request applied not at all.  InventoryStore (the Go    *)
(* service) is shown to implement it.                                      *)
(***************************************************************************)
EXTENDS InventoryRecords

CONSTANT Handlers   \* the concurrent HTTP handler goroutines

VARIABLES
    registry,   \* the registry clients see
    stable,     \* the registry a machine restart may bring back
    phase,      \* per handler: "idle", "pending" or "done"
    op,         \* per handler: "GET", "RAW" or "POST"
    cand,       \* per handler: the record a POST carries
    status,     \* per handler: HTTP status of the answer
    reply       \* per handler: the registry the answer carries

rvars == <<registry, stable, phase, op, cand, status, reply>>

RInit ==
    /\ registry \in {<<>>, Seed}
    /\ stable = registry
    /\ phase = [h \in Handlers |-> "idle"]
    /\ op = [h \in Handlers |-> "GET"]
    /\ cand = [h \in Handlers |-> AnyRecord]
    /\ status = [h \in Handlers |-> 200]
    /\ reply = [h \in Handlers |-> <<>>]

RInvoke(h) ==
    /\ phase[h] = "idle"
    /\ phase' = [phase EXCEPT ![h] = "pending"]
    /\ \E m \in {"GET", "RAW", "POST"}, r \in Record :
         /\ op' = [op EXCEPT ![h] = m]
         /\ cand' = [cand EXCEPT ![h] = r]
    /\ UNCHANGED <<registry, stable, status, reply>>

\* A body that is not a valid record is refused before the store is touched.
RReject(h) ==
    /\ phase[h] = "idle"
    /\ phase' = [phase EXCEPT ![h] = "done"]
    /\ op' = [op EXCEPT ![h] = "POST"]
    /\ status' = [status EXCEPT ![h] = 400]
    /\ UNCHANGED <<registry, stable, cand, reply>>

Answer(h, code, s) ==
    /\ phase' = [phase EXCEPT ![h] = "done"]
    /\ status' = [status EXCEPT ![h] = code]
    /\ reply' = [reply EXCEPT ![h] = s]
    /\ UNCHANGED <<op, cand>>

RRead(h) ==
    /\ phase[h] = "pending" /\ op[h] # "POST"
    /\ Answer(h, 200, registry)
    /\ UNCHANGED <<registry, stable>>

RUpsert(h) ==
    /\ phase[h] = "pending" /\ op[h] = "POST"
    /\ registry' = Upsert(registry, cand[h])
    /\ Answer(h, 200, Upsert(registry, cand[h]))
    /\ UNCHANGED stable

RFail(h) ==
    /\ phase[h] = "pending"
    /\ Answer(h, 500, <<>>)
    /\ UNCHANGED <<registry, stable>>

RReturn(h) ==
    /\ phase[h] = "done"
    /\ phase' = [phase EXCEPT ![h] = "idle"]
    /\ op' = [op EXCEPT ![h] = "GET"]
    /\ cand' = [cand EXCEPT ![h] = AnyRecord]
    /\ status' = [status EXCEPT ![h] = 200]
    /\ reply' = [reply EXCEPT ![h] = <<>>]
    /\ UNCHANGED <<registry, stable>>

\* The service dies: every request in flight loses its answer, and a POST
\* among them has either happened or not.
Drop ==
    /\ phase' = [h \in Handlers |-> "idle"]
    /\ op' = [h \in Handlers |-> "GET"]
    /\ cand' = [h \in Handlers |-> AnyRecord]
    /\ status' = [h \in Handlers |-> 200]
    /\ reply' = [h \in Handlers |-> <<>>]

RCrash == Drop /\ UNCHANGED <<registry, stable>>

\* The machine dies: the registry is the current one or the last one flushed.
RPowerLoss ==
    /\ Drop
    /\ registry' \in {registry, stable}
    /\ stable' = registry'

RFlush ==
    /\ stable' = registry
    /\ UNCHANGED <<registry, phase, op, cand, status, reply>>

RNext ==
    \/ \E h \in Handlers :
         \/ RInvoke(h) \/ RReject(h) \/ RRead(h)
         \/ RUpsert(h) \/ RFail(h) \/ RReturn(h)
    \/ RCrash \/ RPowerLoss \/ RFlush

RSpec == RInit /\ [][RNext]_rvars
================================================================================
