--------------------------- MODULE MCSeededInventory ---------------------------
(* The service starts empty or with host a; the deployment seeds a and b. *)
EXTENDS SeededInventory, TLC

CONSTANTS a, b, up

MCSeed == <<[hostname |-> a, data |-> up]>>
MCSeedRecords == <<[hostname |-> a, data |-> up], [hostname |-> b, data |-> up]>>

HandlerSymmetry == Permutations(Handlers)
================================================================================
