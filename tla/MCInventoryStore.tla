--------------------------- MODULE MCInventoryStore ---------------------------
(* Small instances of InventoryStore: an existing datastore with one host. *)
EXTENDS InventoryStore, TLC

CONSTANTS a, b, down, up

MCSeed == <<[hostname |-> a, data |-> down]>>

HandlerSymmetry == Permutations(Handlers)
================================================================================
