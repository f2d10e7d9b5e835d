-------------------------- MODULE MCClusterLifecycle --------------------------
(* A jump station and one backend. *)
EXTENDS ClusterLifecycle

CONSTANT web1

MCBackends == <<web1>>
================================================================================
