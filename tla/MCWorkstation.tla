------------------------------ MODULE MCWorkstation ------------------------------
(***************************************************************************)
(* The components of Workstation, each on a small instance.                *)
(*                                                                         *)
(* The four share no variable, so what one of them can reach does not      *)
(* depend on the others: a behaviour chooses one of them, `focus', and the *)
(* others stay in one of their initial states.                             *)
(*                                                                         *)
(* The instances.  Setup: the stock account and another, three commands:   *)
(* one that fails or dies, its repetition, and another; the path given to  *)
(* setup is a new one or the stock key's, and the box is off at first.     *)
(* The manifest: two hosts of a configuration that changes, the addresses  *)
(* of two deployments.  Preflight: three guests of 2 MB and 1 MB of        *)
(* headroom, with memory below what they need and just enough; a disk that *)
(* holds three guests of the appliance of 1 GB and not three of the        *)
(* default size; the SSH key or the template may be missing, not both at   *)
(* first.  The binary: two files of two contents, edited twice while three *)
(* commands run.                                                           *)
(***************************************************************************)
EXTENDS Workstation

VARIABLE focus      \* the component that runs

\* The stock boxes told apart: the rule is in the file setup writes, with a password in
\* the environment or without; it is there and the account is in no group; it is in
\* another file, and the stock key has no .pub; there is none, but a group and password.
StockBox ==
    LET is(g, r, o, c) == acct[Boot] = Setup!Stock(g, r, o) /\ pub[BootPath] = c
    IN  \/ is(TRUE, TRUE, FALSE, 1)
        \/ is(FALSE, TRUE, FALSE, 1) /\ ~password
        \/ is(TRUE, FALSE, TRUE, Setup!NoFile) /\ ~password
        \/ is(TRUE, FALSE, FALSE, 1) /\ password

SetupInit ==
    /\ Setup!Init
    /\ power = "off"
    /\ StockBox
    /\ focus # "setup" => password /\ acct[Boot].rule

AnyHost == CHOOSE h \in Checks!HostStates : TRUE
ChecksInit ==
    /\ Checks!Init
    /\ IF focus = "checks" THEN host.key \/ host.template ELSE host = AnyHost

AnyVersion == CHOOSE v \in Versions : TRUE
BinaryInit ==
    /\ Binary!Init
    /\ focus # "binary" => src = [f \in 1..NFiles |-> AnyVersion] /\ go = "none" /\ envSet

vars == <<focus, setupVars, manifestVars, checksVars, binaryVars>>

Init ==
    /\ focus \in {"setup", "manifest", "checks", "binary"}
    /\ SetupInit /\ Manifest!Init /\ ChecksInit /\ BinaryInit

Next ==
    /\ UNCHANGED focus
    /\ \/ /\ focus = "setup" /\ Setup!Next
          /\ UNCHANGED <<manifestVars, checksVars, binaryVars>>
       \/ /\ focus = "manifest" /\ Manifest!Next
          /\ UNCHANGED <<setupVars, checksVars, binaryVars>>
       \/ /\ focus = "checks" /\ Checks!Next
          /\ UNCHANGED <<setupVars, manifestVars, binaryVars>>
       \/ /\ focus = "binary" /\ Binary!Next
          /\ UNCHANGED <<setupVars, manifestVars, checksVars>>

Spec == Init /\ [][Next]_vars
==================================================================================
