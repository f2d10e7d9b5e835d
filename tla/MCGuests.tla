-------------------------------- MODULE MCGuests --------------------------------
(***************************************************************************)
(* The components of Guests, each on a small instance.                     *)
(*                                                                         *)
(* The five share no variable, so what one of them can reach does not      *)
(* depend on the others: a behaviour chooses one of them, `focus', and the *)
(* others stay in one of their initial states.                             *)
(*                                                                         *)
(* The instances.  The pull: images of three and of two blocks; the        *)
(* reference moves twice while pulls are interrupted.  The drive: four     *)
(* slots, two of them of an IDE controller listed last.  Discovery: a      *)
(* bridge before and a bridge after the LAN adapter.  The website: a page  *)
(* only in the old build, one only in the new, one that spells its head in *)
(* capitals, one whose text names the marker; two publications.            *)
(* Readiness: the balancer and the inventory service; a request may        *)
(* outlast a sleep.                                                        *)
(***************************************************************************)
EXTENDS Guests, Sequences, FiniteSets

MCSize == [imageA |-> 3, imageB |-> 2]
MCEndpoints == <<"load balancer", "inventory service">>

VARIABLE focus      \* the component that runs

PullInit == Pull!Init /\ (focus # "pull" => published = "imageA" /\ file = <<>>)
DriveInit == Drive!Init /\ (focus # "drive" => medium = [s \in 1..NSlots |-> "disk"])
FindInit == Find!Init /\ (focus # "find" => dns = "none" /\ hostLan)
SiteInit == Website!Init /\ (focus # "site" => upstream = "old" /\ envSet)
ReadyInit == Ready!Init /\ (focus # "ready" => up = <<"refusing", "refusing">>)

vars == <<focus, pullVars, driveVars, findVars, siteVars, readyVars>>

Init ==
    /\ focus \in {"pull", "drive", "find", "site", "ready"}
    /\ PullInit /\ DriveInit /\ FindInit /\ SiteInit /\ ReadyInit

Next ==
    /\ UNCHANGED focus
    /\ \/ /\ focus = "pull" /\ Pull!Next
          /\ UNCHANGED <<driveVars, findVars, siteVars, readyVars>>
       \/ /\ focus = "drive" /\ Drive!Next
          /\ UNCHANGED <<pullVars, findVars, siteVars, readyVars>>
       \/ /\ focus = "find" /\ Find!Next
          /\ UNCHANGED <<pullVars, driveVars, siteVars, readyVars>>
       \/ /\ focus = "site" /\ Website!Next
          /\ UNCHANGED <<pullVars, driveVars, findVars, readyVars>>
       \/ /\ focus = "ready" /\ Ready!Next
          /\ UNCHANGED <<pullVars, driveVars, findVars, siteVars>>

\* The fairness of ImagePull and of ClusterReadiness, while they run.
Fairness ==
    /\ WF_pullVars(focus = "pull" /\ Pull!Start)
    /\ WF_pullVars(focus = "pull" /\ (Pull!Fetch \/ Pull!Verify))
    /\ WF_readyVars(focus = "ready" /\ Ready!Tick)
    /\ WF_readyVars(focus = "ready" /\ Ready!Step)

Spec == Init /\ [][Next]_vars /\ Fairness

-----------------------------------------------------------------------------
(* Liveness, under the fairness above. *)

\* Run again, the script finishes once the network behaves, unless a longer file
\* lies where the image goes.
RerunFinishes == focus = "pull" => Pull!RerunFinishes

\* Whatever the endpoints do, configure is not left waiting.
Terminates == focus = "ready" => Ready!Terminates
=================================================================================
