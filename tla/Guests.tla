--------------------------------- MODULE Guests ---------------------------------
(***************************************************************************)
(* What makes guests and runs against them, for any instance: the image    *)
(* pull, the seed's optical drive, finding a guest's address, publishing   *)
(* the website and waiting for the cluster.  The five share no variable,   *)
(* so a behaviour of all of them is a behaviour of each.                   *)
(***************************************************************************)
EXTENDS Integers

-----------------------------------------------------------------------------
(* The image pull. *)

CONSTANTS Images, Size, Junk, Attempts, MaxPublishes, MaxFaults

VARIABLES published, publishes, file, wanted, attempt, faults, pullPc, pullResult

pullVars == <<published, publishes, file, wanted, attempt, faults, pullPc, pullResult>>

Pull == INSTANCE ImagePull WITH pc <- pullPc, result <- pullResult

ASSUME PullHolds == Pull!PullAssumption

-----------------------------------------------------------------------------
(* The optical drive. *)

CONSTANTS NSlots, Ide, Seeds, OtherIso

VARIABLES medium, drivePc, slot, want, done

driveVars == <<medium, drivePc, slot, want, done>>

Drive == INSTANCE OpticalDrive WITH pc <- drivePc

ASSUME DriveHolds == Drive!DriveAssumption

-----------------------------------------------------------------------------
(* Discovery. *)

CONSTANTS NIfaces, Virtual, BridgeClass

VARIABLES addr, ip, named, dns, hostLan, findPc, chosen, snap

findVars == <<addr, ip, named, dns, hostLan, findPc, chosen, snap>>

Find == INSTANCE GuestDiscovery WITH pc <- findPc

ASSUME FindHolds == Find!DiscoveryAssumption

-----------------------------------------------------------------------------
(* The website. *)

CONSTANTS Pages, Index, OldSite, NewSite, LowerHead, Mentions, MaxRuns

VARIABLES upstream, stage, doc, content, stamps, todo, status, again, envSet, sitePc,
          siteResult, runs, sedFailed

siteVars == <<upstream, stage, doc, content, stamps, todo, status, again, envSet, sitePc,
              siteResult, runs, sedFailed>>

Website == INSTANCE SitePublish WITH pc <- sitePc, result <- siteResult

ASSUME WebsiteHolds == Website!SiteAssumption

-----------------------------------------------------------------------------
(* Readiness. *)

CONSTANTS Endpoints, Timeout, Attempt, Poll, MaxFlips

VARIABLES clock, up, upSince, flips, cur, since, tried, seen, answered, readyPc

readyVars == <<clock, up, upSince, flips, cur, since, tried, seen, answered, readyPc>>

Ready == INSTANCE ClusterReadiness WITH pc <- readyPc

ASSUME ReadyHolds == Ready!ReadinessAssumption

-----------------------------------------------------------------------------
(* The components' properties; each is explained where it is stated. *)

\* The type invariants of the five components.
TypeOK == Pull!TypeOK /\ Drive!TypeOK /\ Find!TypeOK /\ Website!TypeOK /\ Ready!TypeOK

\* pull-image.ps1 succeeded: the appliance is the image it read the digest of,
\* whatever older bytes it resumed over.
SuccessMeansIntact == Pull!SuccessMeansIntact

\* One seed at most is in the guest's drives, after an attach the one attached, and
\* none after an ejection that VirtualBox carried out.
SeedsInTurn == Drive!SeedsInTurn

\* No sequence of attaching and ejecting takes a disk or an optical drive away.
DisksKept == Drive!DisksKept

\* An address on the host's own subnet, once VBoxManage lists it, is what
\* wait_for_guest_ip returns; a bridge's address, a stale DNS record or a timeout come
\* only of a race with the guest or of an enumeration that failed.
AddressExplained == Find!AddressExplained

\* publish_site returned: the document root is one build, stamped; and no page ever
\* carries the identity tag twice, not even when sudo repeats the loop.
SiteDelivered == Website!SiteDelivered

\* The served site is given up only for a build of the site that was fetched whole.
SiteKeptUntilFetched == Website!SiteKeptUntilFetched

\* wait_for_cluster_ready returned, so every endpoint served a request of this call;
\* or it timed out on an endpoint it had asked, so that one was not serving
\* throughout; and it outlasts its deadline by less than a request and a sleep.
WaitJustified == Ready!WaitJustified
=================================================================================
