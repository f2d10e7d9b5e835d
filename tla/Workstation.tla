------------------------------- MODULE Workstation -------------------------------
(***************************************************************************)
(* What runs against the workstation's own files and the template box, for *)
(* any instance: setup, the local manifest, the preflight checks and the   *)
(* build of the service binary.  The four share no variable, so a          *)
(* behaviour of all of them is a behaviour of each.                        *)
(***************************************************************************)
EXTENDS Integers

-----------------------------------------------------------------------------
(* Setup. *)

CONSTANTS Users, Boot, NoUser, EnvUsers, Paths, BootPath, NewKeyPaths, SetupMax, MaxKeys

VARIABLES acct, power, priv, pub, invKey, identity, password, minted, setupPc,
          setupMode, setupResult, setupRuns, cfg, target, away, line, setupFault

setupVars == <<acct, power, priv, pub, invKey, identity, password, minted, setupPc,
               setupMode, setupResult, setupRuns, cfg, target, away, line, setupFault>>

Setup == INSTANCE WorkstationSetup WITH
    MaxRuns <- SetupMax, overlay <- identity, envSet <- password, pc <- setupPc,
    mode <- setupMode, result <- setupResult, runs <- setupRuns, fault <- setupFault

ASSUME SetupHolds == Setup!SetupAssumption

-----------------------------------------------------------------------------
(* The manifest. *)

CONSTANTS Hosts, Addrs, NoAddr, MaxPy, MaxGo

VARIABLES kind, recs, diverted, pyPc, pyCmd, pyConf, pyMem, pyRuns, goPc, goMem, goRuns,
          ideal, overlap, killed

manifestVars == <<kind, recs, diverted, pyPc, pyCmd, pyConf, pyMem, pyRuns, goPc, goMem,
                  goRuns, ideal, overlap, killed>>

Manifest == INSTANCE LocalManifest

ASSUME ManifestHolds == Manifest!ManifestAssumption

-----------------------------------------------------------------------------
(* The preflight checks. *)

CONSTANTS Procs, NGuests, MemoryMb, HeadroomMb, DefaultGb, RamValues, DiskValues, OvaSizes,
          MaxChanges

VARIABLES host, probe, checkPc, results, drive, quiet, changes

checksVars == <<host, probe, checkPc, results, drive, quiet, changes>>

Checks == INSTANCE Preflight WITH Guests <- NGuests, pc <- checkPc

ASSUME ChecksHolds == Checks!PreflightAssumption

-----------------------------------------------------------------------------
(* The service binary. *)

CONSTANTS NFiles, Versions, MaxEdits, BinaryMax

VARIABLES src, edits, cache, archive, go, link, staged, up, bin, stamp, wanted, envSet,
          pc, mode, result, runs, edited, torn, fault

binaryVars == <<src, edits, cache, archive, go, link, staged, up, bin, stamp, wanted,
                envSet, pc, mode, result, runs, edited, torn, fault>>

Binary == INSTANCE ServiceBinary WITH MaxRuns <- BinaryMax

ASSUME BinaryHolds == Binary!BinaryAssumption

-----------------------------------------------------------------------------
(* The components' properties; each is explained where it is stated. *)

\* The type invariants of the four components.
TypeOK == Setup!TypeOK /\ Manifest!TypeOK /\ Checks!TypeOK /\ Binary!TypeOK

\* Wherever setup or restore-bootstrap raises or is killed, a box that an identity of
\* the workstation reaches stays so, but for a keypair written over the stock key and
\* restore-bootstrap of the account it came in with.
NeverLockedOut == Setup!NeverLockedOut

\* No step of setup replaces a private key that some account still trusts, but for a
\* stock key that came without its public half.
TrustedKeyKept == Setup!TrustedKeyKept

\* run_setup returned from a session on the box: the recorded identity works, the one
\* it came with is off.
SetupDelivers == Setup!SetupDelivers

\* restore_bootstrap returned from a session on the box: the restored account works,
\* and so does the operator's own where it is another.
RestoreDelivers == Setup!RestoreDelivers

\* While no writers overlap and none dies in a write, the manifest is what the
\* commands, Python's and Go's, make of it one after another; one that is left
\* unreadable is the work of a killed Python command.
ManifestKept == Manifest!ManifestKept

\* On a host that did not change, the checks refuse exactly a blocked deployment,
\* another command's checks at the same time notwithstanding, and only a VBoxManage
\* that fails makes them raise.
VerdictExplained == Checks!VerdictExplained

\* A build that returned left the binary of the sources as they are, and no archive but
\* the one with the pinned hash was ever unpacked for it.
BinaryTrusted == Binary!BinaryTrusted

-----------------------------------------------------------------------------
(* What the documentation says, and the code does not keep. *)

\* README.md: "The verify-before-disable ordering makes lockout impossible" -- some
\* account of the box accepts a private key held on the workstation and reaches root.
LockoutImpossible == Setup!SomeIdentityWorks
==================================================================================
