---------------------------- MODULE GoldenTemplate ----------------------------
(***************************************************************************)
(* `vmdeploy template': the golden image is built on a working box that    *)
(* must come back unchanged.  build_golden_template powers the box off,    *)
(* snapshots it, boots it, bakes, sanitises and arms it over SSH, exports  *)
(* it, and in a `finally' clause rolls it back; --export-only exports the  *)
(* box as it is.  Any step may raise, and the process may be killed at any *)
(* point, after which the operator runs the command again.                 *)
(*                                                                         *)
(* The address of the session is wait_for_guest_ip's, and what answers     *)
(* there is not asked for its name: where it came from DNS, the session    *)
(* may be on another guest of the operator's, which is then baked,         *)
(* sanitised and armed in the box's place.                                 *)
(*                                                                         *)
(* A guest's disk is described by what the properties tell apart: booted   *)
(* since its prior state, runtime baked in, login keys present, installer  *)
(* opt-out of cloud-init present, vmdeploy's cloud-init drop-ins present,  *)
(* the instance and machine id of an earlier boot recorded.                *)
(***************************************************************************)
EXTENDS Naturals, Sequences

CONSTANT MaxRuns    \* bound: invocations of `vmdeploy template'

ASSUME MaxRunsAssumption == MaxRuns \in Nat

Disks == [booted: BOOLEAN, baked: BOOLEAN, keys: BOOLEAN, optout: BOOLEAN, dropins: BOOLEAN,
          instance: BOOLEAN]

\* The working box: the operator's keys, the installer's opt-out, nothing baked.
Pristine ==
    [booted |-> FALSE, baked |-> FALSE, keys |-> TRUE, optout |-> TRUE, dropins |-> FALSE,
     instance |-> TRUE]

\* A deployed guest, made from an earlier image and its seed.
Deployed ==
    [booted |-> TRUE, baked |-> TRUE, keys |-> TRUE, optout |-> FALSE, dropins |-> TRUE,
     instance |-> TRUE]

NoOva == [kind |-> "none", disk |-> Pristine, by |-> "build"]

VARIABLES
    box,        \* the template machine's disk
    power,      \* "off" or "running"
    snaps,      \* snapshots named vmdeploy-prebake, oldest first
    ova,        \* what is at the template_ova path
    other,      \* the disk of the guest that a misdirected session is on
    away,       \* whether this command's session is on that guest
    sudoers,    \* whether the login user has passwordless sudo in the box
    envSet,     \* whether VMDEPLOY_SUDO_PASSWORD is set (to the right password)
    pc,         \* the next step of the command
    mode,       \* "build" or "asis" (--export-only)
    result,     \* how the last command ended
    runs,       \* commands so far
    before,     \* history: the disk when the command began
    fault,      \* history: some step of this command failed of its own accord
    left        \* history: the snapshots take_snapshot's deletion left

hostVars == <<box, other, power, snaps, ova>>
sessionVars == <<sudoers, envSet, away>>
history == <<before, left>>
vars == <<hostVars, sessionVars, pc, mode, result, runs, fault, history>>

PrePcs == {"poweroff", "snapdelete", "snaptake"}
TryPcs == {"start", "reach", "bake", "purge", "tooling", "verifykeys", "optout", "clean",
           "dropins", "verifyarmed", "powerdown", "unlink", "export"}
FinallyPcs == {"f_poweroff", "f_restore", "f_delete"}
ExportPcs == {"x_poweroff", "x_unlink", "x_export"}
Pcs == {"idle"} \union PrePcs \union TryPcs \union FinallyPcs \union ExportPcs

Init ==
    /\ box = Pristine
    /\ power \in {"off", "running"}
    /\ snaps = <<>>
    /\ ova = NoOva
    /\ other = Deployed /\ away = FALSE
    /\ sudoers \in BOOLEAN
    /\ envSet \in BOOLEAN
    /\ pc = "idle"
    /\ mode = "build"
    /\ result = "none"
    /\ runs = 0
    /\ before = Pristine
    /\ fault = FALSE
    /\ left = <<>>

-----------------------------------------------------------------------------
(* Control: a step continues, or raises to the finally clause or the CLI.  *)

Goto(from, to) ==
    /\ pc = from
    /\ pc' = to
    /\ UNCHANGED <<mode, result, runs, fault, history, sessionVars>>

\* Mutant: the restore is not in the finally clause.
RaiseSkipsRestore(isFault) ==
    /\ fault' = (fault \/ isFault)
    /\ result' = "fail"
    /\ pc' = IF pc \in TryPcs THEN "f_delete" ELSE "idle"
    /\ UNCHANGED <<mode, runs, history, sessionVars>>

\* An exception inside the try block runs the finally clause; anywhere else it
\* ends the command.
Raise(isFault) ==
    /\ fault' = (fault \/ isFault)
    /\ result' = "fail"
    /\ pc' = IF pc \in TryPcs THEN "f_poweroff" ELSE "idle"
    /\ UNCHANGED <<mode, runs, history, sessionVars>>

\* cmd_template: the machine is registered, so the existence check passes.
CmdTemplate ==
    /\ pc = "idle"
    /\ runs < MaxRuns
    /\ runs' = runs + 1
    /\ \/ mode' = "build" /\ pc' = "poweroff"
       \/ mode' = "asis" /\ pc' = "x_poweroff"
    /\ result' = "none"
    /\ fault' = FALSE
    /\ before' = box /\ left' = <<>>
    /\ away' = FALSE
    /\ UNCHANGED <<hostVars, sudoers, envSet>>

\* VBoxManage, SSH, a download, a compiler, a timeout, or Ctrl-C: the step
\* raises without its effect.
StepRaises ==
    /\ pc # "idle"
    /\ Raise(TRUE)
    /\ UNCHANGED hostVars

\* The process is killed or the automation host goes down: no finally clause.
Killed ==
    /\ pc # "idle"
    /\ pc' = "idle"
    /\ result' = "killed"
    /\ power' \in {power, "off"}
    /\ UNCHANGED <<box, other, snaps, ova, sessionVars, mode, runs, fault, history>>

-----------------------------------------------------------------------------
(* The hypervisor. *)

\* Mutant: the wait for the ACPI shutdown is left out.
PowerOffNoWait(from, to) ==
    /\ Goto(from, to)
    /\ power' = IF power = "running" THEN "stopping" ELSE power
    /\ UNCHANGED <<box, other, snaps, ova>>

\* power_off: a no-op on a stopped machine, else ACPI and then force; a machine
\* that survives both raises (StepRaises).
PowerOff(from, to) ==
    /\ Goto(from, to)
    /\ power' = "off"
    /\ UNCHANGED <<box, other, snaps, ova>>

\* take_snapshot, first half: delete_snapshot runs only if a snapshot of that
\* name is listed, and its exit status is not checked.
SnapshotDelete ==
    /\ pc = "snapdelete"
    /\ pc' = "snaptake"
    /\ \/ snaps # <<>> /\ snaps' = Tail(snaps)
       \/ UNCHANGED snaps
    /\ left' = snaps'
    /\ UNCHANGED <<box, other, power, ova, sessionVars, mode, result, runs, fault, before>>

SnapshotTake ==
    /\ Goto("snaptake", "start")
    /\ snaps' = Append(snaps, box)
    /\ UNCHANGED <<box, other, power, ova>>

StartHeadless ==
    /\ Goto("start", "reach")
    /\ power' = "running"
    /\ box' = [box EXCEPT !.booted = TRUE]
    /\ UNCHANGED <<other, snaps, ova>>

\* export_appliance: the old appliance goes first, whatever comes of the new one.
ExportUnlink(from, to) ==
    /\ power = "off"
    /\ Goto(from, to)
    /\ ova' = NoOva
    /\ UNCHANGED <<box, other, power, snaps>>

\* Who made the appliance, for the properties: a build, one whose session was on
\* another guest, or --export-only.
By == IF away THEN "elsewhere" ELSE mode

Export(from) ==
    /\ pc = from
    /\ ova' = [kind |-> "whole", disk |-> box, by |-> By]
    /\ UNCHANGED <<box, other, power, snaps>>

ExportRaises ==
    /\ pc \in {"export", "x_export"}
    /\ ova' = [kind |-> "partial", disk |-> box, by |-> By]
    /\ Raise(TRUE)
    /\ UNCHANGED <<box, other, power, snaps>>

-----------------------------------------------------------------------------
(* The session.  RemoteHost.sudo tries `sudo -n' first and, on any         *)
(* non-zero exit, the password, or raises if there is none.  A command     *)
(* ending in `|| true' exits zero at the first attempt whether or not sudo *)
(* ran it.  A deployed guest's seed gives its login passwordless sudo.     *)

\* The disk of the guest the session is on.
Target == IF away THEN other ELSE box

SudoRan == away \/ sudoers        \* for a command ending in `|| true'
SudoWorks == SudoRan \/ envSet

\* The session cannot become root: the exception comes before any effect.
SudoRefused(p) ==
    /\ pc = p
    /\ ~SudoWorks
    /\ Raise(FALSE)
    /\ UNCHANGED hostVars

OnTarget(from, to, disk) ==
    /\ power = "running"
    /\ Goto(from, to)
    /\ box' = IF away THEN box ELSE disk
    /\ other' = IF away THEN disk ELSE other
    /\ UNCHANGED <<power, snaps, ova>>

\* wait_for_guest_ip, wait_for_ssh, connect: needs a key the box still has.
Reach == box.keys /\ OnTarget("reach", "bake", box)
ReachTimesOut ==
    /\ pc = "reach"
    /\ ~box.keys
    /\ Raise(FALSE)
    /\ UNCHANGED hostVars

\* The box publishes no address, and DNS knows its name under that of a deployed
\* guest, which accepts the same login.
ReachOther ==
    /\ pc = "reach" /\ pc' = "bake"
    /\ away' = TRUE /\ other' = Deployed
    /\ UNCHANGED <<box, power, snaps, ova, sudoers, envSet, mode, result, runs, fault, history>>

\* prepare_template: Apache, Go, the service binary, all with check=True.
Bake == SudoWorks /\ OnTarget("bake", "purge", [Target EXCEPT !.baked = TRUE])

\* sanitize_image, credentials: one shell loop, its exit status not checked.
Purge == SudoWorks /\ OnTarget("purge", "tooling", [Target EXCEPT !.keys = FALSE])

\* Some file survives the loop, whose status is that of its last removal only,
\* and ignored where a password has the loop run again; or else sudo raises
\* (StepRaises).
PurgeIncomplete ==
    /\ pc = "purge" /\ pc' = "tooling"
    /\ power = "running" /\ SudoWorks
    /\ fault' = TRUE
    /\ UNCHANGED <<hostVars, sessionVars, mode, result, runs, history>>

\* sanitize_image, accounts and build tooling: no effect the properties tell apart.
Tooling == SudoWorks /\ OnTarget("tooling", "verifykeys", Target)

\* _verify_no_authorized_keys: `find ... || true' lists nothing if sudo refused it.
VerifyNoKeys ==
    /\ SudoRan => ~Target.keys
    /\ OnTarget("verifykeys", "optout", Target)
KeysSurvived ==
    /\ pc = "verifykeys"
    /\ SudoRan /\ Target.keys
    /\ Raise(FALSE)
    /\ UNCHANGED hostVars

\* arm_cloud_init: the opt-out is removed, cloud-init clean runs its hooks (which
\* delete drop-ins) with its status ignored, then the drop-ins are written.
RemoveOptout == SudoWorks /\ OnTarget("optout", "clean", [Target EXCEPT !.optout = FALSE])
CloudInitClean ==
    SudoWorks /\ OnTarget("clean", "dropins", [Target EXCEPT !.dropins = FALSE, !.instance = FALSE])

\* The clean fails: as with the purge, only a session without a password stops.
CleanFails ==
    /\ pc = "clean"
    /\ power = "running"
    /\ IF envSet
       THEN /\ pc' = "dropins" /\ fault' = TRUE
            /\ UNCHANGED <<mode, result, runs, history, sessionVars>>
       ELSE Raise(TRUE)
    /\ UNCHANGED hostVars

\* Mutant: the drop-ins are written before the clean, whose hooks delete them.
DropinsBeforeClean == SudoWorks /\ OnTarget("dropins", "verifyarmed", Target)

WriteDropins == SudoWorks /\ OnTarget("dropins", "verifyarmed", [Target EXCEPT !.dropins = TRUE])

\* Mutant: only the opt-out is verified.
ArmedIfNoOptout == ~Target.optout

\* _verify_cloud_init_armed: the opt-out is looked for without sudo, the drop-ins
\* are read with `cat ... || true'.
Armed == ~Target.optout /\ SudoRan /\ Target.dropins
VerifyArmed == Armed /\ OnTarget("verifyarmed", "powerdown", Target)
NotArmed ==
    /\ pc = "verifyarmed"
    /\ ~Armed
    /\ Raise(FALSE)
    /\ UNCHANGED hostVars

-----------------------------------------------------------------------------
(* The finally clause. *)

\* Mutant: restore_snapshot's exit status is not checked.
RestoreUnchecked ==
    /\ Goto("f_restore", "f_delete")
    /\ box' \in {box, Head(snaps)}
    /\ UNCHANGED <<other, power, snaps, ova>>

Restore ==
    /\ Goto("f_restore", "f_delete")
    /\ power = "off"
    /\ snaps # <<>>
    /\ box' = Head(snaps)
    /\ UNCHANGED <<other, power, snaps, ova>>

\* delete_snapshot's exit status is not checked.  The command ends.
Rollback ==
    /\ pc = "f_delete"
    /\ pc' = "idle"
    /\ result' = IF result = "fail" THEN "fail" ELSE "ok"
    /\ snaps' \in {snaps, Tail(snaps)}
    /\ UNCHANGED <<box, other, power, ova, sessionVars, mode, runs, fault, history>>

ExportDone ==
    /\ Export("x_export")
    /\ pc' = "idle"
    /\ result' = "ok"
    /\ UNCHANGED <<sessionVars, mode, runs, fault, history>>

-----------------------------------------------------------------------------
Hypervisor ==
    \/ PowerOff("poweroff", "snapdelete") \/ PowerOff("powerdown", "unlink")
    \/ PowerOff("f_poweroff", "f_restore") \/ PowerOff("x_poweroff", "x_unlink")
    \/ SnapshotDelete \/ SnapshotTake \/ StartHeadless
    \/ ExportUnlink("unlink", "export") \/ ExportUnlink("x_unlink", "x_export")
    \/ Export("export") /\ Goto("export", "f_poweroff")
    \/ ExportRaises \/ ExportDone \/ Restore \/ Rollback

Session ==
    \/ Reach \/ ReachOther \/ ReachTimesOut \/ Bake \/ Purge \/ PurgeIncomplete \/ Tooling
    \/ VerifyNoKeys \/ KeysSurvived \/ RemoveOptout \/ CloudInitClean \/ CleanFails
    \/ WriteDropins \/ VerifyArmed \/ NotArmed
    \/ \E p \in {"bake", "purge", "tooling", "optout", "clean", "dropins"} : SudoRefused(p)

Next == CmdTemplate \/ StepRaises \/ Killed \/ Hypervisor \/ Session

Spec == Init /\ [][Next]_vars

-----------------------------------------------------------------------------
(* Properties. *)

\* Every variable keeps its type.
TypeOK ==
    /\ box \in Disks
    /\ power \in {"off", "running"}
    /\ snaps \in Seq(Disks)
    /\ ova \in [kind: {"none", "partial", "whole"}, disk: Disks, by: {"build", "elsewhere", "asis"}]
    /\ other \in Disks /\ away \in BOOLEAN
    /\ sudoers \in BOOLEAN
    /\ envSet \in BOOLEAN
    /\ pc \in Pcs
    /\ mode \in {"build", "asis"}
    /\ result \in {"none", "ok", "fail", "killed"}
    /\ runs \in 0..MaxRuns
    /\ before \in Disks
    /\ fault \in BOOLEAN
    /\ left \in Seq(Disks)

\* sanitize_image's and arm_cloud_init's promise: an appliance exported by a build
\* whose session was on the box carries no login and will read its seed, even where
\* a purge failed silently or sudo made a verification blind; and it has forgotten
\* the instance it was, unless a sudo password let the failure of the clean go
\* unnoticed.  (A build whose session was elsewhere exports the box as it was:
\* NoKeysPublished.)
PublishedImageClean ==
    ova.kind = "whole" /\ ova.by = "build" =>
      /\ ova.disk.baked /\ ~ova.disk.keys /\ ~ova.disk.optout /\ ova.disk.dropins
      /\ ova.disk.instance => envSet

\* Whatever raises, wherever the process is killed, whichever of its unchecked
\* deletions fail: until the next command the state the box had before this build
\* is on the box or in a snapshot.
PriorStateRecoverable ==
    mode = "build" => box = before \/ \E i \in DOMAIN snaps : snaps[i] = before

\* What restore_snapshot gives: the oldest snapshot of the name, so the state before
\* the build unless take_snapshot's unchecked deletion left an older one.
RolledBackTo == IF left = <<>> THEN before ELSE Head(left)

\* build_golden_template returned: the box is off and exactly what it was or, where
\* an older snapshot of the name could not be deleted, exactly what that one holds;
\* nothing of the build is on it (the finally clause).
SuccessMeansRolledBack ==
    pc = "idle" /\ result = "ok" /\ mode = "build" => box = RolledBackTo /\ power = "off"

\* A build on a box with keys and passwordless sudo, in which nothing goes wrong
\* of its own accord, is not refused by its own verifications.
NoSpuriousFailure ==
    result = "fail" /\ before.keys /\ sudoers => fault

-----------------------------------------------------------------------------
(* The inductive invariant behind them, by part. *)

ArmedPcs == {"powerdown", "unlink", "export"}

\* Which steps belong to which mode, and how the command may have fared so far.
ControlInv ==
    /\ pc \in PrePcs \union TryPcs \union FinallyPcs => mode = "build"
    /\ pc \in ExportPcs => mode = "asis"
    /\ pc \in PrePcs \union TryPcs \union ExportPcs => result = "none"
    /\ pc \in FinallyPcs => result \in {"none", "fail"}

\* How far the session's disk has come towards the image that may be exported.
DiskInv ==
    /\ pc \in PrePcs \union {"start"} => box = before
    /\ pc \in PrePcs \union ExportPcs \union {"start", "reach"} => ~away
    /\ pc = "reach" => box.keys = before.keys
    /\ pc \in TryPcs \ {"start", "reach", "bake"} => Target.baked
    /\ pc \in {"tooling", "verifykeys"} => fault \/ ~Target.keys
    /\ pc \in {"optout", "clean", "dropins", "verifyarmed"} \union ArmedPcs /\ SudoRan => ~Target.keys
    /\ pc \in {"clean", "dropins", "verifyarmed"} \union ArmedPcs => ~Target.optout
    /\ pc \in {"verifyarmed"} \union ArmedPcs => Target.dropins
    /\ pc \in ArmedPcs => SudoRan
    /\ pc \in {"dropins", "verifyarmed"} \union ArmedPcs /\ Target.instance => envSet

\* The newest snapshot holds the prior state while the disk may not.
RollbackInv ==
    /\ pc = "snaptake" => snaps = left
    /\ pc \in TryPcs \union FinallyPcs => snaps = Append(left, before)
    /\ pc = "f_delete" => box = RolledBackTo
    /\ pc \in {"f_restore", "f_delete"} => power = "off"

IInv ==
    TypeOK /\ ControlInv /\ DiskInv /\ RollbackInv /\ PublishedImageClean
    /\ PriorStateRecoverable /\ SuccessMeansRolledBack /\ NoSpuriousFailure

-----------------------------------------------------------------------------
(* What the documentation says, and the code does not keep. *)

\* README.md: "The template box is never altered by a build" -- the state it had
\* before the first build is still on the box or in a snapshot.
PristineNeverLost ==
    box = Pristine \/ \E i \in DOMAIN snaps : snaps[i] = Pristine

\* ssh_client.py and README.md: RemoteHost.sudo falls back to the password, so a
\* box whose sudo asks for one can be built from as well.
PasswordIsEnough ==
    result = "fail" /\ before.keys /\ envSet => fault

\* arm_cloud_init: it "clears the recorded instance so the next boot is treated as
\* a first boot", and raises "If the image cannot be armed, verified after the
\* fact" -- an appliance a build exported records no instance.
PublishedForgetsInstance ==
    ova.kind = "whole" /\ ova.by = "build" => ~ova.disk.instance

\* README.md: "`template` snapshots it first and **rolls back** after export", and
\* build_golden_template: "Always return the working box to its pre-build state".
AlwaysRolledBack ==
    pc = "idle" /\ result = "ok" /\ mode = "build" => box = before

\* sanitize_image: "it must carry no credentials at all" -- whatever guest the
\* session of the build was on.
NoKeysPublished ==
    ova.kind = "whole" /\ ova.by # "asis" => ~ova.disk.keys
================================================================================
