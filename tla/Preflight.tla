-------------------------------- MODULE Preflight --------------------------------
(***************************************************************************)
(* run_preflight, as the preflight and the deploy command run it, perhaps  *)
(* at the same time: six checks of a host that others change meanwhile.    *)
(* Each check appends its verdict; an exception none of them catches ends  *)
(* the command.                                                            *)
(***************************************************************************)
EXTENDS Integers, Sequences, FiniteSets

CONSTANTS
    Procs,          \* commands that run the checks
    Guests, MemoryMb, HeadroomMb,   \* len(all_hosts), memory_mb, _HOST_RAM_HEADROOM_MB
    DefaultGb,      \* a guest's disk where there is no appliance to measure
    RamValues, DiskValues, OvaSizes,    \* what the host may have, 0 for no appliance
    MaxChanges      \* bound: changes of the host

Unknown == -1
Measured(values) == values \cup {Unknown}
Slack == 13         \* _DISK_SLACK, in tenths

PreflightAssumption ==
    /\ Guests \in Nat /\ MemoryMb \in Nat /\ HeadroomMb \in Nat /\ DefaultGb \in Nat
    /\ RamValues \cup DiskValues \subseteq Nat
    /\ OvaSizes \subseteq Nat /\ MaxChanges \in Nat

\* VBoxManage is absent, works, exits with an error, or does not answer (the
\* same to its wrapper as a file that cannot be executed); the machine folder is
\* on a drive of its own; ova is the appliance's size, 0 for none.
HostStates ==
    [vbox : {"absent", "ok", "failing", "hanging"}, key : BOOLEAN, writable : BOOLEAN,
     ram : Measured(RamValues), vmDrive : Measured(DiskValues), ovaDrive : Measured(DiskValues),
     ova : OvaSizes, template : BOOLEAN]

Status == {"PASS", "WARN", "FAIL"}
Pcs == {"vboxmanage", "ssh_key", "key_dir", "unlink", "ram", "folder", "disk", "disk_stat",
        "template", "template_stat", "done", "raised"}

VARIABLES
    host,
    probe,      \* whether .vmdeploy-write-test exists
    pc, results,
    drive,      \* the drive check_host_disk measures
    quiet,      \* history: neither the host nor the probe changed since the command began
    changes     \* history: changes so far

vars == <<host, probe, pc, results, drive, quiet, changes>>

Init ==
    /\ host \in HostStates
    /\ probe = FALSE
    /\ pc = [p \in Procs |-> "vboxmanage"]
    /\ results = [p \in Procs |-> <<>>]
    /\ drive = [p \in Procs |-> "vmDrive"]
    /\ quiet = [p \in Procs |-> TRUE]
    /\ changes = 0

Goto(p, where) == pc' = [pc EXCEPT ![p] = where]
Report(p, status, where) ==
    Goto(p, where) /\ results' = [results EXCEPT ![p] = Append(@, status)]
Raise(p) == Goto(p, "raised") /\ UNCHANGED results
others == <<host, drive, quiet, changes>>

-----------------------------------------------------------------------------
(* The checks. *)

\* check_vboxmanage.  The wrapper turns every failure into VirtualBoxError, which
\* is neither of the exceptions the check catches.
CheckVBoxManage(p) ==
    /\ pc[p] = "vboxmanage"
    /\ CASE host.vbox = "absent" -> Report(p, "FAIL", "ssh_key")
         [] host.vbox = "ok" -> Report(p, "PASS", "ssh_key")
         [] OTHER -> Raise(p)
    /\ UNCHANGED <<probe, others>>

CheckSshKey(p) ==
    /\ pc[p] = "ssh_key"
    /\ Report(p, IF host.key THEN "PASS" ELSE "FAIL", "key_dir")
    /\ UNCHANGED <<probe, others>>

\* check_key_directory_writable writes a probe
WriteProbe(p) ==
    /\ pc[p] = "key_dir"
    /\ IF host.writable THEN Goto(p, "unlink") /\ probe' = TRUE /\ UNCHANGED results
                        ELSE Report(p, "FAIL", "ram") /\ UNCHANGED probe
    /\ UNCHANGED others

\* and removes it; one that another command removed is an OSError like any other.
UnlinkProbe(p) ==
    /\ pc[p] = "unlink"
    /\ IF probe /\ host.writable THEN Report(p, "PASS", "ram") /\ probe' = FALSE
                                 ELSE Report(p, "FAIL", "ram") /\ UNCHANGED probe
    /\ quiet' = [q \in Procs |-> quiet[q] /\ (q # p => pc[q] # "unlink")]
    /\ UNCHANGED <<host, drive, changes>>

\* Mutant: the headroom is asked for each guest.
RamStatusEach(ram) ==
    CASE ram = Unknown -> "WARN"
      [] ram >= Guests * (MemoryMb + HeadroomMb) -> "PASS"
      [] ram # Unknown /\ ram < Guests * (MemoryMb + HeadroomMb) -> "FAIL"

\* check_host_ram: enough with the headroom, without it, or not.
RamStatus(ram) ==
    CASE ram = Unknown -> "WARN"
      [] ram # Unknown /\ ram >= Guests * MemoryMb + HeadroomMb -> "PASS"
      [] ram # Unknown /\ ram < Guests * MemoryMb + HeadroomMb ->
            IF ram >= Guests * MemoryMb THEN "WARN" ELSE "FAIL"

CheckHostRam(p) ==
    /\ pc[p] = "ram"
    /\ Report(p, RamStatus(host.ram), "folder")
    /\ UNCHANGED <<probe, others>>

\* Mutant: the machine folder is asked for although there is no VBoxManage.
FindFolderAlways(p) ==
    /\ pc[p] = "folder"
    /\ IF host.vbox \in {"absent", "hanging"} THEN Raise(p) ELSE Goto(p, "disk") /\ UNCHANGED results
    /\ drive' = [drive EXCEPT ![p] = IF host.vbox = "ok" THEN "vmDrive" ELSE "ovaDrive"]
    /\ UNCHANGED <<host, probe, quiet, changes>>

\* check_host_disk up to the directory it measures: the machine folder where
\* VBoxManage names it (which check=False lets it fail to do, but not to hang),
\* otherwise the appliance's directory.
FindFolder(p) ==
    /\ pc[p] = "folder"
    /\ IF host.vbox = "hanging" THEN Raise(p) ELSE Goto(p, "disk") /\ UNCHANGED results
    /\ drive' = [drive EXCEPT ![p] = IF host.vbox = "ok" THEN "vmDrive" ELSE "ovaDrive"]
    /\ UNCHANGED <<host, probe, quiet, changes>>

Fits(free, perGuest) == 10 * free >= Slack * Guests * perGuest
DiskStatus(p, perGuest) == IF Fits(host[drive[p]], perGuest) THEN "PASS" ELSE "FAIL"

\* disk_usage, then ova.is_file().
MeasureDisk(p) ==
    /\ pc[p] = "disk"
    /\ CASE host[drive[p]] = Unknown -> Report(p, "WARN", "template")
         [] host[drive[p]] # Unknown /\ host.ova = 0 ->
                Report(p, DiskStatus(p, DefaultGb), "template")
         [] host[drive[p]] # Unknown /\ host.ova > 0 -> Goto(p, "disk_stat") /\ UNCHANGED results
    /\ UNCHANGED <<probe, others>>

\* ova.stat(), of a file that may be gone.
StatOvaForDisk(p) ==
    /\ pc[p] = "disk_stat"
    /\ IF host.ova = 0 THEN Raise(p) ELSE Report(p, DiskStatus(p, host.ova), "template")
    /\ UNCHANGED <<probe, others>>

\* check_template_or_ova: the appliance, or a registered template to build it from.
CheckTemplateOrOva(p) ==
    /\ pc[p] = "template"
    /\ CASE host.ova > 0 -> Goto(p, "template_stat") /\ UNCHANGED results
         [] host.ova = 0 /\ host.vbox = "absent" -> Report(p, "FAIL", "done")
         [] host.ova = 0 /\ host.vbox = "ok" ->
                Report(p, IF host.template THEN "WARN" ELSE "FAIL", "done")
         [] host.ova = 0 /\ host.vbox \in {"failing", "hanging"} -> Raise(p)
    /\ UNCHANGED <<probe, others>>

StatOvaForReport(p) ==
    /\ pc[p] = "template_stat"
    /\ IF host.ova = 0 THEN Raise(p) ELSE Report(p, "PASS", "done")
    /\ UNCHANGED <<probe, others>>

WorstStatus(rs) ==
    LET statuses == {rs[i] : i \in DOMAIN rs}
    IN  IF "FAIL" \in statuses THEN "FAIL" ELSE IF "WARN" \in statuses THEN "WARN" ELSE "PASS"

\* Memory, disks and files change, VBoxManage stops answering (external).
HostChanges ==
    /\ changes < MaxChanges
    /\ changes' = changes + 1
    /\ \/ \E v \in {"ok", "failing", "hanging"} \ {host.vbox} : host' = [host EXCEPT !.vbox = v]
       \/ \E r \in Measured(RamValues) \ {host.ram} : host' = [host EXCEPT !.ram = r]
       \/ \E s \in OvaSizes \ {host.ova} : host' = [host EXCEPT !.ova = s]
    /\ quiet' = [p \in Procs |-> quiet[p] /\ pc[p] = "vboxmanage"]
    /\ UNCHANGED <<probe, pc, results, drive>>

Step(p) ==
    \/ CheckVBoxManage(p) \/ CheckSshKey(p) \/ WriteProbe(p) \/ UnlinkProbe(p) \/ CheckHostRam(p)
    \/ FindFolder(p) \/ MeasureDisk(p) \/ StatOvaForDisk(p)
    \/ CheckTemplateOrOva(p) \/ StatOvaForReport(p)

Next == HostChanges \/ \E p \in Procs : Step(p)

Spec == Init /\ [][Next]_vars

-----------------------------------------------------------------------------
(* Properties. *)

\* Each command has one verdict per check it has come past, and a probe file
\* exists while a command is between writing and removing it, at most.
TypeOK ==
    /\ host \in HostStates /\ probe \in BOOLEAN /\ pc \in [Procs -> Pcs] /\ quiet \in [Procs -> BOOLEAN]
    /\ changes \in 0..MaxChanges
    /\ results \in [Procs -> Seq(Status)] /\ drive \in [Procs -> {"vmDrive", "ovaDrive"}]
    /\ \A p \in Procs : Len(results[p]) <= 6 /\ (pc[p] = "done" => Len(results[p]) = 6)
    /\ probe => \E p \in Procs : pc[p] = "unlink"

ShortOfRam == host.ram # Unknown /\ host.ram < Guests * MemoryMb
ShortOfDisk ==
    LET perGuest == IF host.ova > 0 THEN host.ova ELSE DefaultGb
        free == IF host.vbox = "ok" THEN host.vmDrive ELSE host.ovaDrive
    IN  free # Unknown /\ 10 * free < 13 * Guests * perGuest
NothingToClone == host.ova = 0 /\ ~host.template

\* What a deployment needs of the host, where it can be known.
Blocked ==
    \/ host.vbox # "ok" \/ ~host.key \/ ~host.writable
    \/ ShortOfRam \/ ShortOfDisk \/ NothingToClone

\* On a host that nobody changed meanwhile, the checks refuse a deployment
\* exactly where it is blocked: tight memory, a measurement that is not to be had
\* and an appliance still to be built only warn, and a second command's probe of
\* the same directory does not make a difference unless it was removed in between
\* (run_preflight, worst_status, cmd_deploy).
VerdictRight ==
    \A p \in Procs : pc[p] = "done" /\ quiet[p] =>
        (WorstStatus(results[p]) = "FAIL" <=> Blocked)

\* On a host that nobody changed meanwhile, the checks end in an exception only
\* where there is a VBoxManage and running it fails: whatever tools and files are
\* missing is reported.
CrashExplained ==
    \A p \in Procs : pc[p] = "raised" /\ quiet[p] => host.vbox \in {"failing", "hanging"}

\* The two together.
VerdictExplained == VerdictRight /\ CrashExplained

Failed(rs) == \E i \in DOMAIN rs : rs[i] = "FAIL"

\* What the checks a command has come past would find on the host as it is.
FailsSoFar(p) ==
    \/ pc[p] # "vboxmanage" /\ host.vbox # "ok"
    \/ pc[p] \notin {"vboxmanage", "ssh_key"} /\ ~host.key
    \/ pc[p] \notin {"vboxmanage", "ssh_key", "key_dir", "unlink"} /\ ~host.writable
    \/ pc[p] \in {"folder", "disk", "disk_stat", "template", "template_stat", "done"} /\ ShortOfRam
    \/ pc[p] \in {"template", "template_stat", "done"} /\ ShortOfDisk
    \/ pc[p] = "done" /\ NothingToClone

\* One verdict per check a command has come past.
VerdictsInv(p) ==
    /\ pc[p] = "vboxmanage" => Len(results[p]) = 0
    /\ pc[p] = "ssh_key" => Len(results[p]) = 1
    /\ pc[p] \in {"key_dir", "unlink"} => Len(results[p]) = 2
    /\ pc[p] = "ram" => Len(results[p]) = 3
    /\ pc[p] \in {"folder", "disk", "disk_stat"} => Len(results[p]) = 4
    /\ pc[p] \in {"template", "template_stat"} => Len(results[p]) = 5
    /\ pc[p] = "done" => Len(results[p]) = 6
    /\ pc[p] = "raised" => Len(results[p]) <= 5

\* On a host that nobody changed meanwhile, a command knows what is still true of it, and its
\* verdicts are those of the host as it is.
QuietInv(p) ==
    quiet[p] =>
      /\ pc[p] \notin {"vboxmanage", "raised"} => host.vbox \in {"absent", "ok"}
      /\ pc[p] = "unlink" => probe
      /\ pc[p] \in {"disk", "disk_stat"} =>
            drive[p] = IF host.vbox = "ok" THEN "vmDrive" ELSE "ovaDrive"
      /\ pc[p] = "disk_stat" => host[drive[p]] # Unknown
      /\ pc[p] \in {"disk_stat", "template_stat"} => host.ova > 0
      /\ pc[p] # "raised" => (Failed(results[p]) <=> FailsSoFar(p))
      /\ pc[p] = "raised" => host.vbox \in {"failing", "hanging"}

\* The inductive invariant.
IInv ==
    /\ TypeOK /\ (probe => host.writable)
    /\ \A p \in Procs : VerdictsInv(p) /\ QuietInv(p)

-----------------------------------------------------------------------------
(* What the documentation says, and the code does not keep. *)

\* "a check whose inputs cannot be read is reported as a warning rather than
\* crashing the run" (module docstring of preflight.py).
NeverCrashes == \A p \in Procs : pc[p] # "raised"
=============================================================================
