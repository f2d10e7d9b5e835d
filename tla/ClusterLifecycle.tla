---------------------------- MODULE ClusterLifecycle ----------------------------
(***************************************************************************)
(* The lifecycle commands of vmdeploy -- deploy, provision, configure and  *)
(* teardown -- over the cluster's guests, the golden appliance they are    *)
(* imported from and the local manifest that is to remember them.  A       *)
(* command is a sequence of steps; any step may raise, the process may be  *)
(* killed between any two, guests boot, stop and start on their own, and   *)
(* the operator may follow any command with any other.                     *)
(*                                                                         *)
(* A guest is described by how far it has come: registered, booted under   *)
(* its own identity, and which host's vhost, page, service and datastore   *)
(* the configuration put on it.  An address is the guest that answers it:  *)
(* the DNS fallback of wait_for_guest_ip may name another guest's.         *)
(***************************************************************************)
EXTENDS Naturals, Sequences

CONSTANTS
    Jump,       \* the jump station
    Backends,   \* the backends, in configuration order
    NoHost,
    MaxRuns     \* bound: commands in one behaviour

\* ClusterConfig.all_hosts: jump station first.
AllHosts == <<Jump>> \o Backends
Last == Len(AllHosts)
Hosts == {AllHosts[i] : i \in 1..Last}

ASSUME HostsAssumption ==
    /\ Backends \in Seq(Hosts)
    /\ \A i, j \in 1..Last : AllHosts[i] = AllHosts[j] => i = j
    /\ NoHost \notin Hosts
ASSUME MaxRunsAssumption == MaxRuns \in Nat

Attempts == 3       \* destroy's default

\* A machine that VirtualBox reports as paused, saved, aborted or in a state of another
\* name is not modelled: every test of the code is whether it is absent or running.
Guests ==
    [vm: {"absent", "off", "running"}, boot: {"blank", "unique", "unseeded"}, seed: BOOLEAN,
     vhost: Hosts \union {NoHost}, page: Hosts \union {NoHost}, service: BOOLEAN, store: BOOLEAN]

Absent ==
    [vm |-> "absent", boot |-> "blank", seed |-> FALSE,
     vhost |-> NoHost, page |-> NoHost, service |-> FALSE, store |-> FALSE]
Clone == [Absent EXCEPT !.vm = "off"]

Statuses == {"none", "Deployed", "Removed"}
NoManifest == [kind |-> "missing", status |-> [h \in Hosts |-> "none"]]
TornManifest == [NoManifest EXCEPT !.kind = "torn"]
Manifest(s) == [kind |-> "whole", status |-> [h \in Hosts |-> s]]

VARIABLES
    guests,     \* per host: its virtual machine
    ova,        \* what is at the template_ova path
    manifest,   \* the encrypted manifest on the automation host
    cmd,        \* the command running, or the last one
    pc,         \* its next step
    k,          \* the host of AllHosts it is at
    attempt,    \* destroy: the delete attempt it is at
    addr,       \* per host: the guest behind the address found for it
    result,     \* how the last command ended
    runs,       \* commands so far
    fault       \* history: a step of this command failed of its own accord

world == <<guests, ova, manifest>>
locals == <<k, attempt, addr>>
vars == <<world, cmd, pc, locals, result, runs, fault>>

DestroyPcs == {"exists", "poweroff", "unregister"}
ProvisionPcs == DestroyPcs \union {"import", "seed", "start", "address", "ssh"}
ConfigurePcs == {"addresses", "vhost", "page", "balancer", "service", "store", "ready"}
ManifestPcs == {"mark", "truncate", "write"}
Pcs == {"idle", "preflight", "template"} \union ProvisionPcs \union ConfigurePcs \union ManifestPcs

Here == AllHosts[k]
NoAddresses == [h \in Hosts |-> NoHost]

Init ==
    /\ guests = [h \in Hosts |-> Absent]
    /\ ova \in {"none", "whole"}
    /\ manifest = NoManifest
    /\ cmd = "teardown"
    /\ pc = "idle"
    /\ k = 1
    /\ attempt = 1
    /\ addr = NoAddresses
    /\ result = "none"
    /\ runs = 0
    /\ fault = FALSE

-----------------------------------------------------------------------------
(* Control. *)

Goto(from, to) ==
    /\ pc = from
    /\ pc' = to
    /\ UNCHANGED <<cmd, result, runs, fault>>

End(how) ==
    /\ pc' = "idle"
    /\ result' = how
    /\ UNCHANGED <<cmd, locals, runs>>

\* main: a VmDeployError or Ctrl-C ends the command with a failure.
Raise(isFault) == End("fail") /\ fault' = (fault \/ isFault)

\* The operator types a command.
Command ==
    /\ pc = "idle"
    /\ runs < MaxRuns
    /\ runs' = runs + 1
    /\ \/ cmd' = "deploy" /\ pc' = "preflight"
       \/ cmd' = "provision" /\ pc' = "exists"
       \/ cmd' = "configure" /\ pc' = "addresses"
       \/ cmd' = "teardown" /\ pc' = "exists"
    /\ k' = 1
    /\ attempt' = 1
    /\ addr' = NoAddresses
    /\ result' = "none"
    /\ fault' = FALSE
    /\ UNCHANGED world

\* teardown without --yes only says what it would delete.
TeardownUnconfirmed ==
    /\ pc = "idle"
    /\ runs < MaxRuns
    /\ runs' = runs + 1
    /\ cmd' = "teardown"
    /\ result' = "refused"
    /\ fault' = FALSE
    /\ UNCHANGED <<world, pc, locals>>

\* A step raises before its effect: VBoxManage, SSH, a timeout, or Ctrl-C.
StepRaises ==
    /\ pc # "idle"
    /\ Raise(TRUE)
    /\ UNCHANGED world

Killed ==
    /\ pc # "idle"
    /\ End("killed")
    /\ UNCHANGED <<world, fault>>

-----------------------------------------------------------------------------
(* What guests do on their own. *)

\* cloud-init's first boot: the seed gives the clone its identity; without one,
\* or if applying it fails, the clone comes up under the template's.
FirstBoot(h) ==
    /\ guests[h].vm = "running" /\ guests[h].boot = "blank"
    /\ \E b \in {"unique", "unseeded"} :
         /\ b = "unique" => guests[h].seed
         /\ guests' = [guests EXCEPT ![h].boot = b]
    /\ UNCHANGED <<ova, manifest, cmd, pc, locals, result, runs, fault>>

GuestStops(h) ==
    /\ guests[h].vm = "running"
    /\ guests' = [guests EXCEPT ![h].vm = "off"]
    /\ UNCHANGED <<ova, manifest, cmd, pc, locals, result, runs, fault>>

GuestStartsAgain(h) ==
    /\ guests[h].vm = "off" /\ guests[h].boot # "blank"
    /\ guests' = [guests EXCEPT ![h].vm = "running"]
    /\ UNCHANGED <<ova, manifest, cmd, pc, locals, result, runs, fault>>

-----------------------------------------------------------------------------
(* cmd_deploy: preflight, then the golden template (see GoldenTemplate).   *)

Preflight == Goto("preflight", "template") /\ UNCHANGED <<world, locals>>

PreflightFails == pc = "preflight" /\ End("refused") /\ UNCHANGED <<world, fault>>

Template ==
    /\ Goto("template", "exists")
    /\ ova' = "whole"
    /\ UNCHANGED <<guests, manifest, locals>>

\* The export deletes the old appliance first and may leave part of the new one.
TemplateRaises ==
    /\ pc = "template"
    /\ ova' \in {"none", "partial"}
    /\ Raise(TRUE)
    /\ UNCHANGED <<guests, manifest>>

-----------------------------------------------------------------------------
(* VBoxManage.destroy, for teardown_cluster and at the start of            *)
(* provision_host.                                                         *)

\* Mutant: teardown_cluster's loop ends one host early.
DestroyedOneShort ==
    /\ IF cmd # "teardown" THEN pc' = "import" /\ UNCHANGED k
       ELSE IF k + 1 < Last THEN pc' = "exists" /\ k' = k + 1
       ELSE pc' = "mark" /\ UNCHANGED k
    /\ UNCHANGED <<cmd, addr, result, runs>>

\* destroy has returned: teardown_cluster's loop goes on, provision_host imports.
Destroyed ==
    /\ IF cmd # "teardown" THEN pc' = "import" /\ UNCHANGED k
       ELSE IF k < Last THEN pc' = "exists" /\ k' = k + 1
       ELSE pc' = "mark" /\ UNCHANGED k
    /\ UNCHANGED <<cmd, addr, result, runs>>

\* Mutant: an absent machine is an error.
AbsentIsError ==
    /\ pc = "exists"
    /\ guests[Here].vm = "absent"
    /\ Raise(FALSE)
    /\ UNCHANGED world

NothingToDestroy ==
    /\ pc = "exists"
    /\ guests[Here].vm = "absent"
    /\ Destroyed
    /\ UNCHANGED <<world, attempt, fault>>

Registered ==
    /\ Goto("exists", "poweroff")
    /\ guests[Here].vm # "absent"
    /\ UNCHANGED <<world, locals>>

\* power_off: ACPI, then force; a machine that survives both raises.
PowerOff ==
    /\ Goto("poweroff", "unregister")
    /\ guests' = [guests EXCEPT ![Here].vm = "off"]
    /\ attempt' = 1
    /\ UNCHANGED <<ova, manifest, k, addr>>

\* state() reads a failed query as ABSENT, so power_off leaves the machine alone.
PowerOffSkipped ==
    /\ pc = "poweroff"
    /\ guests[Here].vm = "running"
    /\ pc' = "unregister"
    /\ fault' = TRUE
    /\ attempt' = 1
    /\ UNCHANGED <<world, k, addr, cmd, result, runs>>

Unregister ==
    /\ pc = "unregister"
    /\ guests[Here].vm = "off"
    /\ guests' = [guests EXCEPT ![Here] = Absent]
    /\ Destroyed
    /\ UNCHANGED <<ova, manifest, attempt, fault>>

\* Mutant: one attempt too many.
UnregisterOneMore ==
    /\ pc = "unregister"
    /\ IF attempt <= Attempts
       THEN /\ attempt' = attempt + 1
            /\ fault' = TRUE
            /\ UNCHANGED <<pc, k, addr, cmd, result, runs>>
       ELSE Raise(TRUE)
    /\ UNCHANGED world

\* Mutant: after the last attempt the loop falls through instead of raising.
UnregisterUnverified ==
    /\ pc = "unregister"
    /\ IF attempt < Attempts
       THEN /\ attempt' = attempt + 1
            /\ UNCHANGED <<pc, k, addr, cmd, result, runs>>
       ELSE Destroyed /\ UNCHANGED attempt
    /\ fault' = TRUE
    /\ UNCHANGED world

\* The machine is still listed after the delete: locked, or still running.
UnregisterFails ==
    /\ pc = "unregister"
    /\ IF attempt < Attempts
       THEN /\ attempt' = attempt + 1
            /\ fault' = TRUE
            /\ UNCHANGED <<pc, k, addr, cmd, result, runs>>
       ELSE Raise(TRUE)
    /\ UNCHANGED world

-----------------------------------------------------------------------------
(* provision_cluster: provision_host for each host in turn. *)

Import ==
    /\ Goto("import", "seed")
    /\ ova = "whole"
    /\ guests' = [guests EXCEPT ![Here] = Clone]
    /\ UNCHANGED <<ova, manifest, locals>>

\* No appliance, or part of one; a failed import may leave a machine behind.
ImportFails ==
    /\ pc = "import"
    /\ Raise(ova = "whole")
    /\ guests' \in {guests} \union
         (IF ova = "none" THEN {} ELSE {[guests EXCEPT ![Here] = Clone]})
    /\ UNCHANGED <<ova, manifest>>

\* Size, bridge, and the seed in the drive, before the machine ever starts.
AttachSeed ==
    /\ Goto("seed", "start")
    /\ guests' = [guests EXCEPT ![Here].seed = TRUE]
    /\ UNCHANGED <<ova, manifest, locals>>

StartHeadless ==
    /\ Goto("start", "address")
    /\ guests' = [guests EXCEPT ![Here].vm = "running"]
    /\ UNCHANGED <<ova, manifest, locals>>

\* wait_for_guest_ip: the Guest Additions report the guest's own address; DNS may
\* still hold the name's earlier lease, which another guest has by now.
GuestAddress ==
    /\ Goto("address", "ssh")
    /\ \E g \in Hosts : addr' = [addr EXCEPT ![Here] = g]
    /\ UNCHANGED <<world, k, attempt>>

\* The guest behind the address, once it lets the session in and cloud-init is done.
Reached == guests[addr[Here]].vm = "running" /\ guests[addr[Here]].boot # "blank"

\* Mutant: the hostname is not compared.
SomeGuestIsUp == guests[addr[Here]].boot = "unique"

\* _wait_for_cloud_init reports done and the hostname is the one asked for.
IsItself == addr[Here] = Here /\ guests[Here].boot = "unique"

Individualised ==
    /\ pc = "ssh"
    /\ Reached /\ IsItself
    /\ \/ k < Last /\ k' = k + 1 /\ pc' = "exists" /\ UNCHANGED <<addr, result>>
       \/ k = Last /\ cmd = "provision" /\ pc' = "idle" /\ result' = "ok" /\ UNCHANGED <<k, addr>>
       \/ k = Last /\ cmd = "deploy" /\ pc' = "addresses" /\ k' = 1 /\ addr' = NoAddresses
          /\ UNCHANGED result
    /\ UNCHANGED <<world, attempt, cmd, runs, fault>>

NotIndividualised ==
    /\ pc = "ssh"
    /\ Reached /\ ~IsItself
    /\ Raise(FALSE)
    /\ UNCHANGED world

-----------------------------------------------------------------------------
(* cmd_configure. *)

\* cluster_addresses: every guest is running and an address is found for each.
Addresses ==
    /\ Goto("addresses", IF Last = 1 THEN "balancer" ELSE "vhost")
    /\ \A h \in Hosts : guests[h].vm = "running"
    /\ addr' \in [Hosts -> Hosts]
    /\ k' = IF Last = 1 THEN 1 ELSE 2
    /\ UNCHANGED <<world, attempt>>

AddressesMissing ==
    /\ pc = "addresses"
    /\ \E h \in Hosts : guests[h].vm # "running"
    /\ Raise(FALSE)
    /\ UNCHANGED world

\* A session to the guest behind h's address.
OnGuest(h, new) ==
    /\ guests[addr[h]].vm = "running"
    /\ guests' = [guests EXCEPT ![addr[h]] = new]
    /\ UNCHANGED <<ova, manifest>>

ConfigureBackend ==
    /\ Goto("vhost", "page")
    /\ OnGuest(Here, [guests[addr[Here]] EXCEPT !.vhost = Here])
    /\ UNCHANGED locals

PublishSite ==
    /\ Goto("page", IF k < Last THEN "vhost" ELSE "balancer")
    /\ OnGuest(Here, [guests[addr[Here]] EXCEPT !.page = Here])
    /\ k' = IF k < Last THEN k + 1 ELSE k
    /\ UNCHANGED <<attempt, addr>>

ConfigureBalancer ==
    /\ Goto("balancer", "service")
    /\ OnGuest(Jump, [guests[addr[Jump]] EXCEPT !.vhost = Jump])
    /\ UNCHANGED locals

DeployService ==
    /\ Goto("service", "store")
    /\ OnGuest(Jump, [guests[addr[Jump]] EXCEPT !.service = TRUE])
    /\ UNCHANGED locals

\* Mutant: a failed upload of the datastore goes unnoticed.
SeedInventoryUnchecked ==
    /\ Goto("store", "truncate")
    /\ UNCHANGED <<world, locals>>

\* seed_inventory up to the service's restart (see SeededInventory).
SeedInventory ==
    /\ Goto("store", "truncate")
    /\ OnGuest(Jump, [guests[addr[Jump]] EXCEPT !.store = TRUE])
    /\ UNCHANGED locals

\* wait_for_cluster_ready: the balancer and the service answer at the jump address.
ClusterReady ==
    /\ pc = "ready"
    /\ LET g == guests[addr[Jump]] IN g.vm = "running" /\ g.vhost = Jump /\ g.service
    /\ End("ok")
    /\ UNCHANGED <<world, fault>>

-----------------------------------------------------------------------------
(* The manifest: read, decrypted, and rewritten in place by write_bytes,   *)
(* which truncates before it writes.                                       *)

\* mark_manifest_removed reads what is there; a missing manifest has no records.
ReadManifest ==
    /\ Goto("mark", "truncate")
    /\ manifest.kind # "torn"
    /\ UNCHANGED <<world, locals>>

\* Undecryptable: cmd_teardown logs a warning and succeeds.
ManifestUnreadable ==
    /\ pc = "mark"
    /\ manifest.kind = "torn"
    /\ End("ok")
    /\ UNCHANGED <<world, fault>>

\* Any other InventoryError of mark_manifest_removed (no key, a full disk) is
\* swallowed in the same way.
ManifestErrorSwallowed ==
    /\ cmd = "teardown" /\ pc \in ManifestPcs
    /\ End("ok")
    /\ fault' = TRUE
    /\ UNCHANGED world

TruncateManifest ==
    /\ Goto("truncate", "write")
    /\ manifest' = TornManifest
    /\ UNCHANGED <<guests, ova, locals>>

\* Every host has an address by now, so build_records says Deployed of each.
WriteDeployed ==
    /\ Goto("write", "ready")
    /\ cmd # "teardown"
    /\ manifest' = Manifest("Deployed")
    /\ UNCHANGED <<guests, ova, locals>>

WriteRemoved ==
    /\ pc = "write"
    /\ cmd = "teardown"
    /\ manifest' = Manifest("Removed")
    /\ End("ok")
    /\ UNCHANGED <<guests, ova, fault>>

-----------------------------------------------------------------------------
Destroy == NothingToDestroy \/ Registered \/ PowerOff \/ PowerOffSkipped
           \/ Unregister \/ UnregisterFails

Provision == Import \/ ImportFails \/ AttachSeed \/ StartHeadless \/ GuestAddress
             \/ Individualised \/ NotIndividualised

Configure == Addresses \/ AddressesMissing \/ ConfigureBackend \/ PublishSite
             \/ ConfigureBalancer \/ DeployService \/ SeedInventory \/ ClusterReady

Record == ReadManifest \/ ManifestUnreadable \/ ManifestErrorSwallowed
          \/ TruncateManifest \/ WriteDeployed \/ WriteRemoved

Next ==
    \/ Command \/ TeardownUnconfirmed \/ StepRaises \/ Killed
    \/ Preflight \/ PreflightFails \/ Template \/ TemplateRaises
    \/ Destroy \/ Provision \/ Configure \/ Record
    \/ \E h \in Hosts : FirstBoot(h) \/ GuestStops(h) \/ GuestStartsAgain(h)

Spec == Init /\ [][Next]_vars

-----------------------------------------------------------------------------
(* Properties. *)

\* Every variable keeps its type.
TypeOK ==
    /\ guests \in [Hosts -> Guests]
    /\ ova \in {"none", "partial", "whole"}
    /\ manifest \in [kind: {"missing", "torn", "whole"}, status: [Hosts -> Statuses]]
    /\ cmd \in {"deploy", "provision", "configure", "teardown"}
    /\ pc \in Pcs
    /\ k \in 1..Last
    /\ attempt \in 1..Attempts
    /\ addr \in [Hosts -> Hosts \union {NoHost}]
    /\ result \in {"none", "ok", "fail", "refused", "killed"}
    /\ runs \in 0..MaxRuns
    /\ fault \in BOOLEAN

Misled == \E h \in Hosts : addr[h] # h

\* provision_cluster's order: when it works on a host, every host before it has
\* come up under its own identity, whatever the DNS said of its address; when it
\* returns, all have.
IndividualisedInTurn ==
    /\ cmd \in {"provision", "deploy"} /\ pc \in ProvisionPcs =>
         \A i \in 1..(k - 1) : guests[AllHosts[i]].boot = "unique"
    /\ (cmd = "provision" /\ pc = "idle" /\ result = "ok")
       \/ (cmd = "deploy" /\ pc \in ConfigurePcs) =>
         \A h \in Hosts : guests[h].boot = "unique"

\* cmd_configure succeeded and no address was another guest's: every host carries
\* its own configuration and the manifest says so, whatever earlier commands left.
ConfigureDelivers ==
    cmd \in {"configure", "deploy"} /\ pc = "idle" /\ result = "ok" /\ ~Misled =>
      /\ \A h \in Hosts \ {Jump} : guests[h].vhost = h /\ guests[h].page = h
      /\ guests[Jump].vhost = Jump /\ guests[Jump].service /\ guests[Jump].store
      /\ manifest = Manifest("Deployed")

\* cmd_teardown succeeded: no guest is registered, even where deletes failed and
\* were repeated; and unless the manifest could not be read or written it says so.
TeardownDelivers ==
    cmd = "teardown" /\ pc = "idle" /\ result = "ok" =>
      /\ \A h \in Hosts : guests[h].vm = "absent"
      /\ fault \/ manifest.kind = "torn" \/ manifest = Manifest("Removed")

\* destroy: "safe to call when tearing down a partial deployment".  Whatever a
\* failed or killed command left, a teardown in which nothing fails of its own
\* accord succeeds.
TeardownNeverRefused == cmd = "teardown" /\ result = "fail" => fault

\* Whenever the manifest is written, what it says is true at that moment: every
\* guest gone, or every guest configured.
ManifestTellsTruth ==
    [][manifest' # manifest /\ manifest'.kind = "whole" =>
         \/ manifest' = Manifest("Removed") /\ \A h \in Hosts : guests[h].vm = "absent"
         \/ /\ manifest' = Manifest("Deployed")
            /\ Misled \/ (guests[Jump].store /\ \A h \in Hosts : guests[h].vhost = h)
      ]_vars

-----------------------------------------------------------------------------
(* The inductive invariant behind them, by part. *)

WritePcs == {"truncate", "write"}

\* Which steps belong to which command, and what a step may rely on.
ControlInv ==
    /\ cmd = "teardown" => pc \in {"idle"} \union DestroyPcs \union ManifestPcs
    /\ cmd = "provision" => pc \in {"idle"} \union ProvisionPcs
    /\ cmd = "configure" => pc \in {"idle"} \union ConfigurePcs \union WritePcs
    /\ cmd = "deploy" => pc # "mark"
    /\ pc # "idle" => result = "none"
    /\ pc \in {"preflight", "template", "addresses"} => k = 1
    /\ pc \in {"vhost", "page"} => k > 1
    /\ pc = "ssh" => addr[Here] \in Hosts
    /\ pc \in ConfigurePcs \union WritePcs /\ pc # "addresses" /\ cmd # "teardown" =>
         addr \in [Hosts -> Hosts]

\* Hosts the provisioning loop has left behind are individualised, and stay so.
SerialInv ==
    /\ cmd \in {"provision", "deploy"} /\ pc \in ProvisionPcs =>
         \A i \in 1..(k - 1) : guests[AllHosts[i]].boot = "unique"
    /\ (cmd = "provision" /\ pc = "idle" /\ result = "ok")
       \/ (cmd = "deploy" /\ pc \in ConfigurePcs \union WritePcs) =>
         \A h \in Hosts : guests[h].boot = "unique"

\* Hosts teardown's loop has left behind are gone, and nothing brings them back.
TeardownInv ==
    cmd = "teardown" =>
      /\ pc \in DestroyPcs => \A i \in 1..(k - 1) : guests[AllHosts[i]].vm = "absent"
      /\ pc \in ManifestPcs => \A h \in Hosts : guests[h].vm = "absent"
      /\ result = "fail" => fault

BackendDone(h) == guests[h].vhost = h /\ guests[h].page = h

\* What cmd_configure has done so far, where every address is its own guest's.
ProgressInv ==
    cmd \in {"configure", "deploy"} /\ ~Misled =>
      /\ pc \in {"vhost", "page"} => \A i \in 2..(k - 1) : BackendDone(AllHosts[i])
      /\ pc = "page" => guests[Here].vhost = Here
      /\ pc \in {"balancer", "service", "store", "truncate", "write", "ready"} =>
           \A i \in 2..Last : BackendDone(AllHosts[i])
      /\ pc \in {"service", "store", "truncate", "write", "ready"} => guests[Jump].vhost = Jump
      /\ pc \in {"store", "truncate", "write", "ready"} => guests[Jump].service
      /\ pc \in {"truncate", "write", "ready"} => guests[Jump].store
      /\ pc = "ready" => manifest = Manifest("Deployed")

IInv ==
    TypeOK /\ ControlInv /\ SerialInv /\ TeardownInv /\ ProgressInv
    /\ ConfigureDelivers /\ TeardownDelivers

-----------------------------------------------------------------------------
(* What the documentation says, and the code does not keep. *)

\* README.md: "Both lifecycle commands rewrite it, so it never goes stale" -- after
\* a successful command in which nothing went wrong, a host recorded as Deployed is
\* a configured guest.
ManifestNeverStale ==
    pc = "idle" /\ result = "ok" /\ ~fault /\ ~Misled =>
      \A h \in Hosts : manifest.status[h] = "Deployed" => guests[h].vhost # NoHost

\* provision.py: the shared identity "must be made unique before a second clone
\* is booted" -- starting a clone finds no other clone still without its own.
OneBlankClone ==
    [][StartHeadless => \A h \in Hosts \ {Here} :
         ~(guests[h].vm = "running" /\ guests[h].boot = "blank")]_vars
================================================================================
