# Verification of VM-Deployment-and-Configuration

TLA+ models of `vmdeploy` (Python, `src/src/vmdeploy`) and of the Go inventory
service it deploys (`src/goservice`), TLC runs that check them on small
instances, and TLAPS proofs of the main results for instances of any size.

## 1. The system

`vmdeploy` turns one working VirtualBox machine into a small cluster: a jump
station that balances load over Apache backends and runs an inventory service.

| Part | State it keeps | Operations |
|---|---|---|
| Inventory service (`goservice/inventory.go`, `main.go`, `crypto.go`) | one AES-GCM file, an `RWMutex`, temporary files | `GET`/`POST /api/inventory`, `/clusterview`, `/api/inventory/raw` |
| Inventory seeding (`inventory_service.py`, `ssh_client.py`) | the same file, from outside | `seed_inventory` → `put_bytes` → `install(1)`, restart |
| Golden template (`provision.py`, `setup.py`, `virtualbox.py`) | the working box's disk and power, its `vmdeploy-prebake` snapshot, the OVA | `template`, `template --export-only` |
| Lifecycle commands (`cli.py`, `provision.py`, `virtualbox.py`) | guests, the OVA, the local manifest | `deploy`, `provision`, `configure`, `teardown` |
| Local manifest (`inventory_service.py`, `inventory.py`, `goservice/manifest.go`) | one encrypted file on the automation host | written by `configure` and `teardown`, read by `teardown`, `manifest` |
| First-boot seed (`seed.py`) | an ISO per guest | built and attached before first boot |
| Guest configuration (`apache.py`, `website.py`) | vhosts, modules, document root | run over SSH by `configure` |
| Service binary (`inventory_service.py`) | Go toolchain, binary, source hash in the image | `ensure_service_binary` |
| Workstation setup (`setup.py`) | accounts on the box, key pair, local overlay | `setup`, `restore-bootstrap` |
| Image scripts (`scripts/*.ps1`) | a partly downloaded image | pull with resume, publish |
| Configuration (`config.py`, `setup.py`) | the base file and the local overlay | every command loads both; `setup` rewrites the overlay |
| Preflight (`preflight.py`) | a probe file | six checks, for `preflight` and `deploy` |
| Status | none | read-only |

How they interact. The commands call `VBoxManage` and SSH synchronously; what
runs concurrently is the service's handler goroutines with each other, with the
seeder (which shares the datastore file but not the mutex) and with crashes;
and the guests, which boot, stop and start while a command waits for them. The
manifest, the snapshot, the accounts of the box, key files, the overlay and the
installed binary carry state from one command to the next, so the hard cases are
sequences of commands of which some failed or were killed. The operator edits
the overlay and the Go sources, and may run a second command, at any time.

What makes the parts correct, and what is hard to test about them, is listed
hazard by hazard in `PROJECT.json`; the properties below are aimed at it.

## 2. Modules

| Module | Models | Uses |
|---|---|---|
| `InventoryRecords` | a record, and what `Store.Upsert` computes | |
| `InventoryRegistry` | abstract: one registry, each request applied atomically between arrival and answer | `InventoryRecords` |
| `InventoryStore` | the Go service, one action per step between points where another handler or a crash can intervene | `InventoryRecords`, implements `InventoryRegistry` |
| `SeededInventory` | the service composed with `seed_inventory` | `InventoryStore` |
| `GoldenTemplate` | `vmdeploy template` | |
| `ClusterLifecycle` | `deploy`, `provision`, `configure`, `teardown` | |
| `ClusterReadiness` | `wait_for_cluster_ready`, with a clock | |
| `GuestDiscovery` | `wait_for_guest_ip`: which address of a guest is used | |
| `OpticalDrive` | `optical_slot`, `attach_optical`, `detach_optical` | |
| `WorkstationSetup` | `setup`, `setup --keys-only`, `restore-bootstrap` | |
| `ConfigDocuments` | the documents: merging, validating, printing | |
| `ClusterConfig` | loading the configuration, and `write_local_overlay` | `ConfigDocuments` |
| `ServiceBinary` | `prepare_template` and `ensure_service_binary` | |
| `LocalManifest` | the manifest's Python and Go writers | |
| `SitePublish` | `publish_site` | |
| `ImagePull` | `scripts/pull-image.ps1`, `publish-image.ps1` | |
| `Preflight` | `run_preflight` | |
| `Workstation` | four components side by side, for any constants, and their properties | `WorkstationSetup`, `LocalManifest`, `Preflight`, `ServiceBinary` |
| `Guests` | five components side by side, for any constants, and their properties | `ImagePull`, `OpticalDrive`, `GuestDiscovery`, `SitePublish`, `ClusterReadiness` |
| `InventoryStore_proofs`, `SeededInventory_proofs`, `GoldenTemplate_proofs`, `ClusterLifecycle_proofs`, `WorkstationSetup_proofs`, `Workstation_proofs`, `Guests_proofs`, `ClusterConfig_proofs` | the theorems | |
| `MCInventoryStore`, `MCSeededInventory`, `MCClusterLifecycle`, `MCClusterConfig` | small instances | |
| `MCWorkstation` | one small instance each of four components | `Workstation` |
| `MCGuests` | one small instance each of five components | `Guests` |

### InventoryStore

`file` is what the datastore's path names and `durable` what it would name after
a loss of power; both are described by what `loadLocked` makes of them (missing,
sealed with a registry, zero-length, refused by `Decrypt`). `temp` holds each
handler's temporary file, `orphans` those nobody comes back to. `pc` follows the
code: `RLock`/`Lock`, `loadLocked`, then `saveLocked` line by line (create,
write, sync, close and chmod, rename), each of which may fail into `SaveFails`,
which removes the temporary file, if it can (`RemoveFails`: the error of
`os.Remove` is ignored), and answers 500. `sync.RWMutex` is modelled
from its contract: a writer first announces itself, which holds new readers
back, then waits for the readers before it; its `Unlock` admits the readers held
back. `Crash` ends the process at any point and systemd restarts it;
`PowerLoss` may also bring back the previous directory entry, or an unsynced
file torn or of length zero.

Ciphertext is modelled by its one relevant property: a sealed registry opens to
itself, anything else is an error (or, at length zero, the empty registry).
Fields of a record other than the hostname are one value.

### SeededInventory

`put_bytes` ends in `install -D -m 660`, which unlinks the destination, creates
it exclusively with mode 0600, writes and changes the mode; each is a step, so
requests see the window without a file (an empty registry), the window with a
file the service may not open (an error), and a rename may collide with the
create, which `RemoteHost.sudo` answers with a second attempt or an exception.
`disturbed` is history: a `POST` was between load and rename during a seed, or
power was lost.

### GoldenTemplate

The box's disk is a record of what the build changes: booted, baked, login keys,
the installer's opt-out of cloud-init, vmdeploy's drop-ins, and the instance an
earlier boot recorded. `snaps` holds the
snapshots of the one name the code uses; deletes are unchecked in the code, so
there may be more than one. `sudoers` and `envSet` say how `RemoteHost.sudo` can
become root; the `|| true` idiom makes a refused first attempt look like a
success with empty output (`SudoRan`). Every step may raise (`StepRaises`) into
the `finally` clause, whose own steps may raise too, and `Killed` skips it.

The session's address comes from `wait_for_guest_ip`, whose DNS fallback
(`virtualbox.py:677-680`) may give a stale one, and nothing compares the hostname:
`ReachOther` opens the session on a deployed guest, `other`, which is then baked,
purged, armed and verified (`Target`, `OnTarget`), while the box is exported as it
is (`by = "elsewhere"`). `left` is history: the snapshots that `take_snapshot`'s
unchecked deletion left. `restore_snapshot` takes the oldest of the name, so
`SuccessMeansRolledBack` says exactly which state a build that returns puts back:
the one before it, or that of the snapshot that could not be deleted.

### ClusterLifecycle

A guest is registered or not, running or not, individualised or not, and carries
some host's vhost, page, service and datastore. An address is represented by the
guest that answers it: Guest Additions give the guest itself, the DNS fallback
may give any. `destroy` is its check, power-off, up to three deletes each
followed by a check, and an exception. `write_bytes` is a truncation and a
write. A failed manifest update during teardown is swallowed, as in
`cmd_teardown`. Guests boot (`FirstBoot`), stop and start at any moment. The
template step of `deploy` is summarised by its effect on the OVA. Paused, saved
and aborted machines are not told apart from stopped ones. Host names are
assumed distinct; what `config.py` enforces is that machine names are
(`MachinesDistinct`).

### ClusterReadiness

Endpoints refuse, answer with errors or serve, and change on their own. A clock
advances while a request or a sleep is under way. A request is answered by the
endpoint as it was at some moment of it, within its timeout; `requests` applies
that to the connection and to each wait for bytes, so an endpoint that trickles
its answer could take longer, which is left out. The two endpoints are polled in
turn against the one deadline.

### GuestDiscovery and OpticalDrive

An address is its class (on the host's /24, in another private range, elsewhere,
link-local). The guest gives an interface its address and the Guest Additions
publish address and name in separate steps, so a poll may fall in between; and
VBoxManage may fail to enumerate them, which the code takes for an empty list
(`PollFails`). `Selected` is `_select_lan_address`. A drive slot holds a disk, an image, an
empty drive or nothing; `OpticalSlot` is the code's choice over any layout, and
each operation finds its slot in one step and uses it in the next.

### WorkstationSetup

An account is its shell, group, rule, password and authorised key, and whether
the key file is its own (`put_bytes` leaves it root's until the `chown`). Key
files are written by a truncation and a write, and read by whether they exist.
`CanLogin` and `CanRoot` are what sshd and sudo decide; `sudo`'s habit of taking
any non-zero exit for a refusal is in `DisableFails`, `UnlockFails` and
`RuleRejected`. A NOPASSWD rule is in `/etc/sudoers.d/90-<user>`, the only file
that setup writes and removes, or in another (`otherRule`). The stock key may
come with or without its `.pub` file, `--new-key` may name it, and
`restore-bootstrap` may be given the account it works with. As in
`GoldenTemplate`, the session may be on another guest (`ReachOther`, `away`): the
commands are then carried out or refused there (`ElsewhereSucceeds`,
`ElsewhereFails`), and the box keeps its accounts.

`NeverLockedOut` is about steps: one after which no account of the box accepts a
key of the workstation and reaches root is one of two that nothing verifies,
`OverStockKey` or `OnOwnAccount`. The run `setup_lockout` shows the first.

### ConfigDocuments and ClusterConfig

A value is a type and a content, and of a text only what the code tells apart is
kept (blank, padded, naming a variable, plain; and the texts with a backslash, a
double quote or a control character, which between quotes and unescaped are
another text, "misread", or no TOML, "unreadable"). `QuotedKeys` are the keys that
TOML takes between quotes only; `_emit_toml` prints them bare. The readers of
`config.py` are operators, a section is a table of rules, and `Emitted` says what
reading the text of `_emit_toml` gives back. `MergeTables` is the body of
`_deep_merge` with its recursive call as a parameter, and `DeepMerge` is it
applied to documents and to their sections. What two tables *inside* a section
merge to is the constant `MergeNested`: `MCClusterConfig` gives it the recursion
itself, and the proofs assume nothing of it, because no reader accepts a table. Around them `setup` and another command load the
layers in two reads, `setup` reads, truncates and writes the overlay, and the
operator edits it.

### ServiceBinary

A fingerprint is the vector of file versions it was computed from; files are
uploaded one by one from a tree that is edited meanwhile. The toolchain is
cached, downloaded, verified on the host, uploaded and verified on the guest,
removed, extracted (perhaps in part) and linked. An installed toolchain is
accepted by a prefix of its version (`startswith`), so 1.26.50 passes for 1.26.5
(`"longer"`); `OnlyVerifiedToolchain` is about what is unpacked, not about what
was there.

### LocalManifest

`configure` and `teardown` end in a truncation and a write, `mark-removed` in a
rename, which may replace the file Python holds open. `ideal` is history: the
manifest the same commands would leave one after another.

### SitePublish, ImagePull, Preflight

`publish_site` is its fetch (any part of an archive may be unpacked when it
fails, and the URL may come to name an archive without an `index.html`, which
`CheckFails` refuses), the replacement of the document root, and the stamping loop, page by
page, with the loop's exit status and `sudo`'s second run of it. An image is a
sequence of blocks, so that a resumed file shows whose blocks it holds; the
operator repeats the script until it succeeds. Preflight's checks read a host
that may change between any two reads.

### Workstation and Guests, and their instances

`Workstation` and `Guests` declare the variables and constants of components that
share none and instantiate the components; the proofs are about these modules.
`MCWorkstation` and `MCGuests` let a behaviour run one component (`focus`) while the others stay in an initial state. Interleaving them
would add states and no behaviour of any of them, so what holds here of a
component holds of it alone, and the other way round. Their properties are the
components', some of them joined: `ManifestKept` is `AuditTrailKept` and `OnlyPythonTruncates`,
`VerdictExplained` is `VerdictRight` and `CrashExplained`, `BinaryTrusted` is
`SuccessMeansCurrent` and `OnlyVerifiedToolchain`, `SeedsInTurn` is `OneSeed` and
`EjectDelivers`, `AddressExplained` is `LanWins` and `DetourExplained`,
`SiteDelivered` is `PublishDelivers` and `NoDuplicateTags`, `WaitJustified` is
`ReadyMeansServed`, `TimeoutJustified` and `BoundedWait`. So is, in
`ClusterConfig`, `ConfigurationRight`: `LayersInOrder` and `MachinesDistinct`.

## 3. Runs

| Run | Instance | Result |
|---|---|---|
| `inventory_store` | 2 handlers, 2 hosts, 2 payloads, 1 crash or power loss, 1 file that cannot be removed | types, `NeverHalfWritten`, `HostnamesUnique`, `OneOrphanPerFault`, `OneRecordAtATime`, `ImplementsRegistry` hold |
| `inventory_liveness` | 3 handlers, 1 crash, fairness | `EveryRequestEnds` holds |
| `seeded_inventory` | 2 handlers, 1 crash, 2 seeds | `QuietSeedKept` holds |
| `seeded_race` | 2 handlers, 1 seed | `FreshAfterDeployment` **violated** |
| `golden_template` | 3 commands | `PublishedImageClean`, `PriorStateRecoverable`, `SuccessMeansRolledBack`, `NoSpuriousFailure` hold |
| `golden_template_lost` | 2 commands | `PristineNeverLost` **violated** |
| `cluster_lifecycle` | jump station and one backend, 3 commands | `IndividualisedInTurn`, `ConfigureDelivers`, `TeardownDelivers`, `TeardownNeverRefused`, `ManifestTellsTruth` hold |
| `cluster_serial` | 2 commands | `OneBlankClone` **violated** |
| `cluster_config` | 14 overlays, 2 environments, 1 edit, setup and another command | types, `ConfigurationRight`, `OverridesKept` hold |
| `workstation` | see below | `NeverLockedOut`, `SetupDelivers`, `RestoreDelivers`, `TrustedKeyKept`, `ManifestKept`, `VerdictExplained`, `BinaryTrusted` hold |
| `setup_lockout` | the same | `LockoutImpossible` **violated** |
| `guests` | see below, fairness | `SuccessMeansIntact`, `RerunFinishes`, `SeedsInTurn`, `DisksKept`, `AddressExplained`, `SiteDelivered`, `SiteKeptUntilFetched`, `WaitJustified`, `Terminates` hold |

The instances of the last two:

| Component | Instance |
|---|---|
| `WorkstationSetup` | 3 commands, 2 accounts, 3 keys, 2 key paths, the stock key's among those of `--new-key` |
| `LocalManifest` | 2 hosts, 2 addresses, 3 Python commands, 2 of the utility |
| `Preflight` | 2 commands, 3 guests, hosts on both sides of each threshold, 1 change |
| `ServiceBinary` | 3 commands, 2 files, 2 edits |
| `ImagePull` | images of 3 and of 2 blocks, 2 pushes, 3 faults |
| `OpticalDrive` | every layout of 4 slots, 2 seeds |
| `GuestDiscovery` | 3 interfaces, bridges on both sides of the LAN adapter |
| `SitePublish` | 5 pages, 2 builds and an archive that is no site, 2 publications |
| `ClusterReadiness` | 2 endpoints, deadline 6, request 2, sleep 1, 3 changes |

Run one with `tlc -config InventoryStore.cfg MCInventoryStore` (the module and
configuration of each are in `PROJECT.json`).

Bounds. Two handlers are enough for a lost update, a reader between a writer's
announcement and its grant, and a reader held back; the liveness run has three,
so that two readers can keep a writer waiting and two writers a reader, and one
record, because contents do not matter to it. Two hosts let an upsert replace
or append; two payloads make replacement visible. One crash suffices because a
restart forgets everything but the disk; one file that cannot be removed stays
beside the one a crash leaves. Three commands are a command that
fails, its repetition, and one that meets what both left. Two guests are a
predecessor and a successor. Every safety
property that passes is proved without these bounds (section 4).
Three commands of `setup` or `restore-bootstrap` are a failure, its repetition,
and the way back to the stock account; three keys are the stock key and two
generations. The stock box is one of five: its rule in the file setup writes (with
a sudo password set or not, in the group or not), its rule in another file and the
stock key without its `.pub`, or a group and a password only. Two files and two edits let a file change before and after its
upload. The deadline of 6 holds several requests and sleeps of one endpoint and
at least one of the other. Blocks let an interruption leave one or two of
another image, which may be longer than the one wanted; three faults can end
both attempts of one run and disturb the next. The overlays hold texts of every
kind, integers, booleans, a table for a text and a scalar for a table, one field
beside `[ssh]` at a time, including each kind of refusal, or backends of their
own; one edit is enough to race a run of setup and to follow one. The preflight values are one
below and at what 3 guests of 2 MB need, and a disk that holds three guests of
the appliance's size and not three of the default; the key and the template are
not both missing at first.

Deadlock is checked in the service's and the configuration's runs. The command runs, `workstation` and
`guests` say `CHECK_DEADLOCK FALSE`: after the last of `MaxRuns` commands, and
once a wait has ended, nothing is left to do.

Fairness. In `inventory_liveness`: weak fairness of each handler's own step:
a goroutine that can run is scheduled. Strong fairness of `Lock`: the mutex may
be free and taken by others again and again while a writer waits, and Go's
`sync.Mutex` prevents starvation by handing itself over to a waiter that has
waited for a millisecond. No fairness of request arrival, crashes or flushes.
In `guests`, of `ClusterReadiness`: weak fairness of the clock and of the loop's own step,
since `requests.get` has a timeout, `sleep` ends and the process is scheduled;
none of the endpoints. Of `ImagePull`: weak fairness of starting the script
(the operator does as its messages say) and of its steps; faults are bounded in
number, so the network behaves in the end, and each run may still meet the
partial or foreign file that they left.

### What the violations show

* **seeded_race.** The comment on `Store` justifies reading the file each time:
  "a cache would serve stale membership immediately after a deployment"
  (`goservice/inventory.go:40-42`). An `Upsert` in flight holds such a copy from
  load to rename, and the seeder does not take the mutex; the rename puts the
  old membership back over the seed.
* **golden_template_lost.** "The template box is never altered by a build"
  (`README.md:645`). After a build that was killed or could not roll back, the
  prior state is only in the snapshot; the next build's `take_snapshot` deletes
  it (`virtualbox.py:556-557`).
* **cluster_serial.** The shared identity "must be made unique before a second
  clone is booted" (`provision.py:3-4`): a run that stopped at its second guest
  leaves it running, and the next run boots the first guest beside it.
* **setup_lockout.** "The verify-before-disable ordering makes lockout impossible"
  (`README.md:624-625`), and "An existing keypair is left untouched"
  (`setup.py:63-64`). A keypair counts as existing only if both files are there
  (`setup.py:77`), and it is generated before anything is verified: with
  `--new-key` naming the key the box trusts and its `.pub` missing, line 95
  overwrites that key, and none on the workstation opens the box any more.

### What else the documentation says and the code does not keep

The modules state these claims under that heading. No configuration of the
project checks them; TLC finds a counterexample to each when it is given to it
as an invariant of its component (`RerunAlwaysFinishes` as a property). The
exceptions in the passing properties are there because of them.

* `ManifestNeverStale`: "Both lifecycle commands rewrite it, so it never goes
  stale" (`README.md:409-410`): `provision` replaces every guest and leaves the
  manifest alone, so after a deploy and a provision, both successful, it calls
  blank clones Deployed.
* `AlwaysRolledBack`: "Always return the working box to its pre-build state"
  (`provision.py:123`), "**rolls back** after export"
  (`README.md:647`): where `take_snapshot`'s unchecked deletion left an older
  snapshot of the name (`virtualbox.py:556-557`), that is what is restored, and
  the build is reported as successful.
* `NoKeysPublished`: the image "ships no credentials at all" (`README.md:632`):
  where DNS gave the session another guest, that one is purged and verified and
  the box is exported with its keys.
* `PasswordIsEnough`: "falls back to `VMDEPLOY_SUDO_PASSWORD`"
  (`README.md:651-652`): not for the privileged reads that end in `|| true`
  (`setup.py:474,481`), so the arming check refuses every image built that way.
* `OverridesSurvive`: "operator-specific overrides (inventory paths, website
  source, a custom VirtualBox path) survive a re-run of setup"
  (`setup.py:574-576`): `_emit_toml` escapes neither backslashes nor double quotes
  nor control characters and prints keys bare (`setup.py:213,218-221`), so an
  overlay with such a path, text or key is accepted before setup and is another
  one, or no TOML, after it. Arrays and tables inside sections become texts in
  the same way. `OverridesKept` is about overlays of the shape `_emit_toml` says
  it is made for (`setup.py:198-199`), with texts and keys that need no escaping.
* `PublishedForgetsInstance`: `arm_cloud_init` "clears the recorded instance" and
  is "verified after the fact" (`setup.py:402-417`); the clean's status is
  ignored and the verification does not look for the instance. Without a sudo
  password it does hold, which is part of `PublishedImageClean` and proved.
* `ConfiguredIdentityWorks`: "makes lockout impossible" (`README.md:624-625`); the
  account is disabled before the new one is recorded (`setup.py:711,714`), so the
  identity the next command is configured with may be dead. Another key and
  account of the workstation still work there (`NeverLockedOut`).
* `SudoRevoked`: "sudo is revoked" (`setup.py:176`): only the group and
  `/etc/sudoers.d/90-<user>`; a NOPASSWD rule in another file stays.
* `RerunSucceeds`: "can be re-run safely" (`setup.py:113-114`); a key file left
  empty by a killed setup is taken for a key.
* `DisabledWhenDone`: "If the account cannot be disabled" it raises
  (`setup.py:184-185`); no exit status is read.
* `FingerprintOfCompiled`: "of exactly what was compiled"
  (`inventory_service.py:273`); the hash is computed after upload and compile.
* `PasswordNeverNeeded`: "never needs the variable" (`ssh_client.py:253-255`); a
  command that is expected to fail is taken for a refusal and raises without it.
* `PresentMeansUsable`: "unless the exact version is present"
  (`inventory_service.py:164`); half an extracted toolchain reports its version.
* `ReconcilesInterrupted`, `NeverStale`: "can be reconciled by hand"
  (`manifest.go:18-21`), "never goes stale" (`README.md:409-410`); the utility
  reads a truncated manifest as an empty one, and its load and save enclose
  other writes.
* `EveryDocumentStamped`, `InjectionFailureRaises`: "every served HTML document",
  "If the injection fails" (`website.py:117,128-129`); pages with `<HEAD>` are
  not listed, and the loop forgets a failure that is not its last.
* `TimeoutMeansNeverReady`: "If an endpoint never becomes ready"
  (`provision.py:209`); the second endpoint may be given no request at all.
* `NeverTheBridge`: "always chosen over the bridge" (`virtualbox.py:644`); not
  while the bridge's name is unpublished.
* `PublishedIsUsed`: the list is "Empty if the additions have not yet published
  network state" (`virtualbox.py:615`); it is also empty where VBoxManage failed,
  and DNS is then asked although the LAN address is published.
* `RerunAlwaysFinishes`: "running the script again finishes the job"
  (`pull-image.ps1:134-135`); not over a file longer than the image.
* `NeverCrashes`: "rather than crashing the run" (`preflight.py:9-10`);
  `VirtualBoxError` is not among the exceptions caught.

## 4. Theorems

All proofs are checked by `tlapm` with Z3, Zenon and LS4. They assume only what
the modules `ASSUME` of their constants, which TLC evaluates on the instances:

* records exist and neither the seed of the service nor what the seeder writes
  lists a host twice; `NoOne` is not a handler; host names are distinct;
* `Boot` is an account, `NoUser` is none, `BootPath` and the paths given as
  `--new-key` are key paths;
* there is a host, a source file with a version, an image with a block, an
  interface, an endpoint, an attempt, and a second of sleep between polls; a
  bridge's address is a private one; an image in the drive is not one of the
  words for no image; `index.html` is in every build;
* the committed configuration has every section, as `config/cluster.toml` does,
  an array in a document is a sequence, the account and the key path that `setup`
  records need no escaping and have no padding (`as_posix`, `setup.py:600`), and
  its own keys no quotes;
* sizes and bounds are natural numbers (of any size).

For each component the properties are not inductive; its module states what they
need as named parts of `IInv`, which TLC checked as an invariant before it was
proved, and the proof has one lemma per part with one step per action.

**InventoryStore_proofs.** `Inductive` proves `IInv`, of which the parts are:
`LockInv` (the mutex and the program counters agree, a writer is alone),
`TempInv` (a temporary file belongs to a handler inside `saveLocked` and is
synced before it is renamed), `CallInv` (what a handler is about to save is
still what the file holds plus its candidate) and `FileInv` (the path never
names bytes a loss of power could take away). `NeverHalfWritten` is not
inductive by itself: it needs that the file is synced at the rename, which needs
`TempInv`, which also gives the first half of `OneOrphanPerFault`: who may have a
temporary file, and when. `OneRecordAtATime` needs `CallInv`, which needs `LockInv`: nobody
else can have renamed since the load. From these follow `TypeCorrect`,
`NoTornDatastore`, `NoDuplicateHosts`, `OrphansBounded`, `UpdatesNeverLost` and
`ServiceImplementsRegistry`; the last maps an upsert to its rename and a read to
its `ReadFile`, and every other step to a stutter.

**GoldenTemplate_proofs.** `ControlInv`, `DiskInv` (how far the disk that the
session is on has come at each step) and `RollbackInv` (the snapshots are those
the deletion left and one of the prior state, and the restore gives the oldest)
make the four properties inductive. `ImagesAreClean` rests on
the arming check: where `|| true` blinds the key check, it blinds the arming
check as well, which then refuses the image. That the image has forgotten its
instance unless there is a sudo password rests on `DiskInv` at the steps after
the clean.

**ClusterLifecycle_proofs.** `ControlInv`, `SerialInv`, `TeardownInv` (hosts a
loop has passed stay individualised, or gone) and `ProgressInv` (what
`cmd_configure` has done so far, where no address was another guest's).

**SeededInventory_proofs.** Beside a writer that ignores the lock most of the
service's invariant is lost: a file may be private or unsynced, and may change
under a handler that has loaded it. What survives is that no registry repeats a
hostname (`RegistriesUnique`), on which `Upsert` and the types depend; the
lemmas `TypeStep` and `UniqueStep` of `InventoryStore_proofs` are stated with no
more than that and serve both. `QuietInv` says what an undisturbed seed finds:
nobody between load and rename, its own file at each step, and afterwards in
every handler that is saving a registry with the configured hosts. The last is
what keeps `QuietSeedKept` through later POSTs, since `Upsert` drops no hostname
(`UpsertKeepsHosts`).

**WorkstationSetup_proofs.** A step keeps `SomeIdentityWorks` for a different
reason at different times: while the new account is being made, the account the
session was opened with is another one and untouched (`SessionInv`; the guard of
every `sudo` adds that it reaches root); while the old account is being disabled,
the new identity has been verified (`SessionInv` again); a step that only adds to
an account leaves it `NoWorse`; and while a key is being written some identity
does not use it. For the last, `OrphanInv` says that a private key without its
public half, other than the stock key, is trusted by no account and is in no
command's memory, so that generating over it harms nobody; it rests on
`MintedInv` and `FreshInv`, by which a new key is nowhere but in the files being
written. What is left over are the two exceptions of `NeverLockedOut`. The same
gives `TrustedKeyKept`. `ModesInv` keeps the account setup came in with apart from
the one it makes. `DisabledInv` and `RestoredInv` say how far a command on the box
has come, for `SetupDelivers` and `RestoreDelivers`; of a session elsewhere they,
and these two properties, say nothing about the box.

**Workstation_proofs.** *Manifest*: while all is quiet what the file holds, and
what each writer is about to write, is the serial outcome or what the command
makes of it (`QuietInv`), and only Python leaves an empty file (`WritersInv`).
*Binary*: what is unpacked on the guest was verified there (`ToolchainInv`), and
until an edit the staged files, the compiled and the installed binary are the
sources, file by file (`SourcesInv`). *Checks*: for each command that runs, how
many verdicts it has, and that one of them is a failure exactly where one of the
checks done so far fails on the host as it is.

**Guests_proofs.** *Pull*: the digest is compared in a file of the right size.
*Drive*: the seed is in the first optical drive and the slot an operation found
is that one, or a free one where there is none, so that two operations meet in
the same slot. *Find*: DNS is asked, and the deadline looked at, only after a
poll that listed no LAN address. *Website*: what each step finds staged, copied
and stamped (`StepsInv`). *Ready*: when a request or a sleep began and how long
an endpoint that serves by now can have been serving (`ProgressInv`); the bound
on the wait is the deadline, a request and a sleep.

The theorems at the end of these three modules state the properties of the
runs as `Workstation` and `Guests` define them; each has the specification of
the one component it is about as its hypothesis, the type invariants those of
all.

**ClusterConfig_proofs.** About the functions: a reader that does not refuse
keeps its promise (`ReaderPromise`) and cannot tell two tables apart
(`ReaderOfTable`), so a merged field is read as the overlay's or else the base's
whatever nested tables merge to (`MergedField`), and the environment changes the
account and nothing else (`EnvField`); `LoadResult` joins them. Distinct names
are counted through an injection from the machines (`NamesCounted`). Printing
loses nothing of a shallow document (`EmittedShallow`), and recording an identity
keeps that shape, is idempotent and is what merging it would give
(`IdentityRecorded`). About the steps: `LoadInv` says that a configuration in use
is the load of one file that was read, although the file has changed since, and
`KeptInv` that the file is the operator's text or setup's version of it, and that
setup holds that version from its read to its write. `OverridesKept` is not
inductive without the latter: what is written was computed two steps before.
`ConfigInductive` proves both with the types, for every base, overlay and
environment and any number of edits.

The types of the seeded inventory (`SeededTypeOK`) are proved and not among the
invariants of a run.

Only model-checked: liveness (`EveryRequestEnds`, `Terminates`,
`RerunFinishes`), which is out of this prover's reach. The violations are TLC's
counterexamples.

## 5. Not modelled, and the plan

Not modelled: log and report text, HTML rendering, TLS and SSH transport, the
cipher itself, the wording of seed documents and of Apache's configuration,
`modifyvm` settings, Docker wiring for CI (it runs the modelled service and
encryption in containers and has no state of its own), and `status`, which only
reads.

Order of work, most important behaviour first; all of it done.

1. `InventoryStore` with its abstract registry, refinement and liveness.
2. `SeededInventory`: the service with its second writer.
3. `GoldenTemplate`, with the recorded instance.
4. `ClusterLifecycle`.
5. `WorkstationSetup` and `ClusterConfig`: accounts, key files, the overlay.
6. `LocalManifest`: the Go utility beside the Python writers.
7. `ServiceBinary` and `SitePublish`.
8. `ImagePull`: resume, size and digest checks, progress under repetition.
9. `GuestDiscovery` and `OpticalDrive`.
10. `ClusterReadiness` and `Preflight`.
11. Proofs: the safety properties of `InventoryStore` and its refinement, of
    `GoldenTemplate` and `ClusterLifecycle`, of `SeededInventory`, of the
    components of `Workstation` and `Guests`, and of `ClusterConfig`.
