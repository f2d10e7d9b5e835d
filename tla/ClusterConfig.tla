------------------------------ MODULE ClusterConfig ------------------------------
(***************************************************************************)
(* Where a command's configuration comes from: load_cluster_config reads   *)
(* the committed base, deep-merges the operator's local overlay over it,   *)
(* lets VMDEPLOY_SSH_USER override the account and validates the result;   *)
(* write_local_overlay, at the end of setup, reads the overlay, changes    *)
(* its [ssh] table and writes the whole file again through _emit_toml.     *)
(* ConfigDocuments has the functions; here are the reads and writes of the *)
(* file, between which the operator may edit it.                           *)
(***************************************************************************)
EXTENDS ConfigDocuments, FiniteSets

\* What reading an overlay may find.
IsFile(file) == file \in {Absent, Broken} \/ IsTable(file)

\* An array of a document's backends is a sequence.
ArrayOfBackends(file) ==
    Has(file, "backend") /\ file[2]["backend"][1] = "array" =>
        file[2]["backend"][2] \in Seq(Range(file[2]["backend"][2]))

CONSTANTS
    Base,       \* the committed document, a table
    Overlays,   \* the overlay files an operator writes, "absent" and "broken" included
    EnvUsers,   \* texts VMDEPLOY_SSH_USER may hold, a blank one standing for unset
    NewUser, NewKey,    \* the identity setup records
    MaxEdits    \* bound: how often the operator edits the overlay

\* The base has every section, as config/cluster.toml does; an array is a sequence.
ASSUME ConfigAssumption ==
    /\ IsTable(Base) /\ \A t \in DOMAIN Rules : Has(Base, t) /\ IsTable(Base[2][t])
    /\ Absent \in Overlays /\ \A file \in Overlays : IsFile(file)
    /\ \A file \in Overlays \cup {Base} : ArrayOfBackends(file)
    /\ NewUser[1] = "plain" /\ NewKey[1] = "plain"
    /\ QuotedKeys \cap {"ssh", "user", "key_path"} = {}
    /\ MaxEdits \in Nat

Identity == [user |-> Str(NewUser), key_path |-> Str(NewKey)]

\* Mutant: the new overlay holds the identity only.
WithIdentityOnly(doc) == [ssh |-> Table(Identity)]

\* The overlay with its [ssh] account and key replaced.
WithIdentity(doc) ==
    Updated(doc, [ssh |-> Table(Updated(
        IF "ssh" \in DOMAIN doc THEN doc["ssh"][2] ELSE <<>>, Identity))])

-----------------------------------------------------------------------------
(* A run of setup and another command, each with its environment. *)

ConfigProcs == {"setup", "command"}

VARIABLES
    overlay,    \* the file beside the base
    env,        \* each process's VMDEPLOY_SSH_USER
    pc,         \* "idle", "base", "overlay", "loaded", "existing" or "truncated"
    got,        \* what a process's load returned
    mem,        \* the overlay setup read and changed
    seen,       \* history: the overlay a process's load used
    authored,   \* history: the overlay as the operator last wrote it
    recorded,   \* history: whether setup has recorded its identity in it since
    excused,    \* history: what has lost text of it since
    edits       \* history: edits so far

vars == <<overlay, env, pc, got, mem, seen, authored, recorded, excused, edits>>
history == <<authored, recorded, excused, edits>>

Init ==
    /\ overlay \in Overlays
    /\ env \in [ConfigProcs -> EnvUsers]
    /\ pc = [p \in ConfigProcs |-> "idle"]
    /\ got = [p \in ConfigProcs |-> Refused]
    /\ mem = <<>>
    /\ seen = [p \in ConfigProcs |-> Absent]
    /\ authored = overlay /\ recorded = FALSE /\ excused = {} /\ edits = 0

Goto(p, where) == pc' = [pc EXCEPT ![p] = where]

\* A load begins; the base is committed and always readable.
ReadBase(p) ==
    /\ pc[p] = "idle"
    /\ Goto(p, "base")
    /\ got' = [got EXCEPT ![p] = Refused] /\ seen' = [seen EXCEPT ![p] = Absent]
    /\ UNCHANGED <<overlay, env, mem, history>>

\* overlay_path.is_file()
OverlayIsFile(p) ==
    /\ pc[p] = "base" /\ overlay # Absent
    /\ Goto(p, "overlay")
    /\ UNCHANGED <<overlay, env, got, mem, seen, history>>

\* The process goes on with what its load returned: setup to its work, unless
\* refused.
Loaded(p, file) ==
    /\ seen' = [seen EXCEPT ![p] = file]
    /\ got' = [got EXCEPT ![p] = Load(Base, file, env[p])]
    /\ Goto(p, IF p = "setup" /\ got'[p].ok THEN "loaded" ELSE "idle")
    /\ UNCHANGED <<overlay, env, mem, history>>

NoOverlay(p) == pc[p] = "base" /\ overlay = Absent /\ Loaded(p, Absent)

\* A file that is gone since it was seen, or is not TOML, is refused.
ReadOverlay(p) ==
    /\ pc[p] = "overlay"
    /\ Loaded(p, IF overlay = Absent THEN Broken ELSE overlay)

\* Setup ends without writing.
Stop == Goto("setup", "idle") /\ mem' = <<>> /\ UNCHANGED <<overlay, env, got, seen, history>>

\* Setup can update the overlay: it is TOML, and its ssh a table.
Updatable == overlay # Broken /\ (Has(overlay, "ssh") => IsTable(overlay[2]["ssh"]))

\* Otherwise the read, or dict() of what is no table, raises.
ExistingRefused == pc["setup"] = "loaded" /\ ~Updatable /\ Stop

\* write_local_overlay up to the document it will write.
ReadExisting ==
    /\ pc["setup"] = "loaded" /\ Updatable
    /\ mem' = WithIdentity(IF overlay = Absent THEN <<>> ELSE overlay[2])
    /\ Goto("setup", "existing")
    /\ UNCHANGED <<overlay, env, got, seen, history>>

\* write_text opens the file, which empties it.
Truncate ==
    /\ pc["setup"] = "existing"
    /\ overlay' = Empty
    /\ Goto("setup", "truncated")
    /\ UNCHANGED <<env, got, mem, seen, history>>

\* and writes the text.
WriteText ==
    /\ pc["setup"] = "truncated"
    /\ overlay' = Emitted(mem)
    /\ recorded' = TRUE
    /\ Goto("setup", "idle") /\ mem' = <<>>
    /\ UNCHANGED <<env, got, seen, authored, excused, edits>>

\* It cannot be opened; or cannot be written, and stays empty.
OpenFails == pc["setup"] = "existing" /\ Stop
WriteFails ==
    /\ pc["setup"] = "truncated"
    /\ excused' = excused \cup {"failed"}
    /\ Goto("setup", "idle") /\ mem' = <<>>
    /\ UNCHANGED <<overlay, env, got, seen, authored, recorded, edits>>

\* Setup stops before it comes to the overlay, or is killed.
Killed ==
    /\ pc["setup"] \in {"loaded", "existing", "truncated"}
    /\ excused' = IF pc["setup"] = "truncated" THEN excused \cup {"killed"} ELSE excused
    /\ Goto("setup", "idle") /\ mem' = <<>>
    /\ UNCHANGED <<overlay, env, got, seen, authored, recorded, edits>>

\* The operator edits, creates or removes the overlay: at any time, and so
\* between setup's read and its write.
Edit ==
    /\ edits < MaxEdits
    /\ \E file \in Overlays \ {overlay} : overlay' = file /\ authored' = file
    /\ edits' = edits + 1 /\ recorded' = FALSE
    /\ excused' = IF pc["setup"] \in {"existing", "truncated"} THEN {"raced"} ELSE {}
    /\ UNCHANGED <<env, pc, got, mem, seen>>

Next ==
    \/ \E p \in ConfigProcs : ReadBase(p) \/ OverlayIsFile(p) \/ NoOverlay(p) \/ ReadOverlay(p)
    \/ ExistingRefused \/ ReadExisting \/ Truncate \/ WriteText
    \/ OpenFails \/ WriteFails \/ Killed \/ Edit

Spec == Init /\ [][Next]_vars

-----------------------------------------------------------------------------
(* Properties. *)

\* What a configuration's field may hold.
WellFormed(v, rule) ==
    CASE rule[1] = "int" -> v[1] = "int" /\ v[2] >= rule[2]
      [] rule[1] = "port" -> v[1] = "int" /\ v[2] >= 1 /\ v[2] <= 65535
      [] rule[1] = "path" -> v[1] = "str" /\ v[2][1] \notin {"blank", "padded", "var", "unset"}
      [] rule[1] = "str" -> v[1] = "str" /\ v[2][1] \notin {"blank", "padded"}
      [] rule[1] = "optional" -> v[1] = "str" /\ v[2][1] # "padded"

\* Each field of a configuration has a value that its reader promises.
WellTyped(cfg) ==
    /\ \A t \in DOMAIN Rules : \A k \in DOMAIN Rules[t] : WellFormed(cfg[t][k], Rules[t][k])
    /\ \A i \in DOMAIN cfg.backend : \A k \in DOMAIN HostRules :
          WellFormed(cfg.backend[i][k], HostRules[k])

Pcs == {"idle", "base", "overlay", "loaded", "existing", "truncated"}

\* Every configuration a load returns, whatever the layers held, gives each field
\* a value that its reader in config.py promises; no padding, blank or variable
\* that is not set is left in it.
TypeOK ==
    /\ IsFile(overlay) /\ IsFile(authored) /\ recorded \in BOOLEAN
    /\ pc \in [ConfigProcs -> Pcs] /\ env \in [ConfigProcs -> EnvUsers]
    /\ DOMAIN got = ConfigProcs /\ DOMAIN seen = ConfigProcs
    /\ edits \in 0..MaxEdits /\ excused \subseteq {"raced", "failed", "killed"}
    /\ \A p \in ConfigProcs : IsFile(seen[p]) /\ (got[p].ok => WellTyped(got[p].cfg))

\* The layer a field comes from: the environment for the account, otherwise the
\* overlay where it gives the field, otherwise the base.
Layer(p, t, k) ==
    IF t = "ssh" /\ k = "user" /\ env[p][1] # "blank" THEN Str(env[p])
    ELSE IF Has(seen[p], t) /\ Has(seen[p][2][t], k) THEN seen[p][2][t][2][k]
    ELSE Field(Base[2][t][2], k)

\* A field a command runs with is the one of the highest layer that gives it,
\* whatever other fields of its table the layers give, and the backends are one
\* layer's as a whole (load_cluster_config, _deep_merge).
LayersInOrder ==
    \A p \in ConfigProcs : got[p].ok =>
        /\ \A t \in DOMAIN Rules : \A k \in DOMAIN Rules[t] :
              got[p].cfg[t][k] = Read(Layer(p, t, k), Rules[t][k])
        /\ got[p].cfg.backend = ParseBackends(IF Has(seen[p], "backend") THEN seen[p][2]["backend"]
                                                                         ELSE Base[2]["backend"])

\* No command runs with two machines of one name, or with a machine named like
\* the template, although the names come from different layers: what the
\* lifecycle commands assume when they destroy and import machines by name
\* (_validate_cross_references).
MachinesDistinct ==
    \A p \in ConfigProcs : got[p].ok =>
        LET cfg == got[p].cfg
            machines == {cfg.jump.vm_name, cfg.virtualbox.template_vm}
                            \cup {cfg.backend[i].vm_name : i \in DOMAIN cfg.backend}
        IN  Cardinality(machines) = Len(cfg.backend) + 2

\* Both of every configuration that load_cluster_config returns.
ConfigurationRight == LayersInOrder /\ MachinesDistinct

\* What the operator's overlay should be after setup's last step.
Intended ==
    IF ~recorded THEN authored
    ELSE Table(DeepMerge(IF authored = Absent THEN <<>> ELSE authored[2], [ssh |-> Table(Identity)]))

\* The shape _emit_toml is made for: "top-level tables whose values are strings,
\* integers, or booleans", or such values themselves; and, as it escapes nothing,
\* no text with a backslash, a double quote or a control character, and no key
\* that needs quotes.
Scalar(v) ==
    \/ v[1] \in {"int", "bool"}
    \/ v[1] = "str" /\ v[2][1] \notin {"misread", "unreadable"}
BareMapping(f) == f = [k \in DOMAIN f |-> f[k]] /\ DOMAIN f \cap QuotedKeys = {}
Scalars(f) == BareMapping(f) /\ \A k \in DOMAIN f : Scalar(f[k])
Shallow(f) ==
    /\ BareMapping(f)
    /\ \A k \in DOMAIN f : Scalar(f[k]) \/ (f[k] = Table(f[k][2]) /\ Scalars(f[k][2]))
Emittable(file) == file \in {Absent, Broken} \/ (file = Table(file[2]) /\ Shallow(file[2]))

\* Except between truncation and writing, and unless setup was killed or failed
\* exactly there or the operator edited the file meanwhile, a command gets from
\* an overlay of that shape what it would get from the operator's text with the
\* account and the key replaced: every other override survives, and an overlay
\* that was accepted still is (write_local_overlay).
OverridesKept ==
    Emittable(authored) /\ pc["setup"] # "truncated" /\ excused = {} =>
        Load(Base, overlay, env["command"]) = Load(Base, Intended, env["command"])

-----------------------------------------------------------------------------
(* The inductive invariant. *)

\* A load returned what its two reads and its environment make of it, and arrays
\* are sequences in every overlay it may have read.
LoadInv ==
    /\ ArrayOfBackends(overlay)
    /\ \A p \in ConfigProcs : got[p].ok =>
          ArrayOfBackends(seen[p]) /\ got[p] = Load(Base, seen[p], env[p])

\* The document setup makes of the operator's overlay, once or again.
Authored == IF authored = Absent THEN <<>> ELSE authored[2]
Target == WithIdentity(Authored)

\* While nothing has lost text of it, an overlay of the shape _emit_toml is made
\* for is the operator's text or setup's version of that, and setup holds the
\* latter while it is about to write.
KeptInv ==
    Emittable(authored) /\ excused = {} =>
        /\ pc["setup"] # "truncated" => overlay = (IF recorded THEN Table(Target) ELSE authored)
        /\ recorded \/ pc["setup"] \in {"existing", "truncated"} =>
              authored # Broken /\ (Has(authored, "ssh") => IsTable(authored[2]["ssh"]))
        /\ pc["setup"] \in {"existing", "truncated"} => mem = Target

IInv == TypeOK /\ LoadInv /\ KeptInv

-----------------------------------------------------------------------------
(* What the documentation says, and the code does not keep. *)

\* "operator-specific overrides (inventory paths, website source, a custom
\* VirtualBox path) survive a re-run of setup" (write_local_overlay), whatever
\* shape the overlay has: not so for arrays and nested tables, nor for texts and
\* keys that TOML has to have escaped or quoted.
OverridesSurvive ==
    pc["setup"] # "truncated" /\ excused = {} =>
        Load(Base, overlay, env["command"]) = Load(Base, Intended, env["command"])
=============================================================================
