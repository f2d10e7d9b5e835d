----------------------------- MODULE ConfigDocuments -----------------------------
(***************************************************************************)
(* The documents of config.py and setup.py's overlay writer as values, and *)
(* the functions on them: merging layers, validating a merged document,    *)
(* and printing one as TOML again.                                         *)
(*                                                                         *)
(* A value is <<type, content>>.  Of a text only what the code tells apart *)
(* is kept: padded with blanks, blank, naming a variable that is set or    *)
(* not, the text of a Python object ("repr"), or plain; and the texts with *)
(* a backslash, a double quote or a control character, which TOML, when    *)
(* they stand between quotes as they are, takes for others ("misread", as  *)
(* C:\table) or refuses ("unreadable", as C:\VirtualBox or two lines).     *)
(***************************************************************************)
EXTENDS Integers, Sequences, Functions

\* What merging two tables that lie inside sections gives, from the base's and the
\* overlay's: _deep_merge again.  No reader accepts a table, so nothing here
\* depends on it.
CONSTANT MergeNested(_, _)

\* Keys that TOML takes between quotes only: with a blank in them, or the empty
\* one.  (A key with a dot, which bare is a path of keys, is left out.)
CONSTANT QuotedKeys

Str(t) == <<"str", t>>
Table(f) == <<"table", f>>
Absent == <<"absent">>
Broken == <<"broken">>
Empty == Table(<<>>)

IsTable(v) == v[1] = "table"
Has(v, k) == IsTable(v) /\ k \in DOMAIN v[2]
Plain(name) == <<"plain", name>>

-----------------------------------------------------------------------------
(* Validation. *)

\* What each section must hold: the reader of the field and, for an integer,
\* its minimum.
SshRules == [user |-> <<"str">>, key_path |-> <<"path">>,
             connect_timeout_seconds |-> <<"int", 1>>, command_timeout_seconds |-> <<"int", 1>>]
VirtualBoxRules ==
    [vboxmanage |-> <<"path">>, template_vm |-> <<"str">>, template_ova |-> <<"path">>,
     template_image_ref |-> <<"optional">>, memory_mb |-> <<"int", 512>>, cpus |-> <<"int", 1>>,
     boot_timeout_seconds |-> <<"int", 30>>]
HostRules == [vm_name |-> <<"str">>, hostname |-> <<"str">>, http_port |-> <<"port">>]
InventoryRules ==
    [service_port |-> <<"port">>, remote_dir |-> <<"str">>, key_file |-> <<"path">>,
     datastore_name |-> <<"str">>, manifest_file |-> <<"path">>]
WebsiteRules == [source_url |-> <<"str">>, archive_url |-> <<"str">>, document_root |-> <<"str">>]
BuildRules == [go_version |-> <<"str">>, go_sha256 |-> <<"str">>]

Rules == [ssh |-> SshRules, virtualbox |-> VirtualBoxRules, jump |-> HostRules,
          inventory |-> InventoryRules, website |-> WebsiteRules, build |-> BuildRules]

NoValue == <<"missing">>
Field(section, k) == IF k \in DOMAIN section THEN section[k] ELSE NoValue

Strip(t) == IF t[1] = "padded" THEN Plain(t[2]) ELSE t

\* _require_str: a text that is not blank, stripped.
IsText(v) == v[1] = "str" /\ v[2][1] # "blank"
RequireStr(v) == IF IsText(v) THEN Str(Strip(v[2])) ELSE NoValue

\* _optional_str: the empty default instead of a refusal.
OptionalStr(v) == IF IsText(v) THEN Str(Strip(v[2])) ELSE Str(<<"blank", "">>)

\* _require_int: bool is not an integer here.
RequireInt(v, min) == IF v[1] = "int" /\ v[2] >= min THEN v ELSE NoValue

\* _require_port.
RequirePort(v) == IF RequireInt(v, 1) # NoValue /\ v[2] <= 65535 THEN v ELSE NoValue

\* _require_path: variables and ~ are expanded; a variable that is not set is
\* left in the text, and refused.
Expand(t) == IF t[1] = "var" THEN Plain(t[2]) ELSE t

\* Mutant: a variable that is not set goes unnoticed.
RequirePathUnchecked(v) == IF IsText(v) THEN Str(Expand(Strip(v[2]))) ELSE NoValue

RequirePath(v) ==
    IF IsText(v) /\ v[2][1] # "unset" THEN Str(Expand(Strip(v[2]))) ELSE NoValue

Read(v, rule) ==
    CASE rule[1] = "str" -> RequireStr(v)
      [] rule[1] = "optional" -> OptionalStr(v)
      [] rule[1] = "int" -> RequireInt(v, rule[2])
      [] rule[1] = "port" -> RequirePort(v)
      [] rule[1] = "path" -> RequirePath(v)

ReadSection(section, rules) == [k \in DOMAIN rules |-> Read(Field(section, k), rules[k])]
Complete(section) == NoValue \notin Range(section)

\* _parse_backends: an array of at least two tables, their machine names distinct.
BackendsOK(raw) ==
    /\ raw[1] = "array" /\ Len(raw[2]) >= 2
    /\ \A i \in DOMAIN raw[2] :
          IsTable(raw[2][i]) /\ Complete(ReadSection(raw[2][i][2], HostRules))
ParseBackends(raw) == [i \in DOMAIN raw[2] |-> ReadSection(raw[2][i][2], HostRules)]

VmNames(hosts) == [i \in DOMAIN hosts |-> hosts[i].vm_name]

\* _validate_cross_references over all_hosts, the jump station first.
CrossReferences(cfg) ==
    LET names == VmNames(<<cfg.jump>> \o cfg.backend)
    IN  /\ IsInjective(names)
        /\ cfg.virtualbox.template_vm \notin Range(names)
        /\ cfg.inventory.service_port # cfg.jump.http_port

-----------------------------------------------------------------------------
(* Merging and loading. *)

\* dict(a) updated with b.
Updated(a, b) == [k \in DOMAIN a \cup DOMAIN b |-> IF k \in DOMAIN b THEN b[k] ELSE a[k]]

\* _deep_merge, its recursive call as the parameter Inner: tables are merged key
\* by key, anything else is replaced.
MergeTables(base, overlay, Inner(_, _)) ==
    [k \in DOMAIN base \cup DOMAIN overlay |->
        IF k \notin DOMAIN overlay THEN base[k]
        ELSE IF k \in DOMAIN base /\ IsTable(base[k]) /\ IsTable(overlay[k])
             THEN Table(Inner(base[k][2], overlay[k][2]))
             ELSE overlay[k]]

\* A table of both documents, and the tables inside it as MergeNested has them.
MergeSection(base, overlay) == MergeTables(base, overlay, MergeNested)

\* Mutant: the base is merged over the overlay.
DeepMergeBaseFirst(base, overlay) == MergeTables(overlay, base, MergeSection)

\* _deep_merge of two documents.
DeepMerge(base, overlay) == MergeTables(base, overlay, MergeSection)

\* The environment's account, where there is an [ssh] table to put it in.
WithEnvUser(doc, env) ==
    IF env[1] # "blank" /\ "ssh" \in DOMAIN doc /\ IsTable(doc["ssh"])
    THEN DeepMerge(doc, [ssh |-> Table([user |-> Str(Strip(env))])])
    ELSE doc

Refused == [ok |-> FALSE]

\* The sections in the code's order, then the whole: refused, or a configuration.
Validated(doc) ==
    LET sections == [t \in DOMAIN Rules |->
            IF t \in DOMAIN doc /\ IsTable(doc[t]) THEN ReadSection(doc[t][2], Rules[t])
                                                   ELSE [missing |-> NoValue]]
        raw == Field(doc, "backend")
        cfg == [t \in DOMAIN Rules \cup {"backend"} |->
                   IF t = "backend" THEN ParseBackends(raw) ELSE sections[t]]
    IN  IF (\A t \in DOMAIN Rules : Complete(sections[t])) /\ BackendsOK(raw) /\ CrossReferences(cfg)
        THEN [ok |-> TRUE, cfg |-> cfg]
        ELSE Refused

\* load_cluster_config, given what its two reads returned.
Load(base, overlay, env) ==
    IF overlay = Broken THEN Refused
    ELSE Validated(WithEnvUser(
            IF overlay = Absent THEN base[2] ELSE DeepMerge(base[2], overlay[2]), env))

-----------------------------------------------------------------------------
(* _emit_toml, and what reading its text again gives. *)

\* Integers and booleans survive; everything else is put between quotes as it
\* is: nothing in a text is escaped, arrays and nested tables become text.
Rendered(v) ==
    CASE v[1] \in {"int", "bool"} -> v
      [] v[1] = "str" -> IF v[2][1] = "misread" THEN Str(<<"mangled", v[2][2]>>) ELSE v
      [] OTHER -> Str(<<"repr", v[1]>>)

RenderedTable(f) == [k \in DOMAIN f |-> Rendered(f[k])]

\* A line "key = value" that TOML refuses: keys are printed bare.
Unreadable(k, v) == k \in QuotedKeys \/ (v[1] = "str" /\ v[2][1] = "unreadable")
UnreadableTable(f) == \E k \in DOMAIN f : Unreadable(k, f[k])

\* The file that the emitted text is.
Emitted(f) ==
    IF UnreadableTable(f) \/ \E k \in DOMAIN f : IsTable(f[k]) /\ UnreadableTable(f[k][2])
    THEN Broken
    ELSE Table([k \in DOMAIN f |-> IF IsTable(f[k]) THEN Table(RenderedTable(f[k][2]))
                                                    ELSE Rendered(f[k])])
=============================================================================
