----------------------------- MODULE MCClusterConfig -----------------------------
(***************************************************************************)
(* ClusterConfig on the committed base and the overlays an operator        *)
(* writes: with the fields the example file suggests, with the other       *)
(* values that TOML has, and with backends of the operator's own.          *)
(***************************************************************************)
EXTENDS ClusterConfig, TLC

RECURSIVE Merge(_, _)
Merge(base, file) == MergeTables(base, file, Merge)

Text(name) == Str(Plain(name))
Number(n) == <<"int", n>>

Sample(rule) ==
    CASE rule[1] = "port" -> Number(80)
      [] rule[1] = "int" -> Number(rule[2])
      [] rule[1] = "path" -> Str(<<"var", "home">>)
      [] rule[1] = "str" -> Text("text")
      [] rule[1] = "optional" -> Str(<<"blank", "">>)

SampleSection(rules) == [k \in DOMAIN rules |-> Sample(rules[k])]
Host(name) == Table([SampleSection(HostRules) EXCEPT !.vm_name = Text(name)])
Hosts(names) == <<"array", [i \in DOMAIN names |-> Host(names[i])]>>

MCBase ==
    Table([t \in DOMAIN Rules \cup {"backend"} |->
        CASE t = "backend" -> Hosts(<<"one", "two">>)
          [] t = "jump" -> Host("jump")
          [] t = "inventory" ->
                Table([SampleSection(InventoryRules) EXCEPT !.service_port = Number(8080)])
          [] OTHER -> Table(SampleSection(Rules[t]))])

Ssh == [ssh |-> Table([user |-> Str(<<"padded", "me">>), key_path |-> Str(<<"var", "key">>)])]
With(t, k, v) == Table([x \in {"ssh", t} |-> IF x = t THEN Table(k :> v) ELSE Ssh.ssh])

\* Fields of tables, accepted and refused: a boolean for an integer, a machine
\* named like a backend, the jump station's name for the template, a port that is
\* taken, a path with a variable that is not set, a path with a backslash, a text
\* with a double quote, a key with a blank, a table for a text, a scalar for a
\* table; backends that replace the base's, beside it and with the jump station's
\* name.
MCOverlays == {
    Absent, Broken, Table(Ssh),
    With("virtualbox", "cpus", <<"bool", TRUE>>),
    With("virtualbox", "template_image_ref", Str(<<"padded", "ref">>)),
    With("virtualbox", "template_image_ref", Table("tag" :> Text("latest"))),
    With("virtualbox", "template_vm", Text("jump")),
    With("virtualbox", "vboxmanage", Str(<<"unreadable", "exe">>)),
    With("website", "source_url", Str(<<"misread", "url">>)),
    With("website", "my note", Text("note")),
    With("jump", "vm_name", Text("one")),
    With("jump", "http_port", Number(8080)),
    With("inventory", "key_file", Str(<<"unset", "dir">>)),
    Table([ssh |-> Number(1)]),
    Table([backend |-> Hosts(<<"three", "four", "five">>)]),
    Table([backend |-> Hosts(<<"three", "jump">>)]) }

MCEnvUsers == {<<"blank", "">>, <<"padded", "env">>}
MCNewUser == Plain("vmadmin")
MCNewKey == Plain("newkey")
MCQuotedKeys == {"my note"}
==================================================================================
