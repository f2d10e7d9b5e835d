-------------------------- MODULE ClusterConfig_proofs --------------------------
(***************************************************************************)
(* Proofs about loading the configuration and recording an identity in the *)
(* overlay, for every base, every set of overlays and of environments, and *)
(* whatever tables inside sections merge to: the inductive invariant IInv  *)
(* of ClusterConfig, and from it the properties of its run.                *)
(***************************************************************************)
EXTENDS ClusterConfig, FiniteSetTheorems, SequenceTheorems, TLAPS

Kinds == {"str", "optional", "int", "port", "path"}

\* The rules name readers that exist.
LEMMA RuleKinds ==
    /\ \A k \in DOMAIN HostRules : HostRules[k][1] \in Kinds
    /\ \A t \in DOMAIN Rules : \A k \in DOMAIN Rules[t] : Rules[t][k][1] \in Kinds
<1>1. \A k \in DOMAIN HostRules : HostRules[k][1] \in Kinds
  BY DEF HostRules, Kinds
<1>2. \A k \in DOMAIN SshRules : SshRules[k][1] \in Kinds
  BY DEF SshRules, Kinds
<1>3. \A k \in DOMAIN VirtualBoxRules : VirtualBoxRules[k][1] \in Kinds
  BY DEF VirtualBoxRules, Kinds
<1>4. \A k \in DOMAIN InventoryRules : InventoryRules[k][1] \in Kinds
  BY DEF InventoryRules, Kinds
<1>5. \A k \in DOMAIN WebsiteRules : WebsiteRules[k][1] \in Kinds
  BY DEF WebsiteRules, Kinds
<1>6. \A k \in DOMAIN BuildRules : BuildRules[k][1] \in Kinds
  BY DEF BuildRules, Kinds
<1> QED
  BY <1>1, <1>2, <1>3, <1>4, <1>5, <1>6 DEF Rules

\* What a reader does not refuse is what it promises.
LEMMA ReaderPromise ==
    ASSUME NEW v, NEW rule, rule[1] \in Kinds, Read(v, rule) # NoValue
    PROVE  WellFormed(Read(v, rule), rule)
<1>1. CASE rule[1] = "str"
  BY <1>1 DEF Read, WellFormed, RequireStr, IsText, Strip, Str, Plain, NoValue
<1>2. CASE rule[1] = "optional"
  <2>1. Read(v, rule) = OptionalStr(v) /\ (WellFormed(Read(v, rule), rule) <=>
          OptionalStr(v)[1] = "str" /\ OptionalStr(v)[2][1] # "padded")
    BY <1>2 DEF Read, WellFormed
  <2>2. CASE IsText(v)
    BY <2>1, <2>2 DEF OptionalStr, Strip, Str, Plain
  <2>3. CASE ~IsText(v)
    BY <2>1, <2>3 DEF OptionalStr, Str
  <2> QED
    BY <2>2, <2>3
<1>3. CASE rule[1] = "int"
  BY <1>3 DEF Read, WellFormed, RequireInt, NoValue
<1>4. CASE rule[1] = "port"
  BY <1>4 DEF Read, WellFormed, RequirePort, RequireInt, NoValue
<1>5. CASE rule[1] = "path"
  BY <1>5 DEF Read, WellFormed, RequirePath, IsText, Expand, Strip, Str, Plain, NoValue
<1> QED
  BY <1>1, <1>2, <1>3, <1>4, <1>5 DEF Kinds

\* No reader tells two tables apart.
LEMMA ReaderOfTable ==
    ASSUME NEW v, NEW w, IsTable(v), IsTable(w), NEW rule, rule[1] \in Kinds
    PROVE  Read(v, rule) = Read(w, rule)
<1>1. ~IsText(v) /\ ~IsText(w) /\ v[1] # "int" /\ w[1] # "int"
  BY DEF IsTable, IsText
<1>2. RequireStr(v) = RequireStr(w) /\ OptionalStr(v) = OptionalStr(w)
  BY <1>1 DEF RequireStr, OptionalStr
<1>3. RequirePath(v) = RequirePath(w) /\ RequireInt(v, rule[2]) = RequireInt(w, rule[2])
  BY <1>1 DEF RequirePath, RequireInt
<1>4. RequirePort(v) = RequirePort(w)
  BY <1>1 DEF RequirePort, RequireInt
<1> QED
  BY <1>2, <1>3, <1>4 DEF Read, Kinds

\* A text that is not blank is read as when it is stripped first.
LEMMA ReaderOfText ==
    ASSUME NEW t, t[1] # "blank", NEW rule, rule[1] = "str"
    PROVE  Read(Str(Strip(t)), rule) = Read(Str(t), rule)
BY DEF Read, RequireStr, IsText, Strip, Str, Plain

-----------------------------------------------------------------------------
(* A load. *)

\* A document that is accepted has every section, and its configuration is what
\* the readers make of them.
LEMMA Accepted ==
    ASSUME NEW doc, Validated(doc).ok
    PROVE  /\ \A t \in DOMAIN Rules :
                 /\ t \in DOMAIN doc /\ IsTable(doc[t])
                 /\ Complete(ReadSection(doc[t][2], Rules[t]))
                 /\ Validated(doc).cfg[t] = ReadSection(doc[t][2], Rules[t])
           /\ "backend" \in DOMAIN doc /\ BackendsOK(doc["backend"])
           /\ Validated(doc).cfg["backend"] = ParseBackends(doc["backend"])
           /\ CrossReferences(Validated(doc).cfg)
<1> DEFINE sections == [t \in DOMAIN Rules |->
               IF t \in DOMAIN doc /\ IsTable(doc[t]) THEN ReadSection(doc[t][2], Rules[t])
                                                      ELSE [missing |-> NoValue]]
           raw == Field(doc, "backend")
           cfg == [t \in DOMAIN Rules \cup {"backend"} |->
                      IF t = "backend" THEN ParseBackends(raw) ELSE sections[t]]
           ok == /\ \A t \in DOMAIN Rules : Complete(sections[t])
                 /\ BackendsOK(raw) /\ CrossReferences(cfg)
<1>1. Validated(doc) = IF ok THEN [ok |-> TRUE, cfg |-> cfg] ELSE Refused
  BY DEF Validated
<1>2. ok /\ Validated(doc).cfg = cfg
  <2> HIDE DEF ok, cfg
  <2> QED
    BY <1>1 DEF Refused
<1>3. "backend" \notin DOMAIN Rules
  BY DEF Rules
<1>4. ASSUME NEW t \in DOMAIN Rules
      PROVE  /\ t \in DOMAIN doc /\ IsTable(doc[t])
             /\ Complete(ReadSection(doc[t][2], Rules[t]))
             /\ cfg[t] = ReadSection(doc[t][2], Rules[t])
  <2>1. Complete(sections[t])
    BY <1>2
  <2>2. ~Complete([missing |-> NoValue])
    BY DEF Complete, Range
  <2>3. t \in DOMAIN doc /\ IsTable(doc[t])
    BY <2>1, <2>2
  <2>4. sections[t] = ReadSection(doc[t][2], Rules[t])
    BY <2>3
  <2> QED
    BY <1>3, <2>1, <2>3, <2>4
<1>5. "backend" \in DOMAIN doc /\ raw = doc["backend"]
  BY <1>2 DEF BackendsOK, Field, NoValue
<1>6. cfg["backend"] = ParseBackends(raw)
  OBVIOUS
<1> HIDE DEF cfg, sections, raw
<1> QED
  BY <1>2, <1>4, <1>5, <1>6

\* The base with an overlay over it.
Merged(file) == IF file = Absent THEN Base[2] ELSE DeepMerge(Base[2], file[2])

\* A field of a merged section is read as the overlay's where it gives one, and
\* otherwise as the base's.
LEMMA MergedField ==
    ASSUME NEW file, file = Absent \/ IsTable(file), NEW t \in DOMAIN Rules,
           IsTable(Merged(file)[t]), NEW k \in DOMAIN Rules[t]
    PROVE  Read(Field(Merged(file)[t][2], k), Rules[t][k]) =
           Read(IF Has(file, t) /\ Has(file[2][t], k) THEN file[2][t][2][k]
                ELSE Field(Base[2][t][2], k), Rules[t][k])
<1> DEFINE B == Base[2][t][2]
           F == file[2][t][2]
           rule == Rules[t][k]
<1>1. t \in DOMAIN Base[2] /\ IsTable(Base[2][t])
  BY ConfigAssumption DEF Has
<1>2. rule[1] \in Kinds
  BY RuleKinds
<1>3. CASE file = Absent
  BY <1>3 DEF Merged, Has, IsTable, Absent
<1>4. CASE IsTable(file) /\ t \notin DOMAIN file[2]
  <2>1. file # Absent
    BY <1>4 DEF IsTable, Absent
  <2>2. Merged(file)[t] = Base[2][t]
    BY <1>1, <1>4, <2>1 DEF Merged, DeepMerge, MergeTables
  <2> QED
    BY <1>4, <2>2 DEF Has
<1>5. CASE IsTable(file) /\ t \in DOMAIN file[2]
  <2>1. file # Absent
    BY <1>5 DEF IsTable, Absent
  <2>2. Merged(file)[t] = IF IsTable(file[2][t]) THEN Table(MergeSection(B, F)) ELSE file[2][t]
    BY <1>1, <1>5, <2>1 DEF Merged, DeepMerge, MergeTables
  <2>3. IsTable(file[2][t]) /\ Merged(file)[t][2] = MergeSection(B, F)
    BY <2>2 DEF Table
  <2>4. DOMAIN MergeSection(B, F) = DOMAIN B \cup DOMAIN F
    BY DEF MergeSection, MergeTables
  <2>5. CASE k \in DOMAIN F
    <3>1. Has(file, t) /\ Has(file[2][t], k)
      BY <1>5, <2>3, <2>5 DEF Has
    <3>2. Field(MergeSection(B, F), k) = MergeSection(B, F)[k]
      BY <2>4, <2>5 DEF Field
    <3>3. CASE k \in DOMAIN B /\ IsTable(B[k]) /\ IsTable(F[k])
      <4>1. MergeSection(B, F)[k] = Table(MergeNested(B[k][2], F[k][2]))
        BY <2>5, <3>3 DEF MergeSection, MergeTables
      <4>2. IsTable(MergeSection(B, F)[k])
        BY <4>1 DEF IsTable, Table
      <4> QED
        BY <1>2, <2>3, <3>1, <3>2, <3>3, <4>2, ReaderOfTable
    <3>4. CASE ~(k \in DOMAIN B /\ IsTable(B[k]) /\ IsTable(F[k]))
      <4>1. MergeSection(B, F)[k] = F[k]
        BY <2>5, <3>4 DEF MergeSection, MergeTables
      <4> QED
        BY <2>3, <3>1, <3>2, <4>1
    <3> QED
      BY <3>3, <3>4
  <2>6. CASE k \notin DOMAIN F
    <3>1. ~Has(file[2][t], k)
      BY <2>6 DEF Has
    <3>2. Field(MergeSection(B, F), k) = Field(B, k)
      BY <2>4, <2>6 DEF Field, MergeSection, MergeTables
    <3> QED
      BY <2>3, <3>1, <3>2
  <2> QED
    BY <2>5, <2>6
<1> QED
  BY <1>3, <1>4, <1>5

\* The environment's account replaces the account and nothing else.
LEMMA EnvField ==
    ASSUME NEW doc, NEW e, NEW t \in DOMAIN Rules, t \in DOMAIN doc,
           IsTable(WithEnvUser(doc, e)[t]), NEW k \in DOMAIN Rules[t]
    PROVE  /\ IsTable(doc[t])
           /\ Read(Field(WithEnvUser(doc, e)[t][2], k), Rules[t][k]) =
              Read(IF t = "ssh" /\ k = "user" /\ e[1] # "blank" THEN Str(e)
                   ELSE Field(doc[t][2], k), Rules[t][k])
<1> DEFINE User == [user |-> Str(Strip(e))]
<1>1. CASE ~(e[1] # "blank" /\ "ssh" \in DOMAIN doc /\ IsTable(doc["ssh"]))
  <2>1. WithEnvUser(doc, e) = doc
    BY <1>1 DEF WithEnvUser
  <2> QED
    BY <1>1, <2>1
<1>2. CASE e[1] # "blank" /\ "ssh" \in DOMAIN doc /\ IsTable(doc["ssh"])
  <2>1. WithEnvUser(doc, e) = DeepMerge(doc, [ssh |-> Table(User)])
    BY <1>2 DEF WithEnvUser
  <2>2. CASE t # "ssh"
    <3>1. WithEnvUser(doc, e)[t] = doc[t]
      BY <2>1, <2>2 DEF DeepMerge, MergeTables
    <3> QED
      BY <2>2, <3>1
  <2>3. CASE t = "ssh"
    <3>1. IsTable(Table(User)) /\ Table(User)[2] = User
      BY DEF IsTable, Table
    <3>2. WithEnvUser(doc, e)["ssh"] = Table(MergeSection(doc["ssh"][2], User))
      <4> DEFINE over == [ssh |-> Table(User)]
      <4>1. "ssh" \in DOMAIN over /\ over["ssh"] = Table(User)
        OBVIOUS
      <4> HIDE DEF over, User
      <4>2. DeepMerge(doc, over)["ssh"] = Table(MergeSection(doc["ssh"][2], over["ssh"][2]))
        BY <1>2, <3>1, <4>1 DEF DeepMerge, MergeTables
      <4> QED
        BY <2>1, <3>1, <4>1, <4>2 DEF over
    <3>3. WithEnvUser(doc, e)["ssh"][2] = MergeSection(doc["ssh"][2], User)
      BY <3>2 DEF Table
    <3>4. CASE k = "user"
      <4>1. ~IsTable(User[k]) /\ k \in DOMAIN User /\ User[k] = Str(Strip(e))
        BY <3>4 DEF IsTable, Str
      <4>2. Field(MergeSection(doc["ssh"][2], User), k) = Str(Strip(e))
        <5> HIDE DEF User
        <5> QED
          BY <4>1 DEF Field, MergeSection, MergeTables
      <4>3. Rules[t][k][1] = "str"
        BY <2>3, <3>4 DEF Rules, SshRules
      <4> QED
        BY <1>2, <2>3, <3>3, <3>4, <4>2, <4>3, ReaderOfText
    <3>5. CASE k # "user"
      <4>1. k \notin DOMAIN User
        BY <3>5
      <4>2. Field(MergeSection(doc["ssh"][2], User), k) = Field(doc["ssh"][2], k)
        <5> HIDE DEF User
        <5> QED
          BY <4>1 DEF Field, MergeSection, MergeTables
      <4> QED
        BY <1>2, <2>3, <3>3, <3>5, <4>2
    <3> QED
      BY <3>4, <3>5
  <2> QED
    BY <2>2, <2>3
<1> QED
  BY <1>1, <1>2

\* What a load that is not refused returns: each field as its reader reads it
\* from the highest layer that gives it, nothing missing, and one layer's backends.
LEMMA LoadResult ==
    ASSUME NEW file, IsFile(file), NEW e, Load(Base, file, e).ok
    PROVE  /\ \A t \in DOMAIN Rules : \A k \in DOMAIN Rules[t] :
                 /\ Load(Base, file, e).cfg[t][k] # NoValue
                 /\ Load(Base, file, e).cfg[t][k] =
                      Read(IF t = "ssh" /\ k = "user" /\ e[1] # "blank" THEN Str(e)
                           ELSE IF Has(file, t) /\ Has(file[2][t], k) THEN file[2][t][2][k]
                           ELSE Field(Base[2][t][2], k), Rules[t][k])
           /\ LET raw == IF Has(file, "backend") THEN file[2]["backend"] ELSE Base[2]["backend"]
              IN  /\ BackendsOK(raw)
                  /\ Load(Base, file, e).cfg["backend"] = ParseBackends(raw)
                  /\ ~Has(file, "backend") => Has(Base, "backend")
           /\ CrossReferences(Load(Base, file, e).cfg)
<1> DEFINE M == Merged(file)
           doc == WithEnvUser(M, e)
<1>1. file # Broken
  BY DEF Load, Refused
<1>2. Load(Base, file, e) = Validated(doc)
  BY <1>1 DEF Load, Merged
<1>3. file = Absent \/ IsTable(file)
  BY <1>1 DEF IsFile
<1>4. /\ \A t \in DOMAIN Rules :
            /\ t \in DOMAIN doc /\ IsTable(doc[t])
            /\ Complete(ReadSection(doc[t][2], Rules[t]))
            /\ Validated(doc).cfg[t] = ReadSection(doc[t][2], Rules[t])
      /\ "backend" \in DOMAIN doc /\ BackendsOK(doc["backend"])
      /\ Validated(doc).cfg["backend"] = ParseBackends(doc["backend"])
      /\ CrossReferences(Validated(doc).cfg)
  <2>1. Validated(doc).ok
    BY <1>2
  <2> HIDE DEF doc
  <2> QED
    BY <2>1, Accepted
<1>5. ASSUME NEW t \in DOMAIN Rules, NEW k \in DOMAIN Rules[t]
      PROVE  /\ Validated(doc).cfg[t][k] # NoValue
             /\ Validated(doc).cfg[t][k] =
                  Read(IF t = "ssh" /\ k = "user" /\ e[1] # "blank" THEN Str(e)
                       ELSE IF Has(file, t) /\ Has(file[2][t], k) THEN file[2][t][2][k]
                       ELSE Field(Base[2][t][2], k), Rules[t][k])
  <2>1. t \in DOMAIN M
    BY ConfigAssumption DEF Merged, DeepMerge, MergeTables, Has
  <2>2. IsTable(M[t]) /\ Read(Field(doc[t][2], k), Rules[t][k]) =
          Read(IF t = "ssh" /\ k = "user" /\ e[1] # "blank" THEN Str(e)
               ELSE Field(M[t][2], k), Rules[t][k])
    <3>1. IsTable(doc[t])
      BY <1>4
    <3> HIDE DEF M
    <3> QED
      BY <2>1, <3>1, EnvField
  <2>3. Read(Field(M[t][2], k), Rules[t][k]) =
        Read(IF Has(file, t) /\ Has(file[2][t], k) THEN file[2][t][2][k]
             ELSE Field(Base[2][t][2], k), Rules[t][k])
    BY <1>3, <2>2, MergedField
  <2>4. ReadSection(doc[t][2], Rules[t])[k] = Read(Field(doc[t][2], k), Rules[t][k])
    BY DEF ReadSection
  <2>5. ReadSection(doc[t][2], Rules[t])[k] # NoValue
    <3>1. Complete(ReadSection(doc[t][2], Rules[t]))
      BY <1>4
    <3>2. DOMAIN ReadSection(doc[t][2], Rules[t]) = DOMAIN Rules[t]
      BY DEF ReadSection
    <3> QED
      BY <3>1, <3>2 DEF Complete, Range
  <2>6. Validated(doc).cfg[t] = ReadSection(doc[t][2], Rules[t])
    BY <1>4
  <2> HIDE DEF doc, M
  <2> QED
    BY <2>2, <2>3, <2>4, <2>5, <2>6
<1>6. "backend" \in DOMAIN M /\ doc["backend"] = M["backend"]
  <2> HIDE DEF M
  <2> QED
    BY <1>4 DEF WithEnvUser, DeepMerge, MergeTables
<1>7. /\ ~Has(file, "backend") => Has(Base, "backend")
      /\ M["backend"] = IF Has(file, "backend") THEN file[2]["backend"] ELSE Base[2]["backend"]
  <2>1. ~IsTable(M["backend"])
    BY <1>4, <1>6 DEF BackendsOK, IsTable
  <2>2. CASE file = Absent
    <3>1. M = Base[2] /\ ~Has(file, "backend")
      BY <2>2 DEF Merged, Has, IsTable, Absent
    <3> QED
      BY <1>6, <3>1, ConfigAssumption DEF Has
  <2>3. CASE IsTable(file)
    <3>1. M = DeepMerge(Base[2], file[2])
      BY <2>3 DEF Merged, IsTable, Absent
    <3>2. CASE "backend" \in DOMAIN file[2]
      <4>1. M["backend"] = file[2]["backend"] \/ IsTable(M["backend"])
        BY <3>1, <3>2 DEF DeepMerge, MergeTables, IsTable, Table
      <4> QED
        BY <2>1, <2>3, <3>2, <4>1 DEF Has
    <3>3. CASE "backend" \notin DOMAIN file[2]
      <4>1. "backend" \in DOMAIN Base[2] /\ M["backend"] = Base[2]["backend"]
        BY <1>6, <3>1, <3>3 DEF DeepMerge, MergeTables
      <4> QED
        BY <3>3, <4>1, ConfigAssumption DEF Has
    <3> QED
      BY <3>2, <3>3
  <2> QED
    BY <1>3, <2>2, <2>3
<1> HIDE DEF doc, M
<1> QED
  BY <1>2, <1>4, <1>5, <1>6, <1>7

\* Machines with distinct names, none of them the template's, are as many names
\* as machines.
LEMMA NamesCounted ==
    ASSUME NEW S, NEW backend \in Seq(S), NEW jump, NEW template,
           LET names == VmNames(<<jump>> \o backend)
           IN  IsInjective(names) /\ template \notin Range(names)
    PROVE  Cardinality({jump.vm_name, template} \cup {backend[i].vm_name : i \in DOMAIN backend})
             = Len(backend) + 2
<1> DEFINE all == <<jump>> \o backend
           names == VmNames(all)
           n == Len(backend) + 1
<1>1. /\ Len(backend) \in Nat /\ DOMAIN backend = 1..Len(backend)
      /\ DOMAIN all = 1..n /\ all[1] = jump
      /\ \A i \in 1..Len(backend) : all[i + 1] = backend[i]
  OBVIOUS
<1>2. /\ DOMAIN names = 1..n /\ names[1] = jump.vm_name
      /\ \A i \in 1..n : names[i] = all[i].vm_name
  <2> HIDE DEF all
  <2> QED
    BY <1>1 DEF VmNames
<1>3. \A i \in 1..Len(backend) : names[i + 1] = backend[i].vm_name
  BY <1>1, <1>2
<1> HIDE DEF all
<1>4. Range(names) = {jump.vm_name} \cup {backend[i].vm_name : i \in DOMAIN backend}
  <2>1. ASSUME NEW x \in Range(names)
        PROVE  x \in {jump.vm_name} \cup {backend[i].vm_name : i \in DOMAIN backend}
    <3>1. PICK i \in 1..n : x = names[i]
      BY <1>2 DEF Range
    <3>2. CASE i = 1
      BY <1>2, <3>1, <3>2
    <3>3. CASE i # 1
      <4>1. i - 1 \in 1..Len(backend) /\ names[(i - 1) + 1] = backend[i - 1].vm_name /\ (i - 1) + 1 = i
        BY <1>1, <1>3, <3>3
      <4> QED
        BY <1>1, <3>1, <4>1
    <3> QED
      BY <3>2, <3>3
  <2>2. ASSUME NEW x \in {jump.vm_name} \cup {backend[i].vm_name : i \in DOMAIN backend}
        PROVE  x \in Range(names)
    <3>1. CASE x = jump.vm_name
      <4>1. 1 \in 1..n
        BY <1>1
      <4> QED
        BY <1>2, <3>1, <4>1 DEF Range
    <3>2. CASE x # jump.vm_name
      <4>1. PICK i \in 1..Len(backend) : x = backend[i].vm_name
        BY <1>1, <3>2
      <4>2. i + 1 \in 1..n /\ x = names[i + 1]
        BY <1>1, <1>3, <4>1
      <4> QED
        BY <1>2, <4>2 DEF Range
    <3> QED
      BY <3>1, <3>2
  <2> QED
    BY <2>1, <2>2
<1>5. names \in Surjection(1..n, Range(names)) /\ names \in Injection(1..n, Range(names))
  <2>1. IsInjective(names)
    BY DEF all
  <2>2. names \in [1..n -> Range(names)]
    <3>1. names = [i \in DOMAIN all |-> all[i].vm_name]
      BY DEF VmNames
    <3> QED
      BY <1>1, <1>2, <3>1 DEF Range
  <2> HIDE DEF names
  <2> QED
    BY <1>2, <2>1, <2>2 DEF Surjection, Injection, IsInjective, Range
<1>6. IsFiniteSet(Range(names)) /\ Cardinality(Range(names)) = n
  <2>1. IsFiniteSet(1..n) /\ Cardinality(1..n) = n
    BY <1>1, FS_Interval
  <2> HIDE DEF names, n
  <2> QED
    BY <1>5, <2>1, FS_Surjection
<1>7. Cardinality(Range(names) \cup {template}) = n + 1
  <2>1. template \notin Range(names)
    BY DEF all
  <2> HIDE DEF names, n
  <2> QED
    BY <1>6, <2>1, FS_AddElement
<1>8. {jump.vm_name, template} \cup {backend[i].vm_name : i \in DOMAIN backend} =
        Range(names) \cup {template}
  BY <1>4
<1>9. n + 1 = Len(backend) + 2
  BY <1>1
<1> HIDE DEF names, n
<1> QED
  BY <1>7, <1>8, <1>9

-----------------------------------------------------------------------------
(* Writing the overlay. *)

\* Whatever setup holds, it writes a file without an array at its top.
LEMMA EmittedFile == ASSUME NEW f PROVE IsFile(Emitted(f)) /\ ArrayOfBackends(Emitted(f))
<1> DEFINE g == [k \in DOMAIN f |-> IF IsTable(f[k]) THEN Table(RenderedTable(f[k][2]))
                                                     ELSE Rendered(f[k])]
<1>1. Emitted(f) = Broken \/ Emitted(f) = Table(g)
  BY DEF Emitted
<1>2. \A v : Rendered(v)[1] # "array"
  <2> SUFFICES ASSUME NEW v PROVE Rendered(v)[1] # "array"
    OBVIOUS
  <2>1. CASE v[1] \in {"int", "bool"}
    BY <2>1 DEF Rendered
  <2>2. CASE v[1] = "str"
    BY <2>2 DEF Rendered, Str
  <2>3. CASE v[1] \notin {"int", "bool", "str"}
    BY <2>3 DEF Rendered, Str
  <2> QED
    BY <2>1, <2>2, <2>3
<1>3. \A k \in DOMAIN g : g[k][1] # "array"
  BY <1>2 DEF Table
<1> HIDE DEF g
<1>4. IsTable(Table(g)) /\ Table(g)[2] = g /\ ~IsTable(Broken)
  BY DEF IsTable, Table, Broken
<1> QED
  BY <1>1, <1>3, <1>4 DEF IsFile, ArrayOfBackends, Has

\* Printing a document of the shape _emit_toml is made for loses nothing.
LEMMA EmittedShallow == ASSUME NEW f, Shallow(f) PROVE Emitted(f) = Table(f)
<1>1. \A v : Scalar(v) => /\ Rendered(v) = v /\ ~IsTable(v)
                          /\ \A k : k \notin QuotedKeys => ~Unreadable(k, v)
  BY DEF Scalar, Rendered, Unreadable, IsTable
<1>2. \A s : Scalars(s) => RenderedTable(s) = s /\ ~UnreadableTable(s)
  BY <1>1 DEF Scalars, BareMapping, RenderedTable, UnreadableTable
<1>3. \A s : /\ IsTable(Table(s)) /\ Table(s)[2] = s
            /\ \A k : k \notin QuotedKeys => ~Unreadable(k, Table(s))
  BY DEF IsTable, Table, Unreadable
<1>4. ASSUME NEW k \in DOMAIN f
      PROVE  /\ ~(Unreadable(k, f[k]) \/ (IsTable(f[k]) /\ UnreadableTable(f[k][2])))
             /\ f[k] = IF IsTable(f[k]) THEN Table(RenderedTable(f[k][2])) ELSE Rendered(f[k])
  <2>0. k \notin QuotedKeys
    BY DEF Shallow, BareMapping
  <2>1. CASE Scalar(f[k])
    BY <1>1, <2>0, <2>1
  <2>2. CASE f[k] = Table(f[k][2]) /\ Scalars(f[k][2])
    BY <1>1, <1>2, <1>3, <2>0, <2>2 DEF Scalars
  <2> QED
    BY <2>1, <2>2 DEF Shallow
<1>5. Emitted(f) = Table([k \in DOMAIN f |-> IF IsTable(f[k]) THEN Table(RenderedTable(f[k][2]))
                                                              ELSE Rendered(f[k])])
  BY <1>4 DEF Emitted, UnreadableTable
<1>6. [k \in DOMAIN f |-> IF IsTable(f[k]) THEN Table(RenderedTable(f[k][2])) ELSE Rendered(f[k])]
        = [k \in DOMAIN f |-> f[k]]
  BY <1>4
<1> QED
  BY <1>5, <1>6 DEF Shallow, BareMapping

\* The account and the key of the overlay that setup writes.
LEMMA IdentityFields ==
    /\ DOMAIN Identity = {"user", "key_path"}
    /\ \A k \in DOMAIN Identity : Scalar(Identity[k]) /\ ~IsTable(Identity[k])
BY ConfigAssumption DEF Identity, Scalar, IsTable, Str

\* Recording the identity keeps the shape; recording it again changes nothing; and
\* it is what merging the identity over the document gives.
LEMMA IdentityRecorded ==
    ASSUME NEW doc, Shallow(doc), "ssh" \in DOMAIN doc => IsTable(doc["ssh"])
    PROVE  /\ Shallow(WithIdentity(doc))
           /\ WithIdentity(WithIdentity(doc)) = WithIdentity(doc)
           /\ DeepMerge(doc, [ssh |-> Table(Identity)]) = WithIdentity(doc)
           /\ "ssh" \in DOMAIN WithIdentity(doc) /\ IsTable(WithIdentity(doc)["ssh"])
<1> DEFINE old == IF "ssh" \in DOMAIN doc THEN doc["ssh"][2] ELSE <<>>
           new == Updated(old, Identity)
           W == WithIdentity(doc)
<1>1. \A s : IsTable(Table(s)) /\ Table(s)[2] = s
  BY DEF IsTable, Table
<1>2. W = [k \in DOMAIN doc \cup {"ssh"} |-> IF k = "ssh" THEN Table(new) ELSE doc[k]]
  <2> DEFINE over == [ssh |-> Table(new)]
  <2>1. DOMAIN over = {"ssh"} /\ over["ssh"] = Table(new)
    OBVIOUS
  <2>2. W = Updated(doc, over)
    BY DEF WithIdentity
  <2> HIDE DEF over, W, new
  <2> QED
    BY <2>1, <2>2 DEF Updated
<1>3. Scalars(old)
  <2>1. CASE "ssh" \in DOMAIN doc
    <3>1. ~Scalar(doc["ssh"])
      BY <2>1 DEF Scalar, IsTable
    <3> QED
      BY <2>1, <3>1 DEF Shallow
  <2>2. CASE "ssh" \notin DOMAIN doc
    BY <2>2 DEF Scalars, BareMapping
  <2> QED
    BY <2>1, <2>2
<1> HIDE DEF old
<1>4. /\ DOMAIN new = DOMAIN old \cup DOMAIN Identity
      /\ \A k \in DOMAIN new : new[k] = IF k \in DOMAIN Identity THEN Identity[k] ELSE old[k]
      /\ new = [k \in DOMAIN new |-> new[k]]
  BY DEF Updated
<1>5. Scalars(new)
  <2>1. \A k \in DOMAIN new : Scalar(new[k]) /\ k \notin QuotedKeys
    <3> HIDE DEF new
    <3> QED
      BY <1>3, <1>4, IdentityFields, ConfigAssumption DEF Scalars, BareMapping
  <2> HIDE DEF new
  <2> QED
    BY <1>4, <2>1 DEF Scalars, BareMapping
<1>6. Updated(new, Identity) = new
  <2>1. DOMAIN new \cup DOMAIN Identity = DOMAIN new
    BY <1>4
  <2>2. Updated(new, Identity) = [k \in DOMAIN new |-> IF k \in DOMAIN Identity THEN Identity[k] ELSE new[k]]
    BY <2>1 DEF Updated
  <2> HIDE DEF new
  <2> QED
    BY <1>4, <2>2
<1>7. MergeSection(old, Identity) = new
  <2>1. \A k \in DOMAIN old \cup DOMAIN Identity :
          (IF k \notin DOMAIN Identity THEN old[k]
           ELSE IF k \in DOMAIN old /\ IsTable(old[k]) /\ IsTable(Identity[k])
                THEN Table(MergeNested(old[k][2], Identity[k][2]))
                ELSE Identity[k]) = IF k \in DOMAIN Identity THEN Identity[k] ELSE old[k]
    BY IdentityFields
  <2> QED
    BY <2>1 DEF MergeSection, MergeTables, Updated
<1> HIDE DEF new
<1>8. /\ "ssh" \in DOMAIN W /\ W["ssh"] = Table(new) /\ IsTable(W["ssh"]) /\ W["ssh"][2] = new
      /\ W = [k \in DOMAIN W |-> W[k]]
  BY <1>1, <1>2
<1>9. Shallow(W)
  <2>1. ASSUME NEW k \in DOMAIN W
        PROVE  Scalar(W[k]) \/ (W[k] = Table(W[k][2]) /\ Scalars(W[k][2]))
    <3>1. CASE k = "ssh"
      BY <1>1, <1>5, <1>8, <3>1
    <3>2. CASE k # "ssh"
      BY <1>2, <3>2 DEF Shallow
    <3> QED
      BY <3>1, <3>2
  <2>2. DOMAIN W \cap QuotedKeys = {}
    <3>1. DOMAIN W = DOMAIN doc \cup {"ssh"}
      BY <1>2
    <3> HIDE DEF W
    <3> QED
      BY <3>1, ConfigAssumption DEF Shallow, BareMapping
  <2> HIDE DEF W
  <2> QED
    BY <1>8, <2>1, <2>2 DEF Shallow, BareMapping
<1>10. WithIdentity(W) = W
  <2> DEFINE over == [ssh |-> Table(new)]
  <2>1. WithIdentity(W) = Updated(W, over)
    <3> HIDE DEF W
    <3> QED
      BY <1>6, <1>8 DEF WithIdentity
  <2>2. DOMAIN over = {"ssh"} /\ over["ssh"] = Table(new)
    OBVIOUS
  <2>3. DOMAIN W \cup {"ssh"} = DOMAIN W
    BY <1>8
  <2> HIDE DEF over, W
  <2>4. Updated(W, over) = [k \in DOMAIN W |-> IF k \in {"ssh"} THEN over[k] ELSE W[k]]
    BY <2>2, <2>3 DEF Updated
  <2>5. \A k \in DOMAIN W : (IF k \in {"ssh"} THEN over[k] ELSE W[k]) = W[k]
    BY <1>8, <2>2
  <2>6. [k \in DOMAIN W |-> IF k \in {"ssh"} THEN over[k] ELSE W[k]] = [k \in DOMAIN W |-> W[k]]
    BY <2>5
  <2> QED
    BY <1>8, <2>1, <2>4, <2>6
<1>11. DeepMerge(doc, [ssh |-> Table(Identity)]) = W
  <2> DEFINE over == [ssh |-> Table(Identity)]
  <2>1. DOMAIN over = {"ssh"} /\ over["ssh"] = Table(Identity)
    OBVIOUS
  <2> HIDE DEF over
  <2>2. ASSUME NEW k \in DOMAIN doc \cup {"ssh"}
        PROVE  (IF k \notin {"ssh"} THEN doc[k]
                ELSE IF k \in DOMAIN doc /\ IsTable(doc[k]) /\ IsTable(over[k])
                     THEN Table(MergeSection(doc[k][2], over[k][2]))
                     ELSE over[k]) = IF k = "ssh" THEN Table(new) ELSE doc[k]
    <3>1. CASE k # "ssh"
      BY <3>1
    <3>2. CASE k = "ssh" /\ "ssh" \in DOMAIN doc
      BY <1>1, <1>7, <2>1, <3>2 DEF old
    <3>3. CASE k = "ssh" /\ "ssh" \notin DOMAIN doc
      <4>1. Identity = new
        <5>1. DOMAIN old = {}
          BY <3>3 DEF old
        <5>2. Identity = [j \in DOMAIN Identity |-> Identity[j]]
          BY DEF Identity
        <5> QED
          BY <1>4, <5>1, <5>2
      <4> QED
        BY <2>1, <3>3, <4>1
    <3> QED
      BY <3>1, <3>2, <3>3
  <2>3. DeepMerge(doc, over) =
          [k \in DOMAIN doc \cup {"ssh"} |->
              IF k \notin {"ssh"} THEN doc[k]
              ELSE IF k \in DOMAIN doc /\ IsTable(doc[k]) /\ IsTable(over[k])
                   THEN Table(MergeSection(doc[k][2], over[k][2]))
                   ELSE over[k]]
    BY <2>1 DEF DeepMerge, MergeTables
  <2> HIDE DEF W
  <2>4. DeepMerge(doc, over) = W
    BY <1>2, <2>2, <2>3
  <2> QED
    BY <2>4 DEF over
<1> QED
  BY <1>8, <1>9, <1>10, <1>11

-----------------------------------------------------------------------------
(* The inductive invariant. *)

\* A configuration that a load returned has the types its readers promise.
LEMMA LoadTyped ==
    ASSUME NEW file, IsFile(file), NEW e, Load(Base, file, e).ok
    PROVE  WellTyped(Load(Base, file, e).cfg)
<1> DEFINE c == Load(Base, file, e).cfg
           raw == IF Has(file, "backend") THEN file[2]["backend"] ELSE Base[2]["backend"]
<1>1. ASSUME NEW t \in DOMAIN Rules, NEW k \in DOMAIN Rules[t]
      PROVE  WellFormed(c[t][k], Rules[t][k])
  <2>1. \E v : c[t][k] = Read(v, Rules[t][k]) /\ c[t][k] # NoValue
    BY LoadResult
  <2> HIDE DEF c
  <2> QED
    BY <2>1, RuleKinds, ReaderPromise
<1>2. BackendsOK(raw) /\ c["backend"] = ParseBackends(raw)
  BY LoadResult
<1> HIDE DEF c, raw
<1>3. ASSUME NEW i \in DOMAIN c.backend, NEW k \in DOMAIN HostRules
      PROVE  WellFormed(c.backend[i][k], HostRules[k])
  <2> DEFINE section == ReadSection(raw[2][i][2], HostRules)
  <2>1. c.backend[i] = section /\ Complete(section)
    BY <1>2, <1>3 DEF ParseBackends, BackendsOK
  <2>2. DOMAIN section = DOMAIN HostRules /\ section[k] = Read(Field(raw[2][i][2], k), HostRules[k])
    BY DEF ReadSection
  <2> HIDE DEF section
  <2>3. section[k] # NoValue
    BY <2>1, <2>2 DEF Complete, Range
  <2> QED
    BY <2>1, <2>2, <2>3, RuleKinds, ReaderPromise
<1> QED
  BY <1>1, <1>3 DEF c, WellTyped


\* The initial states satisfy the invariant.
LEMMA ConfigInit == Init => IInv
<1> SUFFICES ASSUME Init PROVE IInv
  OBVIOUS
<1>1. IsFile(overlay) /\ IsFile(Absent) /\ ArrayOfBackends(overlay)
  BY ConfigAssumption DEF Init, IsFile
<1>2. \A p \in ConfigProcs : ~got[p].ok
  BY DEF Init, Refused
<1>3. TypeOK
  <2>1. /\ pc \in [ConfigProcs -> Pcs] /\ env \in [ConfigProcs -> EnvUsers]
        /\ DOMAIN got = ConfigProcs /\ DOMAIN seen = ConfigProcs
        /\ \A p \in ConfigProcs : seen[p] = Absent
    BY DEF Init, Pcs
  <2>2. edits \in 0..MaxEdits
    BY ConfigAssumption DEF Init
  <2>3. IsFile(authored) /\ recorded \in BOOLEAN /\ excused \subseteq {"raced", "failed", "killed"}
    BY <1>1 DEF Init
  <2>4. \A p \in ConfigProcs : IsFile(seen[p]) /\ (got[p].ok => WellTyped(got[p].cfg))
    BY <1>1, <1>2, <2>1
  <2> QED
    BY <1>1, <2>1, <2>2, <2>3, <2>4 DEF TypeOK
<1>4. LoadInv
  BY <1>1, <1>2 DEF LoadInv
<1>5. KeptInv
  BY DEF Init, KeptInv, ConfigProcs
<1> QED
  BY <1>3, <1>4, <1>5 DEF IInv

\* The end of a load keeps the invariant: it returns what it read.
LEMMA LoadedStep ==
    ASSUME IInv, NEW p \in ConfigProcs, NEW file, IsFile(file), ArrayOfBackends(file),
           pc[p] \in {"base", "overlay"}, Loaded(p, file)
    PROVE  IInv'
<1> USE DEF IInv
<1>1. /\ TypeOK /\ LoadInv /\ KeptInv
      /\ UNCHANGED <<overlay, env, mem, authored, recorded, excused, edits>>
  BY DEF Loaded, history
<1>2. /\ DOMAIN got' = ConfigProcs /\ DOMAIN seen' = ConfigProcs
      /\ got'[p] = Load(Base, file, env[p]) /\ seen'[p] = file
      /\ \A q \in ConfigProcs \ {p} : got'[q] = got[q] /\ seen'[q] = seen[q]
  BY <1>1 DEF TypeOK, Loaded
<1>3. /\ pc' \in [ConfigProcs -> Pcs] /\ pc'[p] \in {"loaded", "idle"}
      /\ \A q \in ConfigProcs \ {p} : pc'[q] = pc[q]
  BY <1>1 DEF TypeOK, Loaded, Goto, Pcs
<1>4. ASSUME NEW q \in ConfigProcs
      PROVE  /\ IsFile(seen'[q]) /\ (got'[q].ok => WellTyped(got'[q].cfg))
             /\ got'[q].ok => ArrayOfBackends(seen'[q]) /\ got'[q] = Load(Base, seen'[q], env[q])
  <2>1. CASE q = p
    BY <1>2, <2>1, LoadTyped
  <2>2. CASE q # p
    BY <1>1, <1>2, <2>2 DEF TypeOK, LoadInv
  <2> QED
    BY <2>1, <2>2
<1>5. TypeOK'
  BY <1>1, <1>2, <1>3, <1>4 DEF TypeOK
<1>6. LoadInv'
  BY <1>1, <1>4 DEF LoadInv
<1>7. KeptInv'
  <2>1. /\ pc'["setup"] \in {"existing", "truncated"} => pc["setup"] = pc'["setup"]
        /\ pc'["setup"] # "truncated" => pc["setup"] # "truncated"
    BY <1>3 DEF ConfigProcs
  <2>2. Emittable(authored)' = Emittable(authored) /\ Target' = Target
    BY <1>1 DEF Emittable, Target, Authored, WithIdentity, Shallow, Scalars, BareMapping
  <2> QED
    BY <1>1, <2>1, <2>2 DEF KeptInv
<1> QED
  BY <1>5, <1>6, <1>7

\* A step that neither reads nor writes a configuration keeps LoadInv, and TypeOK
\* follows from what it does to the rest.
LEMMA QuietStep ==
    ASSUME IInv, UNCHANGED <<overlay, env, got, seen, authored, recorded, edits>>,
           pc' \in [ConfigProcs -> Pcs], excused' \subseteq {"raced", "failed", "killed"}
    PROVE  TypeOK' /\ LoadInv'
<1>1. TypeOK /\ LoadInv
  BY DEF IInv
<1>2. TypeOK'
  BY <1>1 DEF TypeOK
<1>3. LoadInv'
  BY <1>1 DEF LoadInv
<1> QED
  BY <1>2, <1>3

\* A step that leaves the files and the histories alone keeps KeptInv, unless it
\* takes setup to its write.
LEMMA KeptStep ==
    ASSUME IInv, UNCHANGED <<overlay, authored, recorded>>,
           excused' = {} => excused = {} /\ pc["setup"] # "truncated",
           pc'["setup"] \notin {"existing", "truncated"}
    PROVE  KeptInv'
<1>1. KeptInv
  BY DEF IInv
<1>2. Emittable(authored)' = Emittable(authored) /\ Target' = Target
  BY DEF Emittable, Target, Authored, WithIdentity, Shallow, Scalars, BareMapping
<1> QED
  BY <1>1, <1>2 DEF KeptInv

\* load_cluster_config's reads keep the invariant.
LEMMA LoadStep ==
    ASSUME IInv, NEW p \in ConfigProcs,
           ReadBase(p) \/ OverlayIsFile(p) \/ NoOverlay(p) \/ ReadOverlay(p)
    PROVE  IInv'
<1>1. TypeOK /\ LoadInv /\ KeptInv
  BY DEF IInv
<1>2. IsFile(Absent) /\ IsFile(Broken) /\ ArrayOfBackends(Absent) /\ ArrayOfBackends(Broken)
  BY DEF IsFile, ArrayOfBackends, Has, IsTable, Absent, Broken
<1>3. ASSUME pc[p] \in {"idle", "base"}, Goto(p, "base") \/ Goto(p, "overlay"),
             UNCHANGED <<overlay, mem, authored, recorded, excused>>
      PROVE  KeptInv' /\ pc' \in [ConfigProcs -> Pcs]
  <2>1. /\ pc' \in [ConfigProcs -> Pcs]
        /\ pc'["setup"] = pc["setup"]
             \/ (pc["setup"] \in {"idle", "base"} /\ pc'["setup"] \in {"base", "overlay"})
    BY <1>1, <1>3 DEF TypeOK, Goto, Pcs, ConfigProcs
  <2>2. Emittable(authored)' = Emittable(authored) /\ Target' = Target
    BY <1>3 DEF Emittable, Target, Authored, WithIdentity, Shallow, Scalars, BareMapping
  <2> QED
    BY <1>1, <1>3, <2>1, <2>2 DEF KeptInv
<1>4. CASE ReadBase(p)
  <2>1. KeptInv' /\ pc' \in [ConfigProcs -> Pcs]
    BY <1>3, <1>4 DEF ReadBase, history
  <2>2. /\ DOMAIN got' = ConfigProcs /\ DOMAIN seen' = ConfigProcs
        /\ ~got'[p].ok /\ seen'[p] = Absent
        /\ \A q \in ConfigProcs \ {p} : got'[q] = got[q] /\ seen'[q] = seen[q]
    BY <1>1, <1>4 DEF ReadBase, TypeOK, Refused
  <2>3. TypeOK'
    <3>1. \A q \in ConfigProcs : IsFile(seen'[q]) /\ (got'[q].ok => WellTyped(got'[q].cfg))
      BY <1>1, <1>2, <2>2 DEF TypeOK
    <3> QED
      BY <1>1, <1>4, <2>1, <2>2, <3>1 DEF ReadBase, history, TypeOK
  <2>4. LoadInv'
    BY <1>1, <1>4, <2>2 DEF ReadBase, history, LoadInv
  <2> QED
    BY <2>1, <2>3, <2>4 DEF IInv
<1>5. CASE OverlayIsFile(p)
  <2>1. KeptInv' /\ pc' \in [ConfigProcs -> Pcs]
    BY <1>3, <1>5 DEF OverlayIsFile, history
  <2>2. TypeOK' /\ LoadInv'
    BY <1>1, <1>5, <2>1, QuietStep DEF OverlayIsFile, history, TypeOK
  <2> QED
    BY <2>1, <2>2 DEF IInv
<1>6. CASE NoOverlay(p)
  BY <1>2, <1>6, LoadedStep DEF NoOverlay
<1>7. CASE ReadOverlay(p)
  <2> DEFINE file == IF overlay = Absent THEN Broken ELSE overlay
  <2>1. IsFile(file) /\ ArrayOfBackends(file)
    BY <1>1, <1>2 DEF TypeOK, LoadInv
  <2>2. pc[p] \in {"base", "overlay"} /\ Loaded(p, file)
    BY <1>7 DEF ReadOverlay
  <2> HIDE DEF file
  <2> QED
    BY <2>1, <2>2, LoadedStep
<1> QED
  BY <1>4, <1>5, <1>6, <1>7

\* Where setup ends without having opened the file, nothing changes.
LEMMA StopStep ==
    ASSUME IInv, Stop, pc["setup"] # "truncated"
    PROVE  IInv'
<1>1. TypeOK /\ KeptInv
  BY DEF IInv
<1>2. pc' \in [ConfigProcs -> Pcs] /\ pc'["setup"] = "idle"
  BY <1>1 DEF Stop, Goto, TypeOK, Pcs, ConfigProcs
<1>3. TypeOK' /\ LoadInv'
  BY <1>1, <1>2, QuietStep DEF Stop, history, TypeOK
<1>4. KeptInv'
  BY <1>2, KeptStep DEF Stop, history
<1> QED
  BY <1>3, <1>4 DEF IInv

\* Setup updates the operator's overlay only where that is TOML and its ssh a table;
\* what it makes of one that has the shape has it too.
LEMMA AuthoredShape ==
    ASSUME Emittable(authored), authored # Broken,
           Has(authored, "ssh") => IsTable(authored[2]["ssh"])
    PROVE  /\ Shallow(Target) /\ WithIdentity(Target) = Target
           /\ DeepMerge(Authored, [ssh |-> Table(Identity)]) = Target
           /\ "ssh" \in DOMAIN Target /\ IsTable(Target["ssh"])
<1>1. Shallow(Authored) /\ ("ssh" \in DOMAIN Authored => IsTable(Authored["ssh"]))
  <2>1. CASE authored = Absent
    BY <2>1 DEF Authored, Shallow, BareMapping
  <2>2. CASE authored # Absent
    <3>1. authored = Table(authored[2]) /\ Shallow(authored[2]) /\ Authored = authored[2]
      BY <2>2 DEF Emittable, Authored
    <3>2. IsTable(authored)
      BY <3>1 DEF IsTable, Table
    <3> QED
      BY <3>1, <3>2 DEF Has
  <2> QED
    BY <2>1, <2>2
<1> QED
  BY <1>1, IdentityRecorded DEF Target

\* write_local_overlay's steps keep the invariant: its read,
LEMMA ReadExistingStep == ASSUME IInv, ReadExisting PROVE IInv'
<1>1. TypeOK /\ KeptInv
  BY DEF IInv
<1>2. pc' \in [ConfigProcs -> Pcs] /\ pc'["setup"] = "existing" /\ pc["setup"] = "loaded"
  BY <1>1 DEF ReadExisting, Goto, TypeOK, Pcs, ConfigProcs
<1>3. TypeOK' /\ LoadInv'
  BY <1>1, <1>2, QuietStep DEF ReadExisting, history, TypeOK
<1>4. ASSUME Emittable(authored), excused = {}
      PROVE  /\ overlay = IF recorded THEN Table(Target) ELSE authored
             /\ authored # Broken /\ (Has(authored, "ssh") => IsTable(authored[2]["ssh"]))
             /\ mem' = Target
  <2>1. overlay = IF recorded THEN Table(Target) ELSE authored
    BY <1>1, <1>2, <1>4 DEF KeptInv
  <2>2. mem' = WithIdentity(IF overlay = Absent THEN <<>> ELSE overlay[2]) /\ Updatable
    BY DEF ReadExisting
  <2>3. CASE ~recorded
    BY <2>1, <2>2, <2>3 DEF Updatable, Target, Authored
  <2>4. CASE recorded
    <3>1. authored # Broken /\ (Has(authored, "ssh") => IsTable(authored[2]["ssh"]))
      BY <1>1, <1>4, <2>4 DEF KeptInv
    <3>2. overlay # Absent /\ overlay[2] = Target
      BY <2>1, <2>4 DEF Table, Absent
    <3> QED
      BY <1>4, <2>1, <2>2, <3>1, <3>2, AuthoredShape
  <2> QED
    BY <2>3, <2>4
<1>5. KeptInv'
  <2>1. UNCHANGED <<overlay, authored, recorded, excused>>
    BY DEF ReadExisting, history
  <2>2. Emittable(authored)' = Emittable(authored) /\ Target' = Target
    BY <2>1 DEF Emittable, Target, Authored, WithIdentity, Shallow, Scalars, BareMapping
  <2> QED
    BY <1>2, <1>4, <2>1, <2>2 DEF KeptInv
<1> QED
  BY <1>3, <1>5 DEF IInv

\* A file that setup puts in place of another keeps the types.
LEMMA FileStep ==
    ASSUME IInv, IsFile(overlay'), ArrayOfBackends(overlay'), IsFile(authored'),
           UNCHANGED <<env, got, seen>>, recorded' \in BOOLEAN, edits' \in 0..MaxEdits,
           pc' \in [ConfigProcs -> Pcs], excused' \subseteq {"raced", "failed", "killed"}
    PROVE  TypeOK' /\ LoadInv'
<1>1. TypeOK /\ LoadInv
  BY DEF IInv
<1>2. TypeOK'
  <2>1. ConfigProcs' = ConfigProcs
    BY DEF ConfigProcs
  <2> QED
    BY <1>1, <2>1 DEF TypeOK
<1>3. LoadInv'
  BY <1>1 DEF LoadInv
<1> QED
  BY <1>2, <1>3

\* the opening of the file,
LEMMA TruncateStep == ASSUME IInv, Truncate PROVE IInv'
<1>1. TypeOK /\ KeptInv
  BY DEF IInv
<1>2. pc' \in [ConfigProcs -> Pcs] /\ pc'["setup"] = "truncated" /\ pc["setup"] = "existing"
  BY <1>1 DEF Truncate, Goto, TypeOK, Pcs, ConfigProcs
<1>3. IsFile(Empty) /\ ArrayOfBackends(Empty)
  BY DEF Empty, IsFile, IsTable, ArrayOfBackends, Has, Table
<1>4. TypeOK' /\ LoadInv'
  BY <1>1, <1>2, <1>3, FileStep DEF Truncate, history, TypeOK
<1>5. KeptInv'
  <2>1. UNCHANGED <<authored, recorded, excused, mem>>
    BY DEF Truncate, history
  <2>2. Emittable(authored)' = Emittable(authored) /\ Target' = Target
    BY <2>1 DEF Emittable, Target, Authored, WithIdentity, Shallow, Scalars, BareMapping
  <2> QED
    BY <1>1, <1>2, <2>1, <2>2 DEF KeptInv
<1> QED
  BY <1>4, <1>5 DEF IInv

\* and the writing.
LEMMA WriteTextStep == ASSUME IInv, WriteText PROVE IInv'
<1>1. TypeOK /\ KeptInv
  BY DEF IInv
<1>2. pc' \in [ConfigProcs -> Pcs] /\ pc'["setup"] = "idle" /\ pc["setup"] = "truncated"
  BY <1>1 DEF WriteText, Goto, TypeOK, Pcs, ConfigProcs
<1>3. IsFile(overlay') /\ ArrayOfBackends(overlay')
  BY EmittedFile DEF WriteText
<1>4. TypeOK' /\ LoadInv'
  <2>1. UNCHANGED <<env, got, seen, authored, excused, edits>> /\ recorded' \in BOOLEAN
    BY DEF WriteText
  <2> QED
    BY <1>1, <1>2, <1>3, <2>1, FileStep DEF TypeOK
<1>5. KeptInv'
  <2>1. UNCHANGED <<authored, excused>> /\ recorded' /\ overlay' = Emitted(mem)
    BY DEF WriteText
  <2>2. Emittable(authored)' = Emittable(authored) /\ Target' = Target
    BY <2>1 DEF Emittable, Target, Authored, WithIdentity, Shallow, Scalars, BareMapping
  <2>3. ASSUME Emittable(authored), excused = {}
        PROVE  /\ authored # Broken /\ (Has(authored, "ssh") => IsTable(authored[2]["ssh"]))
               /\ overlay' = Table(Target)
    <3>1. /\ authored # Broken /\ (Has(authored, "ssh") => IsTable(authored[2]["ssh"]))
          /\ mem = Target
      BY <1>1, <1>2, <2>3 DEF KeptInv
    <3> QED
      BY <2>1, <2>3, <3>1, AuthoredShape, EmittedShallow
  <2> QED
    BY <1>2, <2>1, <2>2, <2>3 DEF KeptInv
<1> QED
  BY <1>4, <1>5 DEF IInv

\* A write that fails, and a process that dies, leave an excuse where text is lost.
LEMMA AbortStep == ASSUME IInv, WriteFails \/ Killed PROVE IInv'
<1>1. TypeOK /\ KeptInv
  BY DEF IInv
<1>2. pc' \in [ConfigProcs -> Pcs] /\ pc'["setup"] = "idle"
  BY <1>1 DEF WriteFails, Killed, Goto, TypeOK, Pcs, ConfigProcs
<1>3. /\ excused' \subseteq {"raced", "failed", "killed"}
      /\ excused' = {} => excused = {} /\ pc["setup"] # "truncated"
  BY <1>1 DEF WriteFails, Killed, TypeOK
<1>4. UNCHANGED <<overlay, env, got, seen, authored, recorded, edits>>
  BY DEF WriteFails, Killed
<1> QED
  BY <1>2, <1>3, <1>4, QuietStep, KeptStep DEF IInv

\* An edit makes the overlay the operator's again, unless setup is about to write.
LEMMA EditStep == ASSUME IInv, Edit PROVE IInv'
<1>1. TypeOK /\ KeptInv
  BY DEF IInv
<1>2. PICK file \in Overlays : overlay' = file /\ authored' = file
  BY DEF Edit
<1>3. IsFile(file) /\ ArrayOfBackends(file)
  BY ConfigAssumption
<1>4. edits' \in 0..MaxEdits
  BY <1>1, ConfigAssumption DEF Edit, TypeOK
<1>5. /\ UNCHANGED <<env, pc, got, seen>> /\ recorded' = FALSE
      /\ excused' = IF pc["setup"] \in {"existing", "truncated"} THEN {"raced"} ELSE {}
  BY DEF Edit
<1>6. TypeOK' /\ LoadInv'
  <2>1. recorded' \in BOOLEAN /\ excused' \subseteq {"raced", "failed", "killed"}
    BY <1>5
  <2>2. pc' \in [ConfigProcs -> Pcs]
    BY <1>1, <1>5 DEF TypeOK
  <2> QED
    BY <1>2, <1>3, <1>4, <1>5, <2>1, <2>2, FileStep
<1>7. KeptInv'
  BY <1>2, <1>5 DEF KeptInv
<1> QED
  BY <1>6, <1>7 DEF IInv

\* Every step keeps the invariant.
LEMMA ConfigStep == ASSUME IInv, [Next]_vars PROVE IInv'
<1>1. CASE \E p \in ConfigProcs : ReadBase(p) \/ OverlayIsFile(p) \/ NoOverlay(p) \/ ReadOverlay(p)
  BY <1>1, LoadStep
<1>2. CASE ExistingRefused \/ OpenFails
  BY <1>2, StopStep DEF ExistingRefused, OpenFails
<1>3. CASE ReadExisting
  BY <1>3, ReadExistingStep
<1>4. CASE Truncate
  BY <1>4, TruncateStep
<1>5. CASE WriteText
  BY <1>5, WriteTextStep
<1>6. CASE WriteFails \/ Killed
  BY <1>6, AbortStep
<1>7. CASE Edit
  BY <1>7, EditStep
<1>8. CASE UNCHANGED vars
  <2>1. TypeOK /\ LoadInv /\ KeptInv
    BY DEF IInv
  <2>2. UNCHANGED <<overlay, env, pc, got, mem, seen, authored, recorded, excused, edits>>
    BY <1>8 DEF vars
  <2>3. TypeOK' /\ LoadInv'
    BY <2>1, <2>2, QuietStep DEF TypeOK
  <2>4. Emittable(authored)' = Emittable(authored) /\ Target' = Target
    BY <2>2 DEF Emittable, Target, Authored, WithIdentity, Shallow, Scalars, BareMapping
  <2>5. KeptInv'
    BY <2>1, <2>2, <2>4 DEF KeptInv
  <2> QED
    BY <2>3, <2>5 DEF IInv
<1> QED
  BY <1>1, <1>2, <1>3, <1>4, <1>5, <1>6, <1>7, <1>8 DEF Next

\* The invariant of loading and of recording holds throughout.
THEOREM ConfigInductive == Spec => []IInv
BY ConfigInit, ConfigStep, PTL DEF Spec

-----------------------------------------------------------------------------
(* The properties of the run. *)

\* Whatever the layers hold, every configuration that load_cluster_config returns gives each
\* field a value that its reader promises.
THEOREM ConfigTypeCorrect == Spec => []TypeOK
<1>1. IInv => TypeOK
  BY DEF IInv
<1> QED
  BY <1>1, ConfigInductive, PTL

\* A field a command runs with is the one of the highest layer that gives it, and the backends
\* are one layer's as a whole.
THEOREM LayersApplyInOrder == Spec => []LayersInOrder
<1>1. IInv => LayersInOrder
  <2> SUFFICES ASSUME IInv PROVE LayersInOrder
    OBVIOUS
  <2>1. ASSUME NEW p \in ConfigProcs, got[p].ok
        PROVE  /\ \A t \in DOMAIN Rules : \A k \in DOMAIN Rules[t] :
                     got[p].cfg[t][k] = Read(Layer(p, t, k), Rules[t][k])
               /\ got[p].cfg.backend =
                    ParseBackends(IF Has(seen[p], "backend") THEN seen[p][2]["backend"]
                                                             ELSE Base[2]["backend"])
    <3>1. IsFile(seen[p]) /\ got[p] = Load(Base, seen[p], env[p])
      BY <2>1 DEF IInv, TypeOK, LoadInv
    <3> QED
      BY <2>1, <3>1, LoadResult DEF Layer
  <2> QED
    BY <2>1 DEF LayersInOrder
<1> QED
  BY <1>1, ConfigInductive, PTL

\* No command runs with two machines of one name or with one named like the template, whichever
\* layers name them.
THEOREM MachinesAreDistinct == Spec => []MachinesDistinct
<1>1. IInv => MachinesDistinct
  <2> SUFFICES ASSUME IInv, NEW p \in ConfigProcs, got[p].ok
               PROVE  Cardinality({got[p].cfg.jump.vm_name, got[p].cfg.virtualbox.template_vm}
                        \cup {got[p].cfg.backend[i].vm_name : i \in DOMAIN got[p].cfg.backend})
                        = Len(got[p].cfg.backend) + 2
    BY DEF MachinesDistinct
  <2> DEFINE file == seen[p]
             c == got[p].cfg
             raw == IF Has(file, "backend") THEN file[2]["backend"] ELSE Base[2]["backend"]
  <2>1. IsFile(file) /\ ArrayOfBackends(file) /\ got[p] = Load(Base, file, env[p])
    BY DEF IInv, TypeOK, LoadInv
  <2>2. /\ BackendsOK(raw) /\ c["backend"] = ParseBackends(raw) /\ CrossReferences(c)
        /\ ~Has(file, "backend") => Has(Base, "backend")
    BY <2>1, LoadResult
  <2>3. raw[2] \in Seq(Range(raw[2]))
    <3>1. ArrayOfBackends(Base)
      BY ConfigAssumption
    <3>2. raw[1] = "array"
      BY <2>2 DEF BackendsOK
    <3> QED
      BY <2>1, <2>2, <3>1, <3>2 DEF ArrayOfBackends
  <2> HIDE DEF c, raw, file
  <2>4. c.backend \in Seq({ReadSection(raw[2][i][2], HostRules) : i \in DOMAIN raw[2]})
    <3>1. Len(raw[2]) \in Nat /\ DOMAIN raw[2] = 1..Len(raw[2])
      BY <2>3
    <3>2. c.backend = [i \in 1..Len(raw[2]) |-> ReadSection(raw[2][i][2], HostRules)]
      BY <2>2, <3>1 DEF ParseBackends
    <3> QED
      BY <3>1, <3>2
  <2>5. LET names == VmNames(<<c.jump>> \o c.backend)
        IN  IsInjective(names) /\ c.virtualbox.template_vm \notin Range(names)
    BY <2>2 DEF CrossReferences
  <2>6. Cardinality({c.jump.vm_name, c.virtualbox.template_vm}
          \cup {c.backend[i].vm_name : i \in DOMAIN c.backend}) = Len(c.backend) + 2
    BY <2>4, <2>5, NamesCounted
  <2> QED
    BY <2>6 DEF c
<1> QED
  BY <1>1, ConfigInductive, PTL

\* The configuration a command runs with takes each field from its layer, and names no machine
\* twice although two layers may.
THEOREM ConfigurationIsRight == Spec => []ConfigurationRight
<1>1. LayersInOrder /\ MachinesDistinct => ConfigurationRight
  BY DEF ConfigurationRight
<1> QED
  BY <1>1, LayersApplyInOrder, MachinesAreDistinct, PTL

\* Once setup has recorded its identity in an overlay of the shape that _emit_toml is made for,
\* however often, a command gets from it what the operator's text with that identity gives.
THEOREM OverridesAreKept == Spec => []OverridesKept
<1>1. IInv => OverridesKept
  <2> SUFFICES ASSUME IInv, Emittable(authored), pc["setup"] # "truncated", excused = {}
               PROVE  overlay = Intended
    BY DEF OverridesKept
  <2>1. /\ overlay = IF recorded THEN Table(Target) ELSE authored
        /\ recorded => authored # Broken /\ (Has(authored, "ssh") => IsTable(authored[2]["ssh"]))
    BY DEF IInv, KeptInv
  <2>2. CASE ~recorded
    BY <2>1, <2>2 DEF Intended
  <2>3. CASE recorded
    <3>1. DeepMerge(Authored, [ssh |-> Table(Identity)]) = Target
      BY <2>1, <2>3, AuthoredShape
    <3> QED
      BY <2>1, <2>3, <3>1 DEF Intended, Authored
  <2> QED
    BY <2>2, <2>3
<1> QED
  BY <1>1, ConfigInductive, PTL
===============================================================================
