--------------------------- MODULE SessionProofs ----------------------------
(***************************************************************************)
(* Theorems about Session, for any number of processes and commands, any   *)
(* keys that are set to any values: what changed something is on record,   *)
(* and the record and the payload of a command that met no other are its   *)
(* own.  Parts: the lines of the file and what reading them gives; what    *)
(* the writers put there; the command inventory; the log; the invariant.   *)
(***************************************************************************)
EXTENDS Session, FiniteSetTheorems, SequenceTheorems, WellFoundedInduction, TLAPS

-----------------------------------------------------------------------------
(* Positions and lines *)

\* A nonempty set of numbers has a smallest element.
LEMMA MinElement ==
    ASSUME NEW S, S \subseteq Nat, S # {}
    PROVE  Min(S) \in S /\ \A y \in S : Min(S) <= y
<1>1. PICK x \in S : \A y \in S : ~ (<<y, x>> \in OpToRel(<, Nat))
  BY NatLessThanWellFounded, WFMin
<1>2. \A y \in S : x <= y
  <2> SUFFICES ASSUME NEW y \in S PROVE x <= y
    OBVIOUS
  <2>1. x \in Nat /\ y \in Nat
    OBVIOUS
  <2>2. ~ (y < x)
    BY <1>1, <2>1, Zenon DEF OpToRel
  <2> QED BY <2>1, <2>2
<1> QED BY <1>2 DEF Min

\* A line put in between two others.
LEMMA InsertedSeq ==
    ASSUME NEW S, NEW f \in Seq(S), NEW k \in 1..(Len(f) + 1), NEW e \in S
    PROVE  InsertAt(f, k, e) \in Seq(S)
<1>1. SubSeq(f, 1, k - 1) \in Seq(S) /\ SubSeq(f, k, Len(f)) \in Seq(S)
  BY SubSeqProperties
<1>2. <<e>> \in Seq(S)
  OBVIOUS
<1> QED BY <1>1, <1>2, ConcatProperties DEF InsertAt

\* The words of the keys and tables of the configuration.
Words ==
    {"config_version", "taskledger_dir", "project_uuid", "ledger_ref",
     "ledger_next_task_number", "default_save_run_reports", "default_context_order",
     "default_artifact_order", "artifact_rules", "analysis", "depends_on",
     "prompt_profiles", "planning", "profile", "event_logging", "event_loging",
     "enabled", "deep", "agent_logging", "capture_safe_read_only",
     "capture_human_oriented", "capture_managed_shell", "max_inline_chars", "sync",
     "git", "remote", "ledger", "code", "worker_pipeline", "name", "steps", "id",
     "lifecycle_stage", "base_context", "project_name", "ledger_parent_ref",
     "ledger_branch_guard", "capture_taskledger_cli"}

\* What may be written into the configuration file: what the code writes by
\* itself, and what is typed.
OwnValues ==
    {"true", "1", "2", "3", "4", "5", "6", "main", "dev", "here", "there", "uuid",
     "tl", "r1", "review", "reviewer", "text", "off", "none"}

Values == OwnValues \cup Typed

\* The lines of a configuration file.  The only values that are ever given to
\* ledger_ref, in whatever table the line stands, are names of ledgers.
Lines ==
    [kind: {"head", "item"}, at: Seq(Words), value: {""}]
    \cup [kind: {"set"}, at: {<<k>> : k \in Words \ {"ledger_ref"}}, value: Values]
    \cup [kind: {"set"}, at: {<<"ledger_ref">>}, value: LedgerRefs]

\* The texts the code itself writes.
LEMMA TextValues ==
    /\ \A t \in OwnValues : t \in Values
    /\ \A t \in Typed : t \in Values
    /\ "true" \in Values /\ "1" \in Values /\ "none" \in Values /\ "off" \in Values
    /\ \A t \in LedgerRefs : t \in Values
<1>1. \A t \in OwnValues : t \in Values
  BY Zenon DEF Values
<1>2. \A t \in Typed : t \in Values
  BY Zenon DEF Values
<1>3. /\ "true" \in OwnValues /\ "1" \in OwnValues /\ "none" \in OwnValues /\ "off" \in OwnValues
      /\ \A t \in LedgerRefs : t \in OwnValues
  BY DEF OwnValues, LedgerRefs
<1> QED BY <1>1, <1>2, <1>3, Zenon

\* A line that assigns says to which key.
LEMMA SetLine ==
    ASSUME NEW line \in Lines, line.kind = "set"
    PROVE  \E k \in Words : /\ line.at = <<k>> /\ line.value \in Values
                            /\ k = "ledger_ref" => line.value \in LedgerRefs
<1>1. CASE line \in [kind: {"head", "item"}, at: Seq(Words), value: {""}]
  BY <1>1
<1>2. CASE line \in [kind: {"set"}, at: {<<k>> : k \in Words \ {"ledger_ref"}},
                    value: Values]
  <2>1. line.at \in {<<k>> : k \in Words \ {"ledger_ref"}} /\ line.value \in Values
    BY <1>2
  <2>2. PICK k \in Words \ {"ledger_ref"} : line.at = <<k>>
    BY <2>1, Zenon
  <2> QED BY <2>1, <2>2, Zenon
<1>3. CASE line \in [kind: {"set"}, at: {<<"ledger_ref">>}, value: LedgerRefs]
  <2>1. line.at = <<"ledger_ref">> /\ line.value \in LedgerRefs
    BY <1>3
  <2>2. "ledger_ref" \in Words
    BY DEF Words
  <2>4. line.value \in Values
    BY <2>1, TextValues, Zenon
  <2> QED BY <2>1, <2>2, <2>4, Zenon
<1> QED BY <1>1, <1>2, <1>3, Zenon DEF Lines

\* An assignment is such a line if what it gives to ledger_ref is a ledger.
LEMMA AssignIsLine ==
    ASSUME NEW k \in Words, NEW v \in Values, k = "ledger_ref" => v \in LedgerRefs
    PROVE  Assign(k, v) \in Lines
BY DEF Assign, Lines

\* So is a table header.
LEMMA HeaderIsLine ==
    ASSUME NEW path \in Seq(Words)
    PROVE  Header(path) \in Lines
BY DEF Header, Lines

-----------------------------------------------------------------------------
(* Reading *)

\* The document after the n-th line of f, as reading computes it.
ReadBy(g, f, m) ==
    g = [n \in 0..m |-> IF n = 0 THEN NoText ELSE ReadLine(g[n - 1], f[n])]

\* Reading gets through a file of any length.
LEMMA ReadExists ==
    ASSUME NEW f, NEW m \in Nat
    PROVE  \E g : ReadBy(g, f, m)
<1> DEFINE bad == {n \in 0..m : ~ \E g : ReadBy(g, f, n)}
<1>1. SUFFICES ASSUME bad # {} PROVE FALSE
  OBVIOUS
<1> DEFINE k == Min(bad)
<1>2. k \in bad /\ \A y \in bad : k <= y
  <2>1. bad \subseteq Nat
    OBVIOUS
  <2> HIDE DEF bad
  <2> QED BY <1>1, <2>1, MinElement
<1> HIDE DEF k
<1>3. k \in 0..m /\ ~ \E g : ReadBy(g, f, k)
  BY <1>2
<1>4. CASE k = 0
  <2> DEFINE h == [n \in 0..0 |-> NoText]
  <2>1. ReadBy(h, f, 0)
    BY DEF ReadBy
  <2> QED BY <1>3, <1>4, <2>1
<1>5. CASE k # 0
  <2>1. k - 1 \in 0..m /\ k - 1 \notin bad
    BY <1>2, <1>3, <1>5
  <2>2. PICK g : ReadBy(g, f, k - 1)
    BY <2>1
  <2> DEFINE h == [n \in 0..k |-> IF n = k THEN ReadLine(g[k - 1], f[k]) ELSE g[n]]
  <2>3. ASSUME NEW n \in 0..k
        PROVE  h[n] = IF n = 0 THEN NoText ELSE ReadLine(h[n - 1], f[n])
    <3>1. CASE n = k
      BY <1>3, <1>5, <3>1
    <3>2. CASE n # k
      <4>1. n \in 0..(k - 1) /\ h[n] = g[n]
        BY <1>3, <3>2
      <4>2. n # 0 => h[n - 1] = g[n - 1]
        BY <1>3, <3>2
      <4> HIDE DEF h
      <4> QED BY <2>2, <4>1, <4>2 DEF ReadBy
    <3> QED BY <3>1, <3>2
  <2>4. h = [n \in 0..k |-> h[n]]
    OBVIOUS
  <2>5. ReadBy(h, f, k)
    <3> HIDE DEF h
    <3> QED BY <2>3, <2>4 DEF ReadBy
  <2> QED BY <1>3, <2>5
<1> QED BY <1>4, <1>5

\* What Toml returns is what reading has computed after the last line.
LEMMA TomlReads ==
    ASSUME NEW S, NEW f \in Seq(S)
    PROVE  \E g : ReadBy(g, f, Len(f)) /\ Toml(f) = g[Len(f)]
<1> DEFINE u == CHOOSE g : g = [n \in 0..Len(f) |->
                                  IF n = 0 THEN NoText ELSE ReadLine(g[n - 1], f[n])]
<1>1. Len(f) \in Nat
  OBVIOUS
<1>2. ReadBy(u, f, Len(f))
  BY <1>1, ReadExists, Zenon DEF ReadBy
<1>3. Toml(f) = u[Len(f)]
  BY DEF Toml
<1> QED BY <1>2, <1>3

\* How far reading has come: the table it is in, and the document, in which
\* ledger_ref, if it is there, is a ledger.
ReadOK(acc) ==
    /\ DOMAIN acc = {"ok", "cur", "doc", "values", "heads", "opened", "items"}
    /\ \E S : acc.cur \in Seq(S)
    /\ \A q \in DOMAIN acc.doc : acc.doc[q] \in Values
    /\ <<"ledger_ref">> \in DOMAIN acc.doc => acc.doc[<<"ledger_ref">>] \in LedgerRefs

\* Only an assignment to ledger_ref outside of all tables gives it a value.
LEMMA LedgerRefPath ==
    ASSUME NEW S, NEW cur \in Seq(S), NEW k, cur \o <<k>> = <<"ledger_ref">>
    PROVE  k = "ledger_ref"
<1> DEFINE T == S \cup {k}
<1>1. cur \in Seq(T) /\ <<k>> \in Seq(T)
  OBVIOUS
<1>2. Len(cur \o <<k>>) = Len(cur) + 1 /\ (cur \o <<k>>)[Len(cur) + 1] = k
  <2> HIDE DEF T
  <2> QED BY <1>1, ConcatProperties
<1>3. Len(<<"ledger_ref">>) = 1 /\ <<"ledger_ref">>[1] = "ledger_ref"
  OBVIOUS
<1>4. Len(cur) + 1 = 1
  BY <1>2, <1>3, Zenon
<1>5. (cur \o <<k>>)[1] = k
  BY <1>2, <1>4, Zenon
<1> QED BY <1>3, <1>5, Zenon

\* A path with something below it is not that of a top-level key.
LEMMA LongPath ==
    ASSUME NEW S, NEW cur \in Seq(S), NEW k
    PROVE  Append(cur \o <<k>>, "enabled") # <<"ledger_ref">>
<1> DEFINE T == S \cup {k, "enabled"}
<1>1. cur \in Seq(T) /\ <<k>> \in Seq(T) /\ "enabled" \in T
  OBVIOUS
<1>2. cur \o <<k>> \in Seq(T) /\ Len(cur \o <<k>>) = Len(cur) + 1
  <2> HIDE DEF T
  <2> QED BY <1>1, ConcatProperties
<1>3. Len(Append(cur \o <<k>>, "enabled")) = Len(cur) + 2
  <2> HIDE DEF T
  <2> QED BY <1>1, <1>2, AppendProperties
<1>4. Len(<<"ledger_ref">>) = 1 /\ Len(cur) \in Nat
  OBVIOUS
<1>5. SUFFICES ASSUME Append(cur \o <<k>>, "enabled") = <<"ledger_ref">> PROVE FALSE
  OBVIOUS
<1>6. Len(cur) + 2 = 1
  BY <1>3, <1>4, <1>5, Zenon
<1> HIDE <1>5
<1> QED BY <1>4, <1>6

\* What one assignment adds to the document.
LEMMA LeavesOK ==
    ASSUME NEW S, NEW cur \in Seq(S), NEW k, NEW v \in Values,
           k = "ledger_ref" => v \in LedgerRefs
    PROVE  LET new == Leaves(cur \o <<k>>, v) IN
           /\ \A q \in DOMAIN new : new[q] \in Values
           /\ <<"ledger_ref">> \in DOMAIN new => new[<<"ledger_ref">>] \in LedgerRefs
<1> DEFINE path == cur \o <<k>>
<1>1. path = <<"ledger_ref">> => v \in LedgerRefs
  BY LedgerRefPath
<1>2. Append(path, "enabled") # <<"ledger_ref">>
  BY LongPath
<1>3. "true" \in Values
  BY TextValues
<1> HIDE DEF path
<1> QED BY <1>1, <1>2, <1>3 DEF Leaves, path

\* Reading one more line.
LEMMA ReadLineOK ==
    ASSUME NEW acc, ReadOK(acc), NEW line \in Lines
    PROVE  ReadOK(ReadLine(acc, line))
<1> DEFINE next == ReadLine(acc, line)
<1> SUFFICES ReadOK(next)
  OBVIOUS
<1>1. PICK S : acc.cur \in Seq(S)
  BY DEF ReadOK
<1>2. CASE line.kind = "head"
  <2>1. line.at \in Seq(Words)
    BY <1>2 DEF Lines
  <2>2. DOMAIN next = DOMAIN acc /\ next.cur = line.at /\ next.doc = acc.doc
    BY <1>2 DEF ReadLine, ReadOK
  <2> HIDE DEF next
  <2> QED BY <2>1, <2>2 DEF ReadOK
<1>3. CASE line.kind = "item"
  <2> DEFINE i == Numerals[acc.items + 1]
  <2>1. line.at \in Seq(Words)
    BY <1>3 DEF Lines
  <2>2. DOMAIN next = DOMAIN acc /\ next.cur = Append(line.at, i) /\ next.doc = acc.doc
    BY <1>3 DEF ReadLine, ReadOK
  <2> HIDE DEF i
  <2>3. line.at \in Seq(Words \cup {i}) /\ i \in Words \cup {i}
    BY <2>1
  <2>4. Append(line.at, i) \in Seq(Words \cup {i})
    BY <2>3, AppendProperties
  <2> HIDE DEF next
  <2> QED BY <2>2, <2>4 DEF ReadOK
<1>4. CASE line.kind = "set"
  <2>1. PICK k \in Words : line.at = <<k>> /\ line.value \in Values
                 /\ (k = "ledger_ref" => line.value \in LedgerRefs)
    BY <1>4, SetLine, Zenon
  <2> DEFINE new == Leaves(acc.cur \o <<k>>, line.value)
  <2>2. DOMAIN next = DOMAIN acc /\ next.cur = acc.cur /\ next.doc = Over(new, acc.doc)
    BY <1>4, <2>1 DEF ReadLine, ReadOK
  <2>3. /\ \A q \in DOMAIN new : new[q] \in Values
        /\ <<"ledger_ref">> \in DOMAIN new => new[<<"ledger_ref">>] \in LedgerRefs
    BY <1>1, <2>1, LeavesOK
  <2> HIDE DEF next, new
  <2>4. \A q \in DOMAIN next.doc : next.doc[q] \in Values
    BY <2>2, <2>3 DEF Over, ReadOK
  <2>5. <<"ledger_ref">> \in DOMAIN next.doc => next.doc[<<"ledger_ref">>] \in LedgerRefs
    BY <2>2, <2>3 DEF Over, ReadOK
  <2> QED BY <1>1, <2>2, <2>4, <2>5 DEF ReadOK
<1>5. line.kind \in {"head", "item", "set"}
  BY DEF Lines
<1> QED BY <1>2, <1>3, <1>4, <1>5

\* Reading a file of such lines ends with such a document.
LEMMA TomlOK ==
    ASSUME NEW f \in Seq(Lines)
    PROVE  ReadOK(Toml(f))
<1>1. PICK g : ReadBy(g, f, Len(f)) /\ Toml(f) = g[Len(f)]
  BY TomlReads
<1>2. Len(f) \in Nat
  OBVIOUS
<1> DEFINE bad == {n \in 0..Len(f) : ~ReadOK(g[n])}
<1>3. SUFFICES ASSUME bad # {} PROVE FALSE
  BY <1>1, <1>2
<1> DEFINE k == Min(bad)
<1>4. k \in bad /\ \A y \in bad : k <= y
  <2>1. bad \subseteq Nat
    OBVIOUS
  <2> HIDE DEF bad
  <2> QED BY <1>3, <2>1, MinElement
<1> HIDE DEF k
<1>5. k \in 0..Len(f) /\ ~ReadOK(g[k])
  BY <1>4
<1>6. CASE k = 0
  <2>1. g[0] = NoText
    BY <1>1, <1>5, <1>6 DEF ReadBy
  <2>2. ReadOK(NoText)
    BY DEF ReadOK, NoText
  <2> QED BY <1>5, <1>6, <2>1, <2>2
<1>7. CASE k # 0
  <2>1. k - 1 \in 0..Len(f) /\ k - 1 \notin bad
    BY <1>2, <1>4, <1>5, <1>7
  <2>2. g[k] = ReadLine(g[k - 1], f[k])
    BY <1>1, <1>5, <1>7 DEF ReadBy
  <2>3. f[k] \in Lines
    BY <1>5, <1>7
  <2> QED BY <1>5, <2>1, <2>2, <2>3, ReadLineOK
<1> QED BY <1>6, <1>7

\* The configuration names a ledger, and what it says can be written back.
LEMMA LedgerConfigOK ==
    ASSUME NEW f \in Seq(Lines)
    PROVE  LET ledger == _ledger_config_from_dict(Document(f)) IN
           /\ ledger["ledger_ref"] \in LedgerRefs
           /\ \A key \in LEDGER_CONFIG_KEYS : ledger[key] \in Values
           /\ DOMAIN ledger = LEDGER_CONFIG_KEYS
<1> DEFINE doc == Document(f)
<1>1. /\ \A q \in DOMAIN doc : doc[q] \in Values
      /\ <<"ledger_ref">> \in DOMAIN doc => doc[<<"ledger_ref">>] \in LedgerRefs
  BY TomlOK, Zenon DEF ReadOK, Document
<1> HIDE DEF doc
<1>2. Get(doc, <<"ledger_ref">>, "main") \in LedgerRefs
  BY <1>1 DEF Get, LedgerRefs
<1>3. \A path : \A v \in Values : Get(doc, path, v) \in Values
  BY <1>1, Zenon DEF Get
<1>4. /\ Get(doc, <<"ledger_ref">>, "main") \in Values
      /\ Get(doc, <<"ledger_parent_ref">>, "none") \in Values
      /\ Get(doc, <<"ledger_next_task_number">>, "1") \in Values
      /\ Get(doc, <<"ledger_branch_guard">>, "off") \in Values
  BY <1>2, <1>3, TextValues, Zenon
<1> QED BY <1>2, <1>4 DEF _ledger_config_from_dict, LEDGER_CONFIG_KEYS, doc

\* A function over 1..n is a sequence.
LEMMA MappedSeq ==
    ASSUME NEW S, NEW n \in Nat, NEW g \in [1..n -> S]
    PROVE  g \in Seq(S)
OBVIOUS

\* What a sequence of lines gives up is a line.
LEMMA LineAt ==
    ASSUME NEW f \in Seq(Lines), NEW n \in 1..Len(f)
    PROVE  f[n] \in Lines
OBVIOUS

\* Replacing lines by lines.
LEMMA ReplacedLines ==
    ASSUME NEW f \in Seq(Lines), NEW hits, NEW line \in Lines
    PROVE  [n \in 1..Len(f) |-> IF n \in hits THEN line ELSE f[n]] \in Seq(Lines)
<1> DEFINE g == [n \in 1..Len(f) |-> IF n \in hits THEN line ELSE f[n]]
<1>1. Len(f) \in Nat
  OBVIOUS
<1>2. g \in [1..Len(f) -> Lines]
  BY LineAt
<1> QED BY <1>1, <1>2, MappedSeq

\* Adding lines at the end.
LEMMA LinesAtEnd ==
    ASSUME NEW f \in Seq(Lines), NEW line \in Lines, NEW more \in Lines
    PROVE  /\ f \o <<line>> \in Seq(Lines)
           /\ f \o <<line, more>> \in Seq(Lines)
           /\ Append(f, line) \in Seq(Lines)
           /\ f \o <<>> \in Seq(Lines)
<1>1. <<line>> \in Seq(Lines) /\ <<line, more>> \in Seq(Lines) /\ <<>> \in Seq(Lines)
  OBVIOUS
<1> QED BY <1>1, ConcatProperties, AppendProperties

\* The position a new key gets.
LEMMA NewLineIn ==
    ASSUME NEW f \in Seq(Lines), NEW section
    PROVE  NewLineAt(f, section) \in 1..(Len(f) + 1)
<1> DEFINE heads == {k \in 1..Len(f) : f[k].kind = "head"}
           start == {k \in heads : f[k].at = section}
           all == {k \in heads : \A h \in start : h < k} \cup {Len(f) + 1}
<1>1. Len(f) \in Nat
  OBVIOUS
<1>2. all \subseteq 1..(Len(f) + 1) /\ all # {}
  BY <1>1
<1>3. NewLineAt(f, section) = Min(all)
  BY DEF NewLineAt
<1> HIDE DEF all
<1>4. all \subseteq Nat
  BY <1>1, <1>2
<1>5. Min(all) \in all
  BY <1>2, <1>4, MinElement
<1> QED BY <1>2, <1>3, <1>5

\* The position of a key that is looked for.
LEMMA LineOfIn ==
    ASSUME NEW f \in Seq(Lines), NEW key
    PROVE  LineOf(f, key) \in 0..Len(f)
<1> DEFINE hits == {n \in 1..Len(f) : f[n].kind = "set" /\ f[n].at = <<key>>}
<1>1. Len(f) \in Nat
  OBVIOUS
<1>2. hits \subseteq 1..Len(f)
  OBVIOUS
<1>3. LineOf(f, key) = IF hits = {} THEN 0 ELSE Min(hits)
  BY DEF LineOf
<1> HIDE DEF hits
<1>4. hits \subseteq Nat
  BY <1>1, <1>2
<1>5. hits # {} => Min(hits) \in hits
  BY <1>4, MinElement
<1>6. CASE hits = {}
  BY <1>1, <1>3, <1>6
<1>7. CASE hits # {}
  <2>1. LineOf(f, key) \in 1..Len(f)
    BY <1>2, <1>3, <1>5, <1>7, Zenon
  <2> QED BY <1>1, <2>1
<1> QED BY <1>6, <1>7

\* config set on a key that is not ledger_ref.
LEMMA SetPatch ==
    ASSUME NEW f \in Seq(Lines), NEW path \in Seq(Words), path # <<>>,
           Last(path) # "ledger_ref", NEW value \in Values
    PROVE  _apply_project_config_value_patch(f, path, value) \in Seq(Lines)
<1> DEFINE section == Front(path)
           key == Last(path)
           line == Assign(key, value)
           hits == {n \in 1..Len(f) : _toml_assignment_matches(f, n, section, key)}
<1>1. key \in Words
  BY DEF Last
<1>2. section \in Seq(Words)
  BY SubSeqProperties DEF Front
<1>3. line \in Lines
  BY <1>1, AssignIsLine
<1>4. Header(section) \in Lines
  BY <1>2, HeaderIsLine
<1>5. NewLineAt(f, section) \in 1..(Len(f) + 1)
  BY NewLineIn
<1>6. [n \in 1..Len(f) |-> IF n \in hits THEN line ELSE f[n]] \in Seq(Lines)
  <2> HIDE DEF hits, line
  <2> QED BY <1>3, ReplacedLines
<1>7. InsertAt(f, NewLineAt(f, section), line) \in Seq(Lines)
  <2> HIDE DEF section, line
  <2> QED BY <1>3, <1>5, InsertedSeq
<1>8. f \o <<Header(section), line>> \in Seq(Lines)
  <2> HIDE DEF section, line
  <2> QED BY <1>3, <1>4, LinesAtEnd
<1> QED BY <1>6, <1>7, <1>8, Zenon DEF _apply_project_config_value_patch

\* The ledger keys, whichever of them get a new value.
LEMMA LedgerPatch ==
    ASSUME NEW f \in Seq(Lines), NEW ledger, ledger["ledger_ref"] \in LedgerRefs,
           \A key \in LEDGER_CONFIG_KEYS : ledger[key] \in Values
    PROVE  _apply_ledger_patch(f, ledger) \in Seq(Lines)
<1> DEFINE Owned(line) == line.kind = "set" /\ line.at[1] \in LEDGER_CONFIG_KEYS
           patched == [n \in 1..Len(f) |->
                          IF Owned(f[n])
                          THEN Assign(f[n].at[1], ledger[f[n].at[1]])
                          ELSE f[n]]
           found == {line.at[1] : line \in {l \in Range(f) : Owned(l)}}
           IfMissing(key) ==
               IF key \in found THEN <<>> ELSE <<Assign(key, ledger[key])>>
<1>2. \A key \in LEDGER_CONFIG_KEYS : key \in Words
  BY DEF Words, LEDGER_CONFIG_KEYS
<1>3. \A key \in LEDGER_CONFIG_KEYS : Assign(key, ledger[key]) \in Lines
  <2> SUFFICES ASSUME NEW key \in LEDGER_CONFIG_KEYS
               PROVE  Assign(key, ledger[key]) \in Lines
    OBVIOUS
  <2>1. key \in Words /\ ledger[key] \in Values
        /\ (key = "ledger_ref" => ledger[key] \in LedgerRefs)
    BY <1>2, Zenon
  <2> QED BY <2>1, AssignIsLine
<1>4. Len(f) \in Nat
  OBVIOUS
<1>5. patched \in [1..Len(f) -> Lines]
  BY <1>3, LineAt, Zenon
<1>6. patched \in Seq(Lines)
  <2> HIDE DEF patched
  <2> QED BY <1>4, <1>5, MappedSeq
<1>7. \A key \in LEDGER_CONFIG_KEYS : IfMissing(key) \in Seq(Lines)
  <2> HIDE DEF found
  <2> QED BY <1>3
<1>8. /\ IfMissing("ledger_ref") \in Seq(Lines)
      /\ IfMissing("ledger_parent_ref") \in Seq(Lines)
      /\ IfMissing("ledger_next_task_number") \in Seq(Lines)
      /\ IfMissing("ledger_branch_guard") \in Seq(Lines)
  <2> HIDE DEF IfMissing
  <2> QED BY <1>7 DEF LEDGER_CONFIG_KEYS
<1>9. patched \o IfMissing("ledger_ref") \o IfMissing("ledger_parent_ref")
        \o IfMissing("ledger_next_task_number") \o IfMissing("ledger_branch_guard")
        \in Seq(Lines)
  <2> HIDE DEF IfMissing, patched
  <2> QED BY <1>6, <1>8, ConcatProperties
<1> QED BY <1>9, Zenon DEF _apply_ledger_patch

\* Writing a ledger, the one it comes from, or a number of the counter.
LEMMA UpdateLedgerPatch ==
    ASSUME NEW f \in Seq(Lines), NEW patch,
           \A key \in DOMAIN patch :
               patch[key] \in Values /\ (key = "ledger_ref" => patch[key] \in LedgerRefs)
    PROVE  update_ledger_config(f, patch) \in Seq(Lines)
<1> DEFINE old == _ledger_config_from_dict(Document(f))
           new == Over(patch, old)
<1>1. /\ old["ledger_ref"] \in LedgerRefs /\ DOMAIN old = LEDGER_CONFIG_KEYS
      /\ \A key \in LEDGER_CONFIG_KEYS : old[key] \in Values
  BY LedgerConfigOK, Zenon
<1> HIDE DEF old
<1>2. "ledger_ref" \in LEDGER_CONFIG_KEYS
  BY DEF LEDGER_CONFIG_KEYS
<1>3. \A key \in LEDGER_CONFIG_KEYS :
          new[key] = IF key \in DOMAIN patch THEN patch[key] ELSE old[key]
  BY <1>1 DEF Over
<1>4. /\ new["ledger_ref"] \in LedgerRefs
      /\ \A key \in LEDGER_CONFIG_KEYS : new[key] \in Values
  <2> HIDE DEF new
  <2> QED BY <1>1, <1>2, <1>3, Zenon
<1>5. _apply_ledger_patch(f, new) \in Seq(Lines)
  <2> HIDE DEF new
  <2> QED BY <1>4, LedgerPatch
<1> QED BY <1>5, Zenon DEF update_ledger_config, old

\* The storage directory.
LEMMA DirPatch ==
    ASSUME NEW f \in Seq(Lines), NEW dir \in Values
    PROVE  _apply_taskledger_dir_patch(f, dir) \in Seq(Lines)
<1> DEFINE line == Assign("taskledger_dir", dir)
           hits == {n \in 1..Len(f) : f[n].at = line.at}
           at == LineOf(f, "config_version") + 1
<1>1. "taskledger_dir" \in Words
  BY DEF Words
<1>2. line \in Lines
  BY <1>1, AssignIsLine
<1>3. at \in 1..(Len(f) + 1)
  <2>1. LineOf(f, "config_version") \in 0..Len(f)
    BY LineOfIn
  <2>2. Len(f) \in Nat
    OBVIOUS
  <2> QED BY <2>1, <2>2
<1>4. InsertAt(f, at, line) \in Seq(Lines)
  <2> HIDE DEF at, line
  <2> QED BY <1>2, <1>3, InsertedSeq
<1>5. [n \in 1..Len(f) |-> IF n \in hits THEN line ELSE f[n]] \in Seq(Lines)
  <2> HIDE DEF hits, line
  <2> QED BY <1>2, ReplacedLines
<1>6. [n \in 1..Len(f) |-> IF n \in hits THEN line ELSE f[n]]
        = [n \in 1..Len(f) |-> IF f[n].at = line.at THEN line ELSE f[n]]
  <2> HIDE DEF line
  <2> QED OBVIOUS
<1> QED BY <1>4, <1>5, <1>6, Zenon DEF _apply_taskledger_dir_patch

\* The project uuid.
LEMMA UuidPatch ==
    ASSUME NEW f \in Seq(Lines)
    PROVE  ensure_project_uuid(f) \in Seq(Lines)
<1> DEFINE line == Assign("project_uuid", "uuid")
           dir == LineOf(f, "taskledger_dir")
           ref == LineOf(f, "ledger_ref")
<1>1. "project_uuid" \in Words /\ "uuid" \in OwnValues
  BY DEF Words, OwnValues
<1>2. "uuid" \in Values
  BY <1>1, TextValues, Zenon
<1>3. line \in Lines
  BY <1>1, <1>2, AssignIsLine
<1>4. dir \in 0..Len(f) /\ ref \in 0..Len(f)
  BY LineOfIn
<1>5. Len(f) \in Nat
  OBVIOUS
<1> HIDE DEF line, dir, ref
<1>6. dir + 1 \in 1..(Len(f) + 1) /\ (ref # 0 => ref \in 1..(Len(f) + 1))
  BY <1>4, <1>5
<1>7. InsertAt(f, dir + 1, line) \in Seq(Lines)
  BY <1>3, <1>6, InsertedSeq
<1>8. ref # 0 => InsertAt(f, ref, line) \in Seq(Lines)
  BY <1>3, <1>6, InsertedSeq
<1>9. Append(f, line) \in Seq(Lines)
  BY <1>3, LinesAtEnd
<1> QED BY <1>7, <1>8, <1>9, Zenon
     DEF ensure_project_uuid, insert_or_append_project_uuid, line, dir, ref

\* A key made of words; only ledger_ref itself ends in ledger_ref.
OkPath(path) ==
    /\ path \in Seq(Words) /\ path # <<>>
    /\ Last(path) = "ledger_ref" => path[1] = "ledger_ref"

\* The keys that are set are such keys.
LEMMA KeyPathWords ==
    ASSUME NEW k \in DOMAIN KeyPath
    PROVE  OkPath(KeyPath[k])
<1>1. \A a \in Words : OkPath(<<a>>)
  BY DEF OkPath, Last
<1>2. \A a, b \in Words : b # "ledger_ref" => OkPath(<<a, b>>)
  BY DEF OkPath, Last
<1>3. \A a, b, c \in Words : c # "ledger_ref" => OkPath(<<a, b, c>>)
  BY DEF OkPath, Last
<1>4. k = "reports" => OkPath(KeyPath[k])
  <2>1. "default_save_run_reports" \in Words
    BY DEF Words
  <2>2. OkPath(<<"default_save_run_reports">>)
    BY <2>1, <1>1
  <2> QED BY <2>2 DEF KeyPath
<1>5. k = "context" => OkPath(KeyPath[k])
  <2>1. "default_context_order" \in Words
    BY DEF Words
  <2>2. OkPath(<<"default_context_order">>)
    BY <2>1, <1>1
  <2> QED BY <2>2 DEF KeyPath
<1>6. k = "order" => OkPath(KeyPath[k])
  <2>1. "default_artifact_order" \in Words
    BY DEF Words
  <2>2. OkPath(<<"default_artifact_order">>)
    BY <2>1, <1>1
  <2> QED BY <2>2 DEF KeyPath
<1>7. k = "depends" => OkPath(KeyPath[k])
  <2>1. "artifact_rules" \in Words /\ "analysis" \in Words /\ "depends_on" \in Words
    BY DEF Words
  <2>2. OkPath(<<"artifact_rules", "analysis", "depends_on">>)
    BY <2>1, <1>3
  <2> QED BY <2>2 DEF KeyPath
<1>8. k = "profile" => OkPath(KeyPath[k])
  <2>1. "prompt_profiles" \in Words /\ "planning" \in Words /\ "profile" \in Words
    BY DEF Words
  <2>2. OkPath(<<"prompt_profiles", "planning", "profile">>)
    BY <2>1, <1>3
  <2> QED BY <2>2 DEF KeyPath
<1>9. k = "events" => OkPath(KeyPath[k])
  <2>1. "event_logging" \in Words /\ "enabled" \in Words
    BY DEF Words
  <2>2. OkPath(<<"event_logging", "enabled">>)
    BY <2>1, <1>2
  <2> QED BY <2>2 DEF KeyPath
<1>10. k = "eventtab" => OkPath(KeyPath[k])
  <2>1. "event_logging" \in Words
    BY DEF Words
  <2>2. OkPath(<<"event_logging">>)
    BY <2>1, <1>1
  <2> QED BY <2>2 DEF KeyPath
<1>11. k = "below" => OkPath(KeyPath[k])
  <2>1. "event_logging" \in Words /\ "enabled" \in Words /\ "deep" \in Words
    BY DEF Words
  <2>2. OkPath(<<"event_logging", "enabled", "deep">>)
    BY <2>1, <1>3
  <2> QED BY <2>2 DEF KeyPath
<1>12. k = "logging" => OkPath(KeyPath[k])
  <2>1. "agent_logging" \in Words /\ "enabled" \in Words
    BY DEF Words
  <2>2. OkPath(<<"agent_logging", "enabled">>)
    BY <2>1, <1>2
  <2> QED BY <2>2 DEF KeyPath
<1>13. k = "reads" => OkPath(KeyPath[k])
  <2>1. "agent_logging" \in Words /\ "capture_safe_read_only" \in Words
    BY DEF Words
  <2>2. OkPath(<<"agent_logging", "capture_safe_read_only">>)
    BY <2>1, <1>2
  <2> QED BY <2>2 DEF KeyPath
<1>14. k = "human" => OkPath(KeyPath[k])
  <2>1. "agent_logging" \in Words /\ "capture_human_oriented" \in Words
    BY DEF Words
  <2>2. OkPath(<<"agent_logging", "capture_human_oriented">>)
    BY <2>1, <1>2
  <2> QED BY <2>2 DEF KeyPath
<1>15. k = "shell" => OkPath(KeyPath[k])
  <2>1. "agent_logging" \in Words /\ "capture_managed_shell" \in Words
    BY DEF Words
  <2>2. OkPath(<<"agent_logging", "capture_managed_shell">>)
    BY <2>1, <1>2
  <2> QED BY <2>2 DEF KeyPath
<1>16. k = "chars" => OkPath(KeyPath[k])
  <2>1. "agent_logging" \in Words /\ "max_inline_chars" \in Words
    BY DEF Words
  <2>2. OkPath(<<"agent_logging", "max_inline_chars">>)
    BY <2>1, <1>2
  <2> QED BY <2>2 DEF KeyPath
<1>17. k = "remote" => OkPath(KeyPath[k])
  <2>1. "sync" \in Words /\ "git" \in Words /\ "remote" \in Words
    BY DEF Words
  <2>2. OkPath(<<"sync", "git", "remote">>)
    BY <2>1, <1>3
  <2> QED BY <2>2 DEF KeyPath
<1>18. k = "code" => OkPath(KeyPath[k])
  <2>1. "ledger" \in Words /\ "code" \in Words
    BY DEF Words
  <2>2. OkPath(<<"ledger", "code">>)
    BY <2>1, <1>2
  <2> QED BY <2>2 DEF KeyPath
<1>19. k = "pipeline" => OkPath(KeyPath[k])
  <2>1. "worker_pipeline" \in Words /\ "enabled" \in Words
    BY DEF Words
  <2>2. OkPath(<<"worker_pipeline", "enabled">>)
    BY <2>1, <1>2
  <2> QED BY <2>2 DEF KeyPath
<1>20. k = "naming" => OkPath(KeyPath[k])
  <2>1. "worker_pipeline" \in Words /\ "name" \in Words
    BY DEF Words
  <2>2. OkPath(<<"worker_pipeline", "name">>)
    BY <2>1, <1>2
  <2> QED BY <2>2 DEF KeyPath
<1>21. k = "step" => OkPath(KeyPath[k])
  <2>1. "worker_pipeline" \in Words /\ "steps" \in Words /\ "id" \in Words
    BY DEF Words
  <2>2. OkPath(<<"worker_pipeline", "steps", "id">>)
    BY <2>1, <1>3
  <2> QED BY <2>2 DEF KeyPath
<1>22. k = "ref" => OkPath(KeyPath[k])
  <2>1. "ledger_ref" \in Words
    BY DEF Words
  <2>2. OkPath(<<"ledger_ref">>)
    BY <2>1, <1>1
  <2> QED BY <2>2 DEF KeyPath
<1>23. k = "typo" => OkPath(KeyPath[k])
  <2>1. "event_loging" \in Words /\ "enabled" \in Words
    BY DEF Words
  <2>2. OkPath(<<"event_loging", "enabled">>)
    BY <2>1, <1>2
  <2> QED BY <2>2 DEF KeyPath
<1>25. k = "cli" => OkPath(KeyPath[k])
  <2>1. "agent_logging" \in Words /\ "capture_taskledger_cli" \in Words
    BY DEF Words
  <2>2. OkPath(<<"agent_logging", "capture_taskledger_cli">>)
    BY <2>1, <1>2
  <2> QED BY <2>2 DEF KeyPath
<1>24. k \in {"reports", "context", "order", "depends", "profile", "events",
              "eventtab", "below", "logging", "reads", "human", "shell", "chars",
              "remote", "code", "pipeline", "naming", "step", "ref", "typo", "cli"}
  BY DEF KeyPath
<1> QED BY <1>4, <1>5, <1>6, <1>7, <1>8, <1>9, <1>10, <1>11, <1>12, <1>13, <1>14,
     <1>15, <1>16, <1>17, <1>18, <1>19, <1>20, <1>21, <1>22, <1>23, <1>24, <1>25,
     Zenon

\* Every file a project starts from.
LEMMA LayoutLines ==
    ASSUME NEW name \in DOMAIN Layout
    PROVE  Layout[name] \in Seq(Lines)
<1> DEFINE A(k, v) == Assign(k, v)
<1>1. \A k \in Words \ {"ledger_ref"} : \A v \in OwnValues : Assign(k, v) \in Lines
  <2> SUFFICES ASSUME NEW k \in Words, k # "ledger_ref", NEW v \in OwnValues
               PROVE  Assign(k, v) \in Lines
    OBVIOUS
  <2>1. v \in Values
    BY TextValues, Zenon
  <2> QED BY <2>1, AssignIsLine
<1>2. Assign("ledger_ref", "main") \in Lines
  BY DEF Assign, Lines, LedgerRefs
<1>3. \A p \in Seq(Words) : Header(p) \in Lines /\ ItemHeader(p) \in Lines
  BY DEF Header, ItemHeader, Lines
<1>4. <<"ledger">> \in Seq(Words) /\ <<"worker_pipeline">> \in Seq(Words)
      /\ <<"worker_pipeline", "steps">> \in Seq(Words) /\ <<"event_logging">> \in Seq(Words)
  BY DEF Words
<1>5. /\ Assign("config_version", "2") \in Lines
      /\ Assign("taskledger_dir", "here") \in Lines
      /\ Assign("taskledger_dir", "there") \in Lines
      /\ Assign("project_uuid", "uuid") \in Lines
      /\ Assign("project_name", "text") \in Lines
      /\ Assign("ledger_parent_ref", "none") \in Lines
      /\ Assign("ledger_next_task_number", "1") \in Lines
      /\ Assign("ledger_branch_guard", "off") \in Lines
      /\ Assign("code", "tl") \in Lines /\ Assign("name", "text") \in Lines
      /\ Assign("enabled", "true") \in Lines
      /\ Assign("id", "r1") \in Lines
      /\ Assign("lifecycle_stage", "review") \in Lines
      /\ Assign("base_context", "reviewer") \in Lines
  BY <1>1 DEF Words, OwnValues
<1>6. /\ Header(<<"ledger">>) \in Lines /\ Header(<<"worker_pipeline">>) \in Lines
      /\ Header(<<"event_logging">>) \in Lines
      /\ ItemHeader(<<"worker_pipeline", "steps">>) \in Lines
  BY <1>3, <1>4, Zenon
<1>10. LedgerBlock \in Seq(Lines)
  <2>1. LedgerBlock \in [1..4 -> Lines]
    BY <1>2, <1>5 DEF Top, LedgerBlock
  <2> QED BY <2>1, MappedSeq
<1>7. render_default_taskledger_toml \in Seq(Lines)
  <2> DEFINE top == Top(<<"config_version", "taskledger_dir", "project_uuid">>,
                        <<"2", "here", "uuid">>)
             rest == <<Header(<<"ledger">>), Assign("code", "tl"), Assign("name", "text")>>
  <2>1. top \in [1..3 -> Lines]
    BY <1>2, <1>5 DEF Top
  <2>2. top \in Seq(Lines)
    <3> HIDE DEF top
    <3> QED BY <2>1, MappedSeq
  <2>3. rest \in Seq(Lines)
    BY <1>5, <1>6
  <2>4. top \o LedgerBlock \o rest \in Seq(Lines)
    <3> HIDE DEF top, rest
    <3> QED BY <1>10, <2>2, <2>3, ConcatProperties
  <2> QED BY <2>4, Zenon DEF render_default_taskledger_toml
<1>8. PipelineFile \in Seq(Lines)
  <2> DEFINE top == Top(<<"config_version", "taskledger_dir">>, <<"2", "here">>)
             rest == <<Header(<<"worker_pipeline">>), Assign("enabled", "true"),
                       ItemHeader(<<"worker_pipeline", "steps">>), Assign("id", "r1"),
                       Assign("lifecycle_stage", "review"),
                       Assign("base_context", "reviewer"),
                       Header(<<"event_logging">>), Assign("enabled", "true")>>
  <2>1. top \in [1..2 -> Lines]
    BY <1>2, <1>5 DEF Top
  <2>2. top \in Seq(Lines)
    <3> HIDE DEF top
    <3> QED BY <2>1, MappedSeq
  <2>3. rest \in Seq(Lines)
    BY <1>5, <1>6
  <2>4. top \o LedgerBlock \o rest \in Seq(Lines)
    <3> HIDE DEF top, rest
    <3> QED BY <1>10, <2>2, <2>3, ConcatProperties
  <2> QED BY <2>4, Zenon DEF PipelineFile
<1>9. DocumentedFile \in Seq(Lines)
  <2> DEFINE top == Top(<<"config_version", "taskledger_dir", "project_uuid",
                          "project_name", "ledger_ref">>,
                        <<"2", "there", "uuid", "text", "main">>)
  <2>1. top \in [1..5 -> Lines]
    BY <1>2, <1>5 DEF Top
  <2>2. top \in Seq(Lines)
    <3> HIDE DEF top
    <3> QED BY <2>1, MappedSeq
  <2> QED BY <2>2, Zenon DEF DocumentedFile
<1> QED BY <1>7, <1>8, <1>9 DEF Layout

-----------------------------------------------------------------------------
(* The inventory *)

\* The commands of one word that only read, and those meant for a person.
SingleReads ==
    {"next-action", "can", "context", "trace", "status", "view", "usage", "tree",
     "monitor", "commands", "search", "grep", "symbols", "deps", "doctor"}

SingleHumans == {"monitor", "commands"}

\* The commands of two words that only read, in the groups main() knows.
ReadPair(g, n) ==
    \/ g = "actor" /\ n \in {"whoami"}
    \/ g = "task" /\ n \in {"active", "show", "list", "events", "dossier", "transcript"}
    \/ g = "plan" /\ n \in {"guidance", "lint", "show", "list", "diff"}
    \/ g = "question" /\ n \in {"status", "answers", "list", "open"}
    \/ g = "implement" /\ n \in {"checklist", "show", "status"}
    \/ g = "todo" /\ n \in {"next", "status", "show", "list"}
    \/ g = "validate" /\ n \in {"status", "show"}
    \/ g = "handoff" /\ n \in {"show", "list", "plan-context",
                               "implementation-context", "validation-context"}
    \/ g = "file" /\ n \in {"list", "status"}
    \/ g \in {"link", "require"} /\ n = "list"
    \/ g \in {"intro", "release", "lock"} /\ n \in {"list", "show"}
    \/ g = "ledger" /\ n \in {"status", "list", "doctor"}
    \/ g = "doctor"

\* Those meant for a person.
HumanPair(g, n) == g = "release" \/ (g = "task" /\ n \in {"report", "transcript"})

\* What is so of a command of one word.
SingleClaim(w, class, human) ==
    /\ class = "read" <=> w \in SingleReads
    /\ human <=> w \in SingleHumans

\* What is so of a command of two words.
PairClaim(g, n, class, human) ==
    /\ class = "read" \/ g \notin SingleReads
    /\ human \/ g \notin SingleHumans
    /\ g \in _known_commands =>
           /\ class = "read" <=> ReadPair(g, n)
           /\ human <=> HumanPair(g, n)

\* What is so of every entry.  Longer commands are those of sync, which is
\* not among the first words main() knows.
EntryOK(e) ==
    /\ \E S : e.words \in Seq(S)
    /\ \/ Len(e.words) = 1 /\ SingleClaim(e.words[1], e.class, e.human)
       \/ Len(e.words) = 2 /\ PairClaim(e.words[1], e.words[2], e.class, e.human)
       \/ Len(e.words) > 2 /\ e.words[1] = "sync"

\* A group and a name.
LEMMA TwoWords ==
    ASSUME NEW g, NEW n
    PROVE  /\ Append(<<g>>, n) \in Seq({g, n})
           /\ Len(Append(<<g>>, n)) = 2
           /\ Append(<<g>>, n)[1] = g /\ Append(<<g>>, n)[2] = n
<1>1. <<g>> \in Seq({g, n}) /\ Len(<<g>>) = 1 /\ <<g>>[1] = g
  OBVIOUS
<1> DEFINE one == <<g>>
<1> HIDE DEF one
<1>2. /\ Append(one, n) \in Seq({g, n}) /\ Len(Append(one, n)) = 2
      /\ Append(one, n)[1] = g /\ Append(one, n)[2] = n
  BY <1>1, AppendProperties DEF one
<1> QED BY <1>2 DEF one

\* A name of one word.
LEMMA SingleEntry ==
    ASSUME NEW n, NEW class, NEW human \in BOOLEAN, SingleClaim(n, class, human)
    PROVE  EntryOK(Entry(Append(<<>>, n), human, class))
<1> DEFINE words == Append(<<>>, n)
           e == Entry(words, human, class)
<1>1. Len(words) = 1 /\ words[1] = n /\ words \in Seq({n})
  OBVIOUS
<1> HIDE DEF words
<1>2. e.words = words /\ e.human = human /\ e.class = class
  BY DEF Entry
<1> HIDE DEF e
<1>3. SingleClaim(e.words[1], e.class, e.human) /\ Len(e.words) = 1
      /\ e.words \in Seq({n})
  BY <1>1, <1>2, Zenon
<1>4. EntryOK(e)
  BY <1>3, Zenon DEF EntryOK
<1> QED BY <1>4, Zenon DEF e, words

\* A name of two words.
LEMMA PairEntry ==
    ASSUME NEW g, NEW n, NEW class, NEW human \in BOOLEAN, PairClaim(g, n, class, human)
    PROVE  EntryOK(Entry(Append(<<g>>, n), human, class))
<1> DEFINE words == Append(<<g>>, n)
           e == Entry(words, human, class)
<1>1. Len(words) = 2 /\ words[1] = g /\ words[2] = n /\ words \in Seq({g, n})
  BY TwoWords
<1> HIDE DEF words
<1>2. e.words = words /\ e.human = human /\ e.class = class
  BY DEF Entry
<1> HIDE DEF e
<1>3. PairClaim(e.words[1], e.words[2], e.class, e.human) /\ Len(e.words) = 2
      /\ e.words \in Seq({g, n})
  BY <1>1, <1>2, Zenon
<1>4. EntryOK(e)
  BY <1>3, Zenon DEF EntryOK
<1> QED BY <1>4, Zenon DEF e, words

\* Rows of the table with names of one word.
LEMMA GroupSingles ==
    ASSUME NEW class, NEW names, \A n \in names : SingleClaim(n, class, FALSE)
    PROVE  \A e \in Group(<<>>, class, names) : EntryOK(e)
BY SingleEntry, Zenon DEF Group

\* The same, for a person.
LEMMA HumanSingles ==
    ASSUME NEW class, NEW names, \A n \in names : SingleClaim(n, class, TRUE)
    PROVE  \A e \in Human(<<>>, class, names) : EntryOK(e)
BY SingleEntry, Zenon DEF Human

\* Rows of the table with names of two words.
LEMMA GroupPairs ==
    ASSUME NEW g, NEW class, NEW names, \A n \in names : PairClaim(g, n, class, FALSE)
    PROVE  \A e \in Group(<<g>>, class, names) : EntryOK(e)
BY PairEntry, Zenon DEF Group

\* The same, for a person.
LEMMA HumanPairs ==
    ASSUME NEW g, NEW class, NEW names, \A n \in names : PairClaim(g, n, class, TRUE)
    PROVE  \A e \in Human(<<g>>, class, names) : EntryOK(e)
BY PairEntry, Zenon DEF Human

\* A longer name.
LEMMA LongEntry ==
    ASSUME NEW S, NEW words \in Seq(S), NEW class, NEW human,
           Len(words) > 2, words[1] = "sync"
    PROVE  EntryOK(Entry(words, human, class))
<1> DEFINE e == Entry(words, human, class)
<1>1. e.words = words
  BY DEF Entry
<1> HIDE DEF e
<1>2. EntryOK(e)
  BY <1>1, Zenon DEF EntryOK
<1> QED BY <1>2, Zenon DEF e

\* Rows with longer names.
LEMMA LongNames ==
    ASSUME NEW class, NEW names
    PROVE  /\ \A e \in Human(<<"sync", "git">>, class, names) : EntryOK(e)
           /\ \A e \in Human(<<"sync", "git", "hooks">>, class, names) : EntryOK(e)
<1>1. ASSUME NEW n \in names
      PROVE  EntryOK(Entry(Append(<<"sync", "git">>, n), TRUE, class))
  <2> DEFINE T == {"sync", "git", "hooks", n}
             words == Append(<<"sync", "git">>, n)
  <2>1. words[1] = "sync" /\ Len(words) > 2 /\ words \in Seq(T)
    OBVIOUS
  <2> HIDE DEF words, T
  <2>2. EntryOK(Entry(words, TRUE, class))
    BY <2>1, LongEntry, Zenon
  <2> QED BY <2>2, Zenon DEF words
<1>2. ASSUME NEW n \in names
      PROVE  EntryOK(Entry(Append(<<"sync", "git", "hooks">>, n), TRUE, class))
  <2> DEFINE T == {"sync", "git", "hooks", n}
             words == Append(<<"sync", "git", "hooks">>, n)
  <2>1. words[1] = "sync" /\ Len(words) > 2 /\ words \in Seq(T)
    OBVIOUS
  <2> HIDE DEF words, T
  <2>2. EntryOK(Entry(words, TRUE, class))
    BY <2>1, LongEntry, Zenon
  <2> QED BY <2>2, Zenon DEF words
<1> QED BY <1>1, <1>2, Zenon DEF Human

\* The section of the setup commands.
LEMMA SetupCommandsOK ==
    \A e \in SetupCommands : EntryOK(e)
<1>1. \A e \in Group(<<"actor">>, "read", {"whoami"}) : EntryOK(e)
  BY GroupPairs DEF PairClaim, SingleReads, SingleHumans, ReadPair, HumanPair,
     _known_commands
<1>2. \A e \in Group(<<"actor">>, "write", {"set", "clear"}) : EntryOK(e)
  BY GroupPairs DEF PairClaim, SingleReads, SingleHumans, ReadPair, HumanPair,
     _known_commands
<1>3. \A e \in Group(<<"harness">>, "write", {"set", "clear"}) : EntryOK(e)
  BY GroupPairs DEF PairClaim, SingleReads, SingleHumans, ReadPair, HumanPair,
     _known_commands
<1> QED BY <1>1, <1>2, <1>3, Zenon DEF SetupCommands

\* The section of the orientation commands.
LEMMA OrientationCommandsOK ==
    \A e \in OrientationCommands : EntryOK(e)
<1>1. \A e \in Group(<<>>, "write", {"init"}) : EntryOK(e)
  BY GroupSingles DEF SingleClaim, SingleReads, SingleHumans
<1>2. \A e \in Group(<<>>, "read", {"next-action", "can", "context",
                     "trace"}) : EntryOK(e)
  BY GroupSingles DEF SingleClaim, SingleReads, SingleHumans
<1>3. \A e \in Group(<<"config">>, "read", {"list", "show", "get", "keys",
                     "describe"}) : EntryOK(e)
  BY GroupPairs DEF PairClaim, SingleReads, SingleHumans, ReadPair, HumanPair,
     _known_commands
<1>4. \A e \in Group(<<"config">>, "write", {"set"}) : EntryOK(e)
  BY GroupPairs DEF PairClaim, SingleReads, SingleHumans, ReadPair, HumanPair,
     _known_commands
<1>5. \A e \in Group(<<"pipeline">>, "read", {"show", "list", "next",
                     "context"}) : EntryOK(e)
  BY GroupPairs DEF PairClaim, SingleReads, SingleHumans, ReadPair, HumanPair,
     _known_commands
<1> QED BY <1>1, <1>2, <1>3, <1>4, <1>5, Zenon DEF OrientationCommands

\* The section of the task commands.
LEMMA TaskCommandsOK ==
    \A e \in TaskCommands : EntryOK(e)
<1>1. \A e \in Group(<<"task">>, "write", {"create", "activate", "deactivate",
                     "follow-up", "record", "edit", "cancel", "uncancel",
                     "close", "archive", "unarchive"}) : EntryOK(e)
  BY GroupPairs DEF PairClaim, SingleReads, SingleHumans, ReadPair, HumanPair,
     _known_commands
<1>2. \A e \in Group(<<"task">>, "read", {"active", "show", "list",
                     "events"}) : EntryOK(e)
  BY GroupPairs DEF PairClaim, SingleReads, SingleHumans, ReadPair, HumanPair,
     _known_commands
<1> QED BY <1>1, <1>2, Zenon DEF TaskCommands

\* The section of the planning commands.
LEMMA PlanningCommandsOK ==
    \A e \in PlanningCommands : EntryOK(e)
<1>1. \A e \in Group(<<"plan">>, "write", {"start", "upsert", "propose",
                     "regenerate", "materialize-todos", "revise", "amend",
                     "reject"}) : EntryOK(e)
  BY GroupPairs DEF PairClaim, SingleReads, SingleHumans, ReadPair, HumanPair,
     _known_commands
<1>2. \A e \in Group(<<"plan">>, "render", {"template", "review", "export",
                     "draft"}) : EntryOK(e)
  BY GroupPairs DEF PairClaim, SingleReads, SingleHumans, ReadPair, HumanPair,
     _known_commands
<1>3. \A e \in Group(<<"plan">>, "read", {"guidance", "lint", "show", "list",
                     "diff"}) : EntryOK(e)
  BY GroupPairs DEF PairClaim, SingleReads, SingleHumans, ReadPair, HumanPair,
     _known_commands
<1>4. \A e \in Group(<<"plan">>, "exec", {"command"}) : EntryOK(e)
  BY GroupPairs DEF PairClaim, SingleReads, SingleHumans, ReadPair, HumanPair,
     _known_commands
<1> QED BY <1>1, <1>2, <1>3, <1>4, Zenon DEF PlanningCommands

\* The section of the approval commands.
LEMMA ApprovalCommandsOK ==
    \A e \in ApprovalCommands : EntryOK(e)
<1>1. \A e \in Group(<<"plan">>, "write", {"accept", "approve"}) : EntryOK(e)
  BY GroupPairs DEF PairClaim, SingleReads, SingleHumans, ReadPair, HumanPair,
     _known_commands
<1> QED BY <1>1, Zenon DEF ApprovalCommands

\* The section of the question commands.
LEMMA QuestionCommandsOK ==
    \A e \in QuestionCommands : EntryOK(e)
<1>1. \A e \in Group(<<"question">>, "write", {"add", "add-many", "answer",
                     "answer-many", "dismiss"}) : EntryOK(e)
  BY GroupPairs DEF PairClaim, SingleReads, SingleHumans, ReadPair, HumanPair,
     _known_commands
<1>2. \A e \in Group(<<"question">>, "read", {"status", "answers", "list",
                     "open"}) : EntryOK(e)
  BY GroupPairs DEF PairClaim, SingleReads, SingleHumans, ReadPair, HumanPair,
     _known_commands
<1> QED BY <1>1, <1>2, Zenon DEF QuestionCommands

\* The section of the implementation commands.
LEMMA ImplementationCommandsOK ==
    \A e \in ImplementationCommands : EntryOK(e)
<1>1. \A e \in Group(<<"implement">>, "write", {"start", "restart", "resume",
                     "change", "scan-changes", "finish", "log", "deviation",
                     "artifact"}) : EntryOK(e)
  BY GroupPairs DEF PairClaim, SingleReads, SingleHumans, ReadPair, HumanPair,
     _known_commands
<1>2. \A e \in Group(<<"implement">>, "read", {"checklist", "show",
                     "status"}) : EntryOK(e)
  BY GroupPairs DEF PairClaim, SingleReads, SingleHumans, ReadPair, HumanPair,
     _known_commands
<1>3. \A e \in Group(<<"implement">>, "exec", {"command"}) : EntryOK(e)
  BY GroupPairs DEF PairClaim, SingleReads, SingleHumans, ReadPair, HumanPair,
     _known_commands
<1> QED BY <1>1, <1>2, <1>3, Zenon DEF ImplementationCommands

\* The section of the todo commands.
LEMMA TodoCommandsOK ==
    \A e \in TodoCommands : EntryOK(e)
<1>1. \A e \in Group(<<"todo">>, "write", {"add", "done",
                     "undone"}) : EntryOK(e)
  BY GroupPairs DEF PairClaim, SingleReads, SingleHumans, ReadPair, HumanPair,
     _known_commands
<1>2. \A e \in Group(<<"todo">>, "read", {"next", "status", "show",
                     "list"}) : EntryOK(e)
  BY GroupPairs DEF PairClaim, SingleReads, SingleHumans, ReadPair, HumanPair,
     _known_commands
<1> QED BY <1>1, <1>2, Zenon DEF TodoCommands

\* The section of the validation commands.
LEMMA ValidationCommandsOK ==
    \A e \in ValidationCommands : EntryOK(e)
<1>1. \A e \in Group(<<"validate">>, "write", {"start", "check", "finish",
                     "waive"}) : EntryOK(e)
  BY GroupPairs DEF PairClaim, SingleReads, SingleHumans, ReadPair, HumanPair,
     _known_commands
<1>2. \A e \in Group(<<"validate">>, "read", {"status", "show"}) : EntryOK(e)
  BY GroupPairs DEF PairClaim, SingleReads, SingleHumans, ReadPair, HumanPair,
     _known_commands
<1> QED BY <1>1, <1>2, Zenon DEF ValidationCommands

\* The section of the review commands.
LEMMA ReviewCommandsOK ==
    \A e \in ReviewCommands : EntryOK(e)
<1>1. \A e \in Group(<<"review">>, "write", {"record"}) : EntryOK(e)
  BY GroupPairs DEF PairClaim, SingleReads, SingleHumans, ReadPair, HumanPair,
     _known_commands
<1>2. \A e \in Group(<<"review">>, "read", {"list", "show"}) : EntryOK(e)
  BY GroupPairs DEF PairClaim, SingleReads, SingleHumans, ReadPair, HumanPair,
     _known_commands
<1> QED BY <1>1, <1>2, Zenon DEF ReviewCommands

\* The section of the handoff commands.
LEMMA HandoffCommandsOK ==
    \A e \in HandoffCommands : EntryOK(e)
<1>1. \A e \in Group(<<"handoff">>, "write", {"create", "claim", "close",
                     "cancel"}) : EntryOK(e)
  BY GroupPairs DEF PairClaim, SingleReads, SingleHumans, ReadPair, HumanPair,
     _known_commands
<1>2. \A e \in Group(<<"handoff">>, "read", {"show", "list", "plan-context",
                     "implementation-context",
                     "validation-context"}) : EntryOK(e)
  BY GroupPairs DEF PairClaim, SingleReads, SingleHumans, ReadPair, HumanPair,
     _known_commands
<1> QED BY <1>1, <1>2, Zenon DEF HandoffCommands

\* The section of the report commands.
LEMMA ReportCommandsOK ==
    \A e \in ReportCommands : EntryOK(e)
<1>1. \A e \in Group(<<>>, "read", {"status", "view", "usage",
                     "tree"}) : EntryOK(e)
  BY GroupSingles DEF SingleClaim, SingleReads, SingleHumans
<1>2. \A e \in Human(<<>>, "read", {"monitor", "commands"}) : EntryOK(e)
  BY HumanSingles DEF SingleClaim, SingleReads, SingleHumans
<1>3. \A e \in Group(<<"task">>, "read", {"dossier"}) : EntryOK(e)
  BY GroupPairs DEF PairClaim, SingleReads, SingleHumans, ReadPair, HumanPair,
     _known_commands
<1>4. \A e \in Human(<<"task">>, "render", {"report"}) : EntryOK(e)
  BY HumanPairs DEF PairClaim, SingleReads, SingleHumans, ReadPair, HumanPair,
     _known_commands
<1>5. \A e \in Group(<<"task">>, "render", {"export"}) : EntryOK(e)
  BY GroupPairs DEF PairClaim, SingleReads, SingleHumans, ReadPair, HumanPair,
     _known_commands
<1>6. \A e \in Human(<<"task">>, "read", {"transcript"}) : EntryOK(e)
  BY HumanPairs DEF PairClaim, SingleReads, SingleHumans, ReadPair, HumanPair,
     _known_commands
<1> QED BY <1>1, <1>2, <1>3, <1>4, <1>5, <1>6, Zenon DEF ReportCommands

\* The section of the reference commands.
LEMMA ReferenceCommandsOK ==
    \A e \in ReferenceCommands : EntryOK(e)
<1>1. \A e \in Group(<<"file">>, "write", {"add", "link", "remove",
                     "refresh"}) : EntryOK(e)
  BY GroupPairs DEF PairClaim, SingleReads, SingleHumans, ReadPair, HumanPair,
     _known_commands
<1>2. \A e \in Group(<<"file">>, "read", {"list", "status"}) : EntryOK(e)
  BY GroupPairs DEF PairClaim, SingleReads, SingleHumans, ReadPair, HumanPair,
     _known_commands
<1>3. \A e \in Group(<<"ref">>, "read", {"show", "parse"}) : EntryOK(e)
  BY GroupPairs DEF PairClaim, SingleReads, SingleHumans, ReadPair, HumanPair,
     _known_commands
<1>4. \A e \in Group(<<"link">>, "write", {"add", "remove"}) : EntryOK(e)
  BY GroupPairs DEF PairClaim, SingleReads, SingleHumans, ReadPair, HumanPair,
     _known_commands
<1>5. \A e \in Group(<<"link">>, "read", {"list"}) : EntryOK(e)
  BY GroupPairs DEF PairClaim, SingleReads, SingleHumans, ReadPair, HumanPair,
     _known_commands
<1>6. \A e \in Group(<<"intro">>, "write", {"create", "link"}) : EntryOK(e)
  BY GroupPairs DEF PairClaim, SingleReads, SingleHumans, ReadPair, HumanPair,
     _known_commands
<1>7. \A e \in Group(<<"intro">>, "read", {"list", "show"}) : EntryOK(e)
  BY GroupPairs DEF PairClaim, SingleReads, SingleHumans, ReadPair, HumanPair,
     _known_commands
<1>8. \A e \in Group(<<"require">>, "write", {"add", "remove",
                     "waive"}) : EntryOK(e)
  BY GroupPairs DEF PairClaim, SingleReads, SingleHumans, ReadPair, HumanPair,
     _known_commands
<1>9. \A e \in Group(<<"require">>, "read", {"list"}) : EntryOK(e)
  BY GroupPairs DEF PairClaim, SingleReads, SingleHumans, ReadPair, HumanPair,
     _known_commands
<1> QED BY <1>1, <1>2, <1>3, <1>4, <1>5, <1>6, <1>7, <1>8, <1>9, Zenon DEF
     ReferenceCommands

\* The section of the transfer commands.
LEMMA TransferCommandsOK ==
    \A e \in TransferCommands : EntryOK(e)
<1>1. \A e \in Group(<<>>, "write", {"export", "import"}) : EntryOK(e)
  BY GroupSingles DEF SingleClaim, SingleReads, SingleHumans
<1>2. \A e \in Group(<<>>, "render", {"snapshot"}) : EntryOK(e)
  BY GroupSingles DEF SingleClaim, SingleReads, SingleHumans
<1>3. \A e \in Group(<<"ledger">>, "read", {"status", "list",
                     "doctor"}) : EntryOK(e)
  BY GroupPairs DEF PairClaim, SingleReads, SingleHumans, ReadPair, HumanPair,
     _known_commands
<1>4. \A e \in Group(<<"ledger">>, "write", {"fork", "switch",
                     "adopt"}) : EntryOK(e)
  BY GroupPairs DEF PairClaim, SingleReads, SingleHumans, ReadPair, HumanPair,
     _known_commands
<1>5. \A e \in Human(<<"storage">>, "read", {"where"}) : EntryOK(e)
  BY HumanPairs DEF PairClaim, SingleReads, SingleHumans, ReadPair, HumanPair,
     _known_commands
<1>6. \A e \in Human(<<"storage">>, "write", {"move"}) : EntryOK(e)
  BY HumanPairs DEF PairClaim, SingleReads, SingleHumans, ReadPair, HumanPair,
     _known_commands
<1> QED BY <1>1, <1>2, <1>3, <1>4, <1>5, <1>6, Zenon DEF TransferCommands

\* The section of the sync commands.
LEMMA SyncCommandsOK ==
    \A e \in SyncCommands : EntryOK(e)
<1>1. \A e \in Human(<<"sync">>, "probe", {"preflight", "status"}) : EntryOK(e)
  BY HumanPairs DEF PairClaim, SingleReads, SingleHumans, ReadPair, HumanPair,
     _known_commands
<1>2. \A e \in Human(<<"sync">>, "exec", {"commit"}) : EntryOK(e)
  BY HumanPairs DEF PairClaim, SingleReads, SingleHumans, ReadPair, HumanPair,
     _known_commands
<1>3. \A e \in Group(<<"sync">>, "write", {"export", "import"}) : EntryOK(e)
  BY GroupPairs DEF PairClaim, SingleReads, SingleHumans, ReadPair, HumanPair,
     _known_commands
<1>4. \A e \in Human(<<"sync">>, "read", {"git"}) : EntryOK(e)
  BY HumanPairs DEF PairClaim, SingleReads, SingleHumans, ReadPair, HumanPair,
     _known_commands
<1>5. \A e \in Human(<<"sync", "git">>, "exec", {"init"}) : EntryOK(e)
  BY LongNames
<1>6. \A e \in Human(<<"sync", "git">>, "probe", {"status"}) : EntryOK(e)
  BY LongNames
<1>7. \A e \in Human(<<"sync", "git">>, "read", {"cd", "path"}) : EntryOK(e)
  BY LongNames
<1> QED BY <1>1, <1>2, <1>3, <1>4, <1>5, <1>6, <1>7, Zenon DEF SyncCommands

\* The section of the sync git commands.
LEMMA SyncGitCommandsOK ==
    \A e \in SyncGitCommands : EntryOK(e)
<1>1. \A e \in Human(<<"sync", "git">>, "exec", {"import-local", "commit",
                     "export-local", "pull", "push", "sync"}) : EntryOK(e)
  BY LongNames
<1>2. \A e \in Human(<<"sync", "git">>, "read", {"hooks"}) : EntryOK(e)
  BY LongNames
<1>3. \A e \in Human(<<"sync", "git", "hooks">>, "write", {"install",
                     "uninstall"}) : EntryOK(e)
  BY LongNames
<1>4. \A e \in Human(<<"sync", "git", "hooks">>, "render",
                     {"status"}) : EntryOK(e)
  BY LongNames
<1> QED BY <1>1, <1>2, <1>3, <1>4, Zenon DEF SyncGitCommands

\* The section of the release commands.
LEMMA ReleaseCommandsOK ==
    \A e \in ReleaseCommands : EntryOK(e)
<1>1. \A e \in Human(<<"release">>, "write", {"tag"}) : EntryOK(e)
  BY HumanPairs DEF PairClaim, SingleReads, SingleHumans, ReadPair, HumanPair,
     _known_commands
<1>2. \A e \in Human(<<"release">>, "read", {"list", "show"}) : EntryOK(e)
  BY HumanPairs DEF PairClaim, SingleReads, SingleHumans, ReadPair, HumanPair,
     _known_commands
<1> QED BY <1>1, <1>2, Zenon DEF ReleaseCommands

\* The section of the search commands.
LEMMA SearchCommandsOK ==
    \A e \in SearchCommands : EntryOK(e)
<1>1. \A e \in Group(<<>>, "read", {"search", "grep", "symbols",
                     "deps"}) : EntryOK(e)
  BY GroupSingles DEF SingleClaim, SingleReads, SingleHumans
<1> QED BY <1>1, Zenon DEF SearchCommands

\* The section of the repair commands.
LEMMA RepairCommandsOK ==
    \A e \in RepairCommands : EntryOK(e)
<1>1. \A e \in Group(<<>>, "read", {"doctor"}) : EntryOK(e)
  BY GroupSingles DEF SingleClaim, SingleReads, SingleHumans
<1>2. \A e \in Group(<<"doctor">>, "read", {"locks", "schema",
                     "indexes"}) : EntryOK(e)
  BY GroupPairs DEF PairClaim, SingleReads, SingleHumans, ReadPair, HumanPair,
     _known_commands
<1>3. \A e \in Group(<<"lock">>, "read", {"show", "list"}) : EntryOK(e)
  BY GroupPairs DEF PairClaim, SingleReads, SingleHumans, ReadPair, HumanPair,
     _known_commands
<1>4. \A e \in Group(<<"lock">>, "write", {"break"}) : EntryOK(e)
  BY GroupPairs DEF PairClaim, SingleReads, SingleHumans, ReadPair, HumanPair,
     _known_commands
<1>5. \A e \in Group(<<"repair">>, "write", {"lock", "index", "run", "task",
                     "task-dirs", "planning-command-changes"}) : EntryOK(e)
  BY GroupPairs DEF PairClaim, SingleReads, SingleHumans, ReadPair, HumanPair,
     _known_commands
<1>6. \A e \in Group(<<"migrate">>, "read", {"status", "plan"}) : EntryOK(e)
  BY GroupPairs DEF PairClaim, SingleReads, SingleHumans, ReadPair, HumanPair,
     _known_commands
<1>7. \A e \in Group(<<"migrate">>, "write", {"apply"}) : EntryOK(e)
  BY GroupPairs DEF PairClaim, SingleReads, SingleHumans, ReadPair, HumanPair,
     _known_commands
<1>8. \A e \in Group(<<>>, "write", {"reindex"}) : EntryOK(e)
  BY GroupSingles DEF SingleClaim, SingleReads, SingleHumans
<1> QED BY <1>1, <1>2, <1>3, <1>4, <1>5, <1>6, <1>7, <1>8, Zenon DEF
     RepairCommands

\* Every entry of the inventory.
LEMMA InventoryOK ==
    \A e \in COMMAND_METADATA : EntryOK(e)
BY SetupCommandsOK, OrientationCommandsOK, TaskCommandsOK, PlanningCommandsOK,
   ApprovalCommandsOK, QuestionCommandsOK, ImplementationCommandsOK,
   TodoCommandsOK, ValidationCommandsOK, ReviewCommandsOK, HandoffCommandsOK,
   ReportCommandsOK, ReferenceCommandsOK, TransferCommandsOK, SyncCommandsOK,
   SyncGitCommandsOK, ReleaseCommandsOK, SearchCommandsOK, RepairCommandsOK,
   Zenon DEF COMMAND_METADATA

\* The class of the entry a command line is looked up under: what does more
\* than read is not looked up as a read, and what is not meant for a person
\* not as something that is.
LEMMA ProfileOK ==
    ASSUME NEW profile \in Profiles
    PROVE  /\ profile.class # "read" => profile.key_class # "read"
           /\ profile.key_human => profile.human
<1>1. PICK e \in COMMAND_METADATA, option \in BOOLEAN : profile = Profile(e, option)
  BY DEF Profiles
<1> DEFINE w == e.words
           argv == Argv(w, option)
           key == _command_key_from_argv(argv)
           found == IF key \in Keys THEN Metadata(key) ELSE NoEntry
<1>2. /\ profile.class = e.class /\ profile.human = e.human
      /\ profile.key_class = found.class /\ profile.key_human = found.human
  <2> HIDE DEF found
  <2>1. profile = [class |-> e.class, human |-> e.human,
                   key_class |-> found.class, key_human |-> found.human]
    BY <1>1, Zenon DEF Profile, found
  <2> QED BY <2>1
<1>3. EntryOK(e)
  BY InventoryOK
<1>4. PICK S : w \in Seq(S)
  BY <1>3, Zenon DEF EntryOK
<1>5. Len(<<w[1]>>) = 1 /\ <<w[1]>>[1] = w[1]
  OBVIOUS
<1>6. \/ Len(key) = 1 /\ key[1] = w[1]
      \/ Len(w) = 2 /\ w[1] \in _known_commands
         /\ Len(key) = 2 /\ key[1] = w[1] /\ key[2] = w[2]
  <2>1. CASE argv = <<w[1]>>
    <3>1. Len(argv) = 1 /\ argv[1] = w[1]
      BY <1>5, <2>1, Zenon
    <3>2. key = <<argv[1]>>
      <4> HIDE DEF argv
      <4> QED BY <3>1 DEF _command_key_from_argv
    <3> HIDE DEF argv, key
    <3> QED BY <1>5, <3>1, <3>2, Zenon
  <2>2. CASE argv # <<w[1]>>
    <3>1. argv = w /\ w[1] \in _known_commands
      BY <2>2, Zenon DEF Argv
    <3>2. w[1] # "sync"
      BY <3>1 DEF _known_commands
    <3>3. (key = SubSeq(w, 1, 2) /\ Len(w) >= 2) \/ key = <<w[1]>>
      BY <3>1, Zenon DEF _command_key_from_argv
    <3>4. CASE key = <<w[1]>>
      <4> HIDE DEF key
      <4> QED BY <1>5, <3>4, Zenon
    <3>5. CASE key = SubSeq(w, 1, 2) /\ Len(w) >= 2
      <4>1. Len(w) = 2
        <5>1. Len(w) = 1 \/ Len(w) = 2 \/ Len(w) > 2
          BY <1>3, Zenon DEF EntryOK
        <5>2. Len(w) > 2 => w[1] = "sync"
          <6>1. Len(w) > 2 => Len(w) # 1 /\ Len(w) # 2
            <7>1. Len(w) \in Nat
              BY <1>4, LenProperties
            <7>2. \A k \in Nat : k > 2 => k # 1 /\ k # 2
              OBVIOUS
            <7> HIDE DEF w
            <7> QED BY <7>1, <7>2, Zenon
          <6> QED BY <1>3, <6>1, Zenon DEF EntryOK
        <5>3. Len(w) # 1
          <6> HIDE DEF w
          <6> QED BY <3>5
        <5> QED BY <3>2, <5>1, <5>2, <5>3, Zenon
      <4> HIDE DEF key, w
      <4>2. Len(SubSeq(w, 1, 2)) = 2 /\ SubSeq(w, 1, 2)[1] = w[1]
            /\ SubSeq(w, 1, 2)[2] = w[2]
        BY <1>4, <4>1, SubSeqProperties
      <4> QED BY <3>1, <3>5, <4>1, <4>2, Zenon
    <3> QED BY <3>3, <3>4, <3>5
  <2> QED BY <2>1, <2>2
<1> HIDE DEF key, w
<1>7. CASE key \in Keys
  <2>1. found \in COMMAND_METADATA /\ found.words = key
    BY <1>7, Zenon DEF Keys, Metadata
  <2>2. EntryOK(found)
    BY <2>1, InventoryOK
  <2> HIDE DEF found
  <2>3. Len(found.words) = Len(key) /\ found.words[1] = key[1]
        /\ found.words[2] = key[2]
    BY <2>1, Zenon
  <2>4. CASE Len(key) = 1 /\ key[1] = w[1]
    <3>1. SingleClaim(w[1], found.class, found.human)
      <4>1. Len(found.words) = 1 /\ ~ (Len(found.words) = 2) /\ ~ (Len(found.words) > 2)
        BY <2>3, <2>4
      <4> QED BY <2>2, <2>3, <2>4, <4>1, Zenon DEF EntryOK
    <3>2. \/ SingleClaim(w[1], e.class, e.human)
          \/ PairClaim(w[1], w[2], e.class, e.human)
          \/ w[1] = "sync"
      BY <1>3, Zenon DEF EntryOK, w
    <3>3. "sync" \notin SingleReads /\ "sync" \notin SingleHumans
      BY DEF SingleReads, SingleHumans
    <3> QED BY <1>2, <3>1, <3>2, <3>3, Zenon DEF SingleClaim, PairClaim
  <2>5. CASE /\ Len(w) = 2 /\ w[1] \in _known_commands
             /\ Len(key) = 2 /\ key[1] = w[1] /\ key[2] = w[2]
    <3>1. PairClaim(w[1], w[2], found.class, found.human)
      <4>1. Len(found.words) = 2 /\ ~ (Len(found.words) = 1) /\ ~ (Len(found.words) > 2)
        BY <2>3, <2>5
      <4> QED BY <2>2, <2>3, <2>5, <4>1, Zenon DEF EntryOK
    <3>2. PairClaim(w[1], w[2], e.class, e.human)
      <4>1. Len(w) = 2 /\ ~ (Len(w) = 1) /\ ~ (Len(w) > 2)
        BY <2>5
      <4> QED BY <1>3, <4>1, Zenon DEF EntryOK, w
    <3> QED BY <1>2, <2>5, <3>1, <3>2, Zenon DEF PairClaim
  <2> QED BY <1>6, <2>4, <2>5, Zenon
<1>8. CASE key \notin Keys
  <2>1. found = NoEntry
    BY <1>8
  <2>2. NoEntry.class # "read"
    BY DEF NoEntry
  <2>3. ~NoEntry.human
    BY DEF NoEntry
  <2> QED BY <1>2, <2>1, <2>2, <2>3, Zenon
<1> QED BY <1>7, <1>8

-----------------------------------------------------------------------------
(* The log *)

\* Ids: the second a command started in, and a number.
Ids == Seconds \X Nat

Payloads == {<<>>} \cup Ids

LogRecords ==
    [log_id: Ids, cmd: Nat, kind: {"taskledger_cli", "managed_shell"},
     payload: Payloads]

\* The numbers a log has given out: the records a reader gets.
Given(log) == Cardinality(load_agent_command_logs(log))

\* An index is the first with its id.
FirstWith(log, k) == \A j \in 1..(k - 1) : log[j].log_id # log[k].log_id

\* What a reader gets are finitely many records.
LEMMA GivenNat ==
    ASSUME NEW log \in Seq(LogRecords)
    PROVE  IsFiniteSet(load_agent_command_logs(log)) /\ Given(log) \in Nat
<1>1. Len(log) \in Nat
  OBVIOUS
<1> DEFINE ks == {k \in 1..Len(log) : FirstWith(log, k)}
<1>2. IsFiniteSet(1..Len(log))
  BY <1>1, FS_Interval
<1>3. ks \subseteq 1..Len(log)
  OBVIOUS
<1>4. IsFiniteSet(ks)
  BY <1>2, <1>3, FS_Subset
<1>5. load_agent_command_logs(log) = {log[n] : n \in ks}
  BY DEF load_agent_command_logs, FirstWith
<1> HIDE DEF ks
<1> DEFINE f == [n \in ks |-> log[n]]
           got == {log[n] : n \in ks}
<1>6. f \in Surjection(ks, got)
  <2>1. f \in [ks -> got] /\ \A r \in got : \E n \in ks : f[n] = r
    OBVIOUS
  <2> HIDE DEF f, got
  <2> QED BY <2>1, Zenon DEF Surjection
<1> HIDE DEF f, got
<1>7. IsFiniteSet(got) /\ Cardinality(got) \in Nat
  BY <1>4, <1>6, FS_Surjection, FS_CardinalityType
<1> QED BY <1>5, <1>7 DEF Given, got

\* The id that is made from a log.
LEMMA NextId ==
    ASSUME NEW log \in Seq(LogRecords), NEW now \in Seconds
    PROVE  /\ _next_log_id(log, now) \in Ids
           /\ _next_log_id(log, now)[2] = 1 + Given(log)
           /\ _next_log_id(log, now) # <<>>
<1> DEFINE m == 1 + Given(log)
<1>1. m \in Nat
  BY GivenNat
<1>2. _next_log_id(log, now) = <<now, m>>
  BY Zenon DEF _next_log_id, Given
<1> HIDE DEF m
<1>3. <<now, m>> \in Ids /\ <<now, m>>[2] = m /\ <<now, m>> # <<>>
  BY <1>1 DEF Ids
<1> QED BY <1>2, <1>3, Zenon DEF m

\* One more record gives out at most one more number, and does if its id is
\* new.
LEMMA AppendedLog ==
    ASSUME NEW log \in Seq(LogRecords), NEW r \in LogRecords
    PROVE  /\ Append(log, r) \in Seq(LogRecords)
           /\ Len(Append(log, r)) = Len(log) + 1
           /\ Append(log, r)[Len(log) + 1] = r
           /\ \A n \in 1..Len(log) : Append(log, r)[n] = log[n]
           /\ Given(log) <= Given(Append(log, r))
           /\ (\A n \in 1..Len(log) : log[n].log_id # r.log_id)
                  => Given(Append(log, r)) = Given(log) + 1
<1> DEFINE new == Append(log, r)
           old == load_agent_command_logs(log)
<1>1. /\ new \in Seq(LogRecords) /\ Len(new) = Len(log) + 1
      /\ new[Len(log) + 1] = r
      /\ \A n \in 1..Len(log) : new[n] = log[n]
  BY AppendProperties
<1>2. Len(log) \in Nat
  OBVIOUS
<1>3. IsFiniteSet(old) /\ Given(log) \in Nat /\ Given(new) \in Nat
  BY <1>1, GivenNat, Zenon
<1> HIDE DEF new
<1>4. \A k \in 1..Len(log) : FirstWith(new, k) <=> FirstWith(log, k)
  <2> SUFFICES ASSUME NEW k \in 1..Len(log)
               PROVE  FirstWith(new, k) <=> FirstWith(log, k)
    OBVIOUS
  <2>1. \A j \in 1..(k - 1) : j \in 1..Len(log)
    BY <1>2
  <2>2. \A j \in 1..(k - 1) : new[j] = log[j]
    BY <1>1, <2>1, Zenon
  <2>3. new[k] = log[k]
    BY <1>1
  <2> QED BY <2>2, <2>3, Zenon DEF FirstWith
<1>5. FirstWith(new, Len(log) + 1) <=> \A n \in 1..Len(log) : log[n].log_id # r.log_id
  <2>1. 1..((Len(log) + 1) - 1) = 1..Len(log)
    BY <1>2
  <2> QED BY <1>1, <2>1, Zenon DEF FirstWith
<1>6. load_agent_command_logs(new) = {new[n] : n \in {k \in 1..Len(new) : FirstWith(new, k)}}
  BY DEF load_agent_command_logs, FirstWith
<1>7. old = {log[n] : n \in {k \in 1..Len(log) : FirstWith(log, k)}}
  BY DEF load_agent_command_logs, FirstWith
<1>8. \A k : k \in 1..Len(new) <=> k \in 1..Len(log) \/ k = Len(log) + 1
  BY <1>1, <1>2
<1> HIDE DEF old
<1>9. CASE FirstWith(new, Len(log) + 1)
  <2>1. load_agent_command_logs(new) = old \cup {r}
    <3>1. \A x : x \in load_agent_command_logs(new) <=> x \in old \/ x = r
      BY <1>1, <1>4, <1>6, <1>7, <1>8, <1>9, Zenon
    <3> QED BY <3>1, Zenon
  <2>2. r \notin old
    <3>1. \A x \in old : \E n \in 1..Len(log) : x = log[n]
      BY <1>7, Zenon
    <3> QED BY <1>5, <1>9, <3>1, Zenon
  <2>3. Cardinality(old \cup {r}) = Cardinality(old) + 1
    BY <1>3, <2>2, FS_AddElement
  <2>4. Given(new) = Given(log) + 1
    BY <2>1, <2>3, Zenon DEF Given, old
  <2> QED BY <1>1, <1>3, <2>4 DEF new
<1>10. CASE ~FirstWith(new, Len(log) + 1)
  <2>1. load_agent_command_logs(new) = old
    <3>1. \A x : x \in load_agent_command_logs(new) <=> x \in old
      BY <1>1, <1>4, <1>6, <1>7, <1>8, <1>10, Zenon
    <3> QED BY <3>1, Zenon
  <2>2. Given(new) = Given(log)
    BY <2>1, Zenon DEF Given, old
  <2> QED BY <1>1, <1>3, <1>5, <1>10, <2>2 DEF new
<1> QED BY <1>9, <1>10

\* The fields of a record.
LEMMA RecordFields ==
    ASSUME NEW id \in Ids, NEW cmd \in Nat, NEW kind \in {"taskledger_cli", "managed_shell"},
           NEW payload \in Payloads
    PROVE  /\ AgentCommandLogRecord(id, cmd, kind, payload) \in LogRecords
           /\ AgentCommandLogRecord(id, cmd, kind, payload).log_id = id
           /\ AgentCommandLogRecord(id, cmd, kind, payload).cmd = cmd
           /\ AgentCommandLogRecord(id, cmd, kind, payload).kind = kind
           /\ AgentCommandLogRecord(id, cmd, kind, payload).payload = payload
BY DEF AgentCommandLogRecord, LogRecords

-----------------------------------------------------------------------------
(* The invariant *)

ProcFields ==
    {"pc", "cmd", "second", "recorded", "owed", "keeps", "payload", "log_id", "ledger",
     "request", "base", "text"}

Places == {"config", "patched", "shell", "other", "worked", "emitted", "failed"}

\* A process that runs.
ProcOK(proc) ==
    /\ DOMAIN proc = ProcFields
    /\ proc.pc \in Places
    /\ proc.cmd \in Nat /\ proc.second \in Seconds
    /\ proc.owed => proc.recorded
    /\ proc.payload \in Payloads
    /\ proc.pc # "emitted" => proc.payload = <<>>
    /\ proc.pc = "patched" => proc.text \in Seq(Lines)
    /\ proc.log_id \in Payloads
    /\ proc.log_id # <<>> => proc.ledger \in LedgerRefs

Active(p) == procs[p].pc # "idle"

\* A process that has counted and not yet written.
Pending(p) == Active(p) /\ procs[p].log_id # <<>>

\* What is in memory, and the configuration: it, and what is about to be
\* written over it, names a ledger.
StateOK ==
    /\ file \in Seq(Lines)
    /\ commands \in Nat
    /\ DOMAIN procs = Procs
    /\ \A p \in Procs : Active(p) => ProcOK(procs[p])

LogsOK ==
    /\ DOMAIN logs = LedgerRefs /\ DOMAIN artifacts = LedgerRefs
    /\ \A l \in LedgerRefs : logs[l] \in Seq(LogRecords)

\* Two commands that run now have met.
MetOK ==
    \A p, q \in Procs :
        Active(p) /\ Active(q) /\ p # q => {procs[p].cmd, procs[q].cmd} \in met

\* No record has a number that its log did not give out.
NumbersGiven ==
    \A l \in LedgerRefs \ strayed : \A n \in 1..Len(logs[l]) :
        logs[l][n].log_id[2] <= Given(logs[l])

\* Nor is a number about to be used that the log could not give out next.
PendingGiven ==
    \A p \in Procs :
        Pending(p) => procs[p].log_id[2] <= 1 + Given(logs[procs[p].ledger])

\* Records with the same id are of commands that overlapped.
IdsApart ==
    \A l \in LedgerRefs \ strayed : \A n, m \in 1..Len(logs[l]) :
        n # m /\ logs[l][n].log_id = logs[l][m].log_id => ~RanAlone(logs[l][n].cmd)

\* So are a record and a process that is about to use its id, or the id that
\* its payload is stored under.
PendingApart ==
    \A p \in Procs : Pending(p) /\ procs[p].ledger \notin strayed =>
        \A n \in 1..Len(logs[procs[p].ledger]) :
            LET r == logs[procs[p].ledger][n] IN
            /\ r.log_id = procs[p].log_id
                   => ~RanAlone(r.cmd) /\ ~RanAlone(procs[p].cmd)
            /\ r.payload = procs[p].log_id => ~RanAlone(r.cmd)

\* The payload of a command that met no other waits under a number that the
\* log gives out next, if it has not yet.
PayloadWaits ==
    \A p \in Procs :
        (/\ procs[p].pc = "emitted" /\ procs[p].payload # <<>>
         /\ RanAlone(procs[p].cmd) /\ Current \notin strayed) =>
            /\ procs[p].payload \in DOMAIN artifacts[Current]
            /\ artifacts[Current][procs[p].payload] = procs[p].cmd
            /\ procs[p].payload[2] <= 1 + Given(logs[Current])

\* The payload of a record of such a command is under a number the log has
\* already given out.
PayloadKept ==
    \A l \in LedgerRefs \ strayed : \A n \in 1..Len(logs[l]) :
        (RanAlone(logs[l][n].cmd) /\ logs[l][n].payload # <<>>) =>
            /\ logs[l][n].payload \in DOMAIN artifacts[l]
            /\ artifacts[l][logs[l][n].payload] = logs[l][n].cmd
            /\ logs[l][n].payload[2] <= Given(logs[l])

\* What the log promises.
LogInv ==
    /\ NumbersGiven /\ PendingGiven /\ IdsApart /\ PendingApart
    /\ PayloadWaits /\ PayloadKept

SessionInv == StateOK /\ LogsOK /\ MetOK /\ LogInv /\ ChangesAreLogged

-----------------------------------------------------------------------------
(* Steps *)

\* The configuration selects a ledger.
LEMMA CurrentIn ==
    ASSUME file \in Seq(Lines)
    PROVE  Current \in LedgerRefs
BY LedgerConfigOK, Zenon DEF Current

\* What an accepted request makes of the file.
LEMMA PatchedLines ==
    ASSUME file \in Seq(Lines), NEW request \in Requests,
           request.op = "set" => _ensure_mutable_project_config_key_path(request.path)
    PROVE  Patched(request) \in Seq(Lines)
<1> DEFINE ledger == _ledger_config_from_dict(Document(file))
           steps == {k \in 1..(Len(Numerals) - 1) :
                        Numerals[k] = ledger.ledger_next_task_number}
           others == LedgerRefs \ {ledger.ledger_ref}
<1>1. CASE request \in {Request("set", KeyPath[edit.key], edit.value) : edit \in Edits}
  <2>1. PICK edit \in Edits : request = Request("set", KeyPath[edit.key], edit.value)
    BY <1>1
  <2> DEFINE k == edit.key
             v == edit.value
  <2>2. request.op = "set" /\ request.path = KeyPath[k] /\ request.value = v
    BY <2>1 DEF Request
  <2>3. OkPath(KeyPath[k]) /\ v \in Values
    <3>1. k \in DOMAIN KeyPath /\ v \in Typed
      BY SessionAssumption, Zenon DEF Typed
    <3> QED BY <3>1, KeyPathWords, TextValues, Zenon
  <2>4. KeyPath[k][1] # "ledger_ref"
    <3>1. _ensure_mutable_project_config_key_path(KeyPath[k])
      BY <2>2, Zenon
    <3> QED BY <3>1 DEF _ensure_mutable_project_config_key_path, LEDGER_CONFIG_KEYS
  <2> HIDE DEF k, v
  <2>5. Patched(request) = _apply_project_config_value_patch(file, KeyPath[k], v)
    BY <2>2 DEF Patched
  <2>6. KeyPath[k] \in Seq(Words) /\ KeyPath[k] # <<>> /\ Last(KeyPath[k]) # "ledger_ref"
    BY <2>3, <2>4, Zenon DEF OkPath
  <2> QED BY <2>3, <2>5, <2>6, SetPatch
<1>2. CASE request \in {Request(op, <<"ledger_ref">>, r) :
                           op \in {"ledger", "fork"}, r \in others}
  <2>1. PICK op \in {"ledger", "fork"}, r \in LedgerRefs :
            request = Request(op, <<"ledger_ref">>, r)
    BY <1>2
  <2>2. request.op = op /\ request.path[1] = "ledger_ref" /\ request.value = r
    BY <2>1 DEF Request
  <2> DEFINE patch == LedgerConfigPatch(ledger, request)
  <2>3. Patched(request) = update_ledger_config(file, patch)
    <3> HIDE DEF ledger
    <3> QED BY <2>2 DEF Patched, ledger
  <2>4. r \in Values
    BY TextValues
  <2>5. ledger["ledger_ref"] \in Values
    BY LedgerConfigOK DEF LEDGER_CONFIG_KEYS
  <2> HIDE DEF ledger
  <2>6. \A key \in DOMAIN patch :
            patch[key] \in Values /\ (key = "ledger_ref" => patch[key] \in LedgerRefs)
    BY <2>2, <2>4, <2>5 DEF LedgerConfigPatch
  <2> HIDE DEF patch
  <2> QED BY <2>3, <2>6, UpdateLedgerPatch, Zenon
<1>3. CASE request \in {Request("ledger", <<"ledger_next_task_number">>, Numerals[n + 1]) :
                           n \in steps}
  <2> HIDE DEF steps
  <2>1. PICK n \in steps :
            request = Request("ledger", <<"ledger_next_task_number">>, Numerals[n + 1])
    BY <1>3
  <2> DEFINE v == Numerals[n + 1]
  <2>2. v \in OwnValues
    <3>1. n \in 1..5
      BY DEF steps, Numerals
    <3> QED BY <3>1 DEF Numerals, OwnValues
  <2> HIDE DEF v
  <2>3. request.op = "ledger" /\ request.path[1] = "ledger_next_task_number"
        /\ request.value = v
    BY <2>1 DEF Request, v
  <2> DEFINE patch == LedgerConfigPatch(ledger, request)
  <2>4. Patched(request) = update_ledger_config(file, patch)
    <3> HIDE DEF ledger
    <3> QED BY <2>3 DEF Patched, ledger
  <2>5. v \in Values
    BY <2>2, TextValues, Zenon
  <2> HIDE DEF ledger
  <2>6. \A key \in DOMAIN patch :
            patch[key] \in Values /\ (key = "ledger_ref" => patch[key] \in LedgerRefs)
    BY <2>3, <2>5 DEF LedgerConfigPatch
  <2> HIDE DEF patch
  <2> QED BY <2>4, <2>6, UpdateLedgerPatch, Zenon
<1>4. CASE request = Request("dir", <<"taskledger_dir">>, "there")
  <2>1. request.op = "dir" /\ request.value = "there"
    BY <1>4 DEF Request
  <2>2. Patched(request) = _apply_taskledger_dir_patch(file, "there")
    BY <2>1 DEF Patched
  <2>3. "there" \in OwnValues
    BY DEF OwnValues
  <2>4. "there" \in Values
    BY <2>3, TextValues, Zenon
  <2> QED BY <2>2, <2>4, DirPatch
<1>5. CASE request = Request("uuid", <<"project_uuid">>, "uuid")
  <2>1. request.op = "uuid"
    BY <1>5 DEF Request
  <2>2. Patched(request) = ensure_project_uuid(file)
    BY <2>1 DEF Patched
  <2> QED BY <2>2, UuidPatch
<1>6. Requests =
        {Request("set", KeyPath[edit.key], edit.value) : edit \in Edits}
        \cup {Request(op, <<"ledger_ref">>, r) : op \in {"ledger", "fork"}, r \in others}
        \cup {Request("ledger", <<"ledger_next_task_number">>, Numerals[n + 1]) :
                n \in steps}
        \cup {Request("dir", <<"taskledger_dir">>, "there"),
              Request("uuid", <<"project_uuid">>, "uuid")}
  BY DEF Requests
<1> HIDE DEF steps, others
<1> QED BY <1>1, <1>2, <1>3, <1>4, <1>5, <1>6

\* Once a process runs, no other one that runs has met nobody.
LEMMA NotAlone ==
    ASSUME MetOK, NEW p \in Procs, Active(p)
    PROVE  \A q \in Procs : q # p /\ Active(q) =>
               ~RanAlone(procs[q].cmd) /\ ~RanAlone(procs[p].cmd)
BY Zenon DEF MetOK, RanAlone

\* A step of a process that runs, and keeps its command while it does.
LEMMA OwnStep ==
    ASSUME StateOK, MetOK, NEW p \in Procs, Active(p),
           DOMAIN procs' = Procs, \A q \in Procs : q # p => procs'[q] = procs[q],
           Active(p)' => ProcOK(procs'[p]) /\ procs'[p].cmd = procs[p].cmd,
           met' = met, commands' = commands, file' \in Seq(Lines)
    PROVE  /\ StateOK' /\ MetOK'
           /\ \A q \in Procs : q # p /\ Active(q)' =>
                  /\ Active(q) /\ ~RanAlone(procs[q].cmd)
                  /\ ~RanAlone(procs[q].cmd)' /\ ~RanAlone(procs[p].cmd)
<1>1. \A q \in Procs : Active(q)' => Active(q) /\ procs'[q].cmd = procs[q].cmd
  BY Zenon DEF Active
<1>2. \A q \in Procs : Active(q)' => ProcOK(procs'[q])
  <2> SUFFICES ASSUME NEW q \in Procs, Active(q)' PROVE ProcOK(procs'[q])
    OBVIOUS
  <2>1. CASE q = p
    BY <2>1
  <2>2. CASE q # p
    BY <1>1, <2>2, Zenon DEF StateOK
  <2> QED BY <2>1, <2>2
<1>3. StateOK'
  BY <1>2, Zenon DEF StateOK
<1>4. MetOK'
  BY <1>1, Zenon DEF MetOK
<1>5. ASSUME NEW q \in Procs, q # p, Active(q)'
      PROVE  /\ Active(q) /\ ~RanAlone(procs[q].cmd)
             /\ ~RanAlone(procs[q].cmd)' /\ ~RanAlone(procs[p].cmd)
  <2>1. Active(q) /\ procs'[q].cmd = procs[q].cmd
    BY <1>1, <1>5, Zenon
  <2>2. ~RanAlone(procs[q].cmd) /\ ~RanAlone(procs[p].cmd)
    BY <1>5, <2>1, NotAlone, Zenon
  <2> QED BY <2>1, <2>2, Zenon DEF RanAlone
<1> QED BY <1>3, <1>4, <1>5, Zenon

\* Nobody is alone afterwards who was not before.
LEMMA AloneBefore ==
    ASSUME \A pair \in met : pair \in met'
    PROVE  \A cmd : (\A pair \in met' : cmd \notin pair) => RanAlone(cmd)
BY Zenon DEF RanAlone

\* What holds of the records goes on to hold when no log changes.
LEMMA UntouchedLog ==
    ASSUME NumbersGiven, IdsApart, logs' = logs,
           \A l \in strayed : l \in strayed', \A pair \in met : pair \in met'
    PROVE  NumbersGiven' /\ IdsApart'
<1>1. \A cmd : (\A pair \in met' : cmd \notin pair) => RanAlone(cmd)
  BY AloneBefore, Zenon
<1>2. \A cmd : ~RanAlone(cmd) => ~RanAlone(cmd)'
  BY <1>1, Zenon DEF RanAlone
<1>3. \A l \in LedgerRefs \ strayed' : l \in LedgerRefs \ strayed
  BY Zenon
<1>4. NumbersGiven'
  BY <1>3, Zenon DEF NumbersGiven
<1>5. IdsApart'
  BY <1>2, <1>3, Zenon DEF IdsApart
<1> QED BY <1>4, <1>5

\* And of their payloads, when none is written.
LEMMA UntouchedPayloads ==
    ASSUME PayloadKept, logs' = logs, artifacts' = artifacts,
           \A l \in strayed : l \in strayed', \A pair \in met : pair \in met'
    PROVE  PayloadKept'
<1>1. \A cmd : (\A pair \in met' : cmd \notin pair) => RanAlone(cmd)
  BY AloneBefore, Zenon
<1>2. \A l \in LedgerRefs \ strayed' : l \in LedgerRefs \ strayed
  BY Zenon
<1> QED BY <1>1, <1>2, Zenon DEF PayloadKept, RanAlone

\* So does what holds of the processes that are about to write.
LEMMA UntouchedPending ==
    ASSUME PendingGiven, PendingApart, logs' = logs,
           \A l \in strayed : l \in strayed', \A pair \in met : pair \in met',
           \A q \in Procs : Pending(q)' =>
               /\ Pending(q) /\ procs'[q].log_id = procs[q].log_id
               /\ procs'[q].ledger = procs[q].ledger /\ procs'[q].cmd = procs[q].cmd
    PROVE  PendingGiven' /\ PendingApart'
<1>1. \A cmd : (\A pair \in met' : cmd \notin pair) => RanAlone(cmd)
  BY AloneBefore, Zenon
<1>2. PendingGiven'
  <2> SUFFICES ASSUME NEW q \in Procs, Pending(q)'
               PROVE  procs'[q].log_id[2] <= 1 + Given(logs'[procs'[q].ledger])
    BY Zenon DEF PendingGiven
  <2>1. /\ procs[q].log_id[2] <= 1 + Given(logs[procs[q].ledger])
        /\ procs'[q].log_id = procs[q].log_id /\ procs'[q].ledger = procs[q].ledger
    BY Zenon DEF PendingGiven
  <2> QED BY <2>1, Zenon
<1>3. PendingApart'
  <2> SUFFICES ASSUME NEW q \in Procs, Pending(q)', procs'[q].ledger \notin strayed',
                      NEW n \in 1..Len(logs'[procs'[q].ledger])
               PROVE  /\ logs'[procs'[q].ledger][n].log_id = procs'[q].log_id =>
                             /\ ~RanAlone(logs[procs[q].ledger][n].cmd)'
                             /\ ~RanAlone(procs[q].cmd)'
                      /\ logs'[procs'[q].ledger][n].payload = procs'[q].log_id =>
                             ~RanAlone(logs[procs[q].ledger][n].cmd)'
    BY Zenon DEF PendingApart
  <2>1. /\ procs'[q].log_id = procs[q].log_id /\ procs'[q].ledger = procs[q].ledger
        /\ procs'[q].cmd = procs[q].cmd /\ Pending(q)
    BY Zenon
  <2>2. n \in 1..Len(logs[procs[q].ledger])
    BY <2>1, Zenon
  <2>3. LET r == logs[procs[q].ledger][n] IN
        /\ r.log_id = procs[q].log_id => ~RanAlone(r.cmd) /\ ~RanAlone(procs[q].cmd)
        /\ r.payload = procs[q].log_id => ~RanAlone(r.cmd)
    BY <2>1, <2>2, Zenon DEF PendingApart
  <2> QED BY <1>1, <2>1, <2>3, Zenon DEF RanAlone
<1> QED BY <1>2, <1>3

\* A step that touches neither the log nor the payloads, and counts nothing.
LEMMA QuietStep ==
    ASSUME SessionInv, NEW p \in Procs, Active(p),
           DOMAIN procs' = Procs, \A q \in Procs : q # p => procs'[q] = procs[q],
           Active(p)' => ProcOK(procs'[p]) /\ procs'[p].cmd = procs[p].cmd,
           Pending(p)' => /\ procs'[p].log_id = procs[p].log_id
                          /\ procs'[p].ledger = procs[p].ledger,
           procs'[p].pc # "emitted", file' \in Seq(Lines),
           UNCHANGED <<logs, artifacts, commands, met, closed, strayed>>
    PROVE  SessionInv'
<1>1. /\ logs' = logs /\ artifacts' = artifacts /\ met' = met /\ closed' = closed
      /\ commands' = commands /\ strayed' = strayed
  OBVIOUS
<1>2. /\ StateOK /\ LogsOK /\ MetOK /\ ChangesAreLogged
      /\ NumbersGiven /\ PendingGiven /\ IdsApart /\ PendingApart /\ PayloadKept
  BY Zenon DEF SessionInv, LogInv
<1>3. /\ StateOK' /\ MetOK'
      /\ \A q \in Procs : q # p /\ Active(q)' =>
             /\ Active(q) /\ ~RanAlone(procs[q].cmd)
             /\ ~RanAlone(procs[q].cmd)' /\ ~RanAlone(procs[p].cmd)
  BY <1>1, <1>2, OwnStep, Zenon
<1>4. PayloadWaits'
  <2> SUFFICES ASSUME NEW q \in Procs, procs'[q].pc = "emitted",
                      RanAlone(procs[q].cmd)'
               PROVE  FALSE
    BY Zenon DEF PayloadWaits
  <2>1. q # p
    BY Zenon
  <2>2. Active(q)'
    BY DEF Active
  <2> QED BY <1>3, <2>1, <2>2, Zenon
<1>5. LogsOK'
  BY <1>1, <1>2, Zenon DEF LogsOK
<1>6. NumbersGiven' /\ IdsApart' /\ PayloadKept'
  BY <1>1, <1>2, UntouchedLog, UntouchedPayloads, Zenon
<1>7. PendingGiven' /\ PendingApart'
  <2>1. \A q \in Procs : Pending(q)' =>
            /\ Pending(q) /\ procs'[q].log_id = procs[q].log_id
            /\ procs'[q].ledger = procs[q].ledger /\ procs'[q].cmd = procs[q].cmd
    <3> SUFFICES ASSUME NEW q \in Procs, Pending(q)'
                 PROVE  /\ Pending(q) /\ procs'[q].log_id = procs[q].log_id
                        /\ procs'[q].ledger = procs[q].ledger
                        /\ procs'[q].cmd = procs[q].cmd
      OBVIOUS
    <3>1. CASE q = p
      BY <3>1, Zenon DEF Pending
    <3>2. CASE q # p
      BY <3>2, Zenon DEF Pending, Active
    <3> QED BY <3>1, <3>2
  <2> QED BY <1>1, <1>2, <2>1, UntouchedPending, Zenon
<1>8. ChangesAreLogged'
  BY <1>1, <1>2 DEF ChangesAreLogged
<1> QED BY <1>3, <1>4, <1>5, <1>6, <1>7, <1>8, Zenon DEF SessionInv, LogInv

\* A record is appended to the log of a ledger.
LEMMA LogGrows ==
    ASSUME LogsOK, NEW at \in LedgerRefs, NEW r \in LogRecords, artifacts' = artifacts,
           logs' = [logs EXCEPT ![at] = Append(logs[at], r)]
    PROVE  /\ LogsOK'
           /\ \A l \in LedgerRefs : \A n \in 1..Len(logs[l]) :
                  n \in 1..Len(logs'[l]) /\ logs'[l][n] = logs[l][n]
           /\ \A l \in LedgerRefs : \A n \in 1..Len(logs'[l]) :
                  \/ n \in 1..Len(logs[l]) /\ logs'[l][n] = logs[l][n]
                  \/ l = at /\ n = Len(logs[at]) + 1 /\ logs'[l][n] = r
           /\ \A l \in LedgerRefs : /\ Given(logs[l]) \in Nat /\ Given(logs'[l]) \in Nat
                                    /\ Given(logs[l]) <= Given(logs'[l])
           /\ (\A n \in 1..Len(logs[at]) : logs[at][n].log_id # r.log_id)
                  => Given(logs'[at]) = Given(logs[at]) + 1
           /\ Len(logs'[at]) \in 1..Len(logs'[at]) /\ logs'[at][Len(logs'[at])] = r
<1> DEFINE old == logs[at]
           new == Append(old, r)
<1>1. /\ DOMAIN logs = LedgerRefs /\ DOMAIN artifacts = LedgerRefs
      /\ \A l \in LedgerRefs : logs[l] \in Seq(LogRecords)
  BY Zenon DEF LogsOK
<1>2. /\ DOMAIN logs' = LedgerRefs /\ logs'[at] = new
      /\ \A l \in LedgerRefs : l # at => logs'[l] = logs[l]
  <2> HIDE DEF new
  <2> QED BY <1>1 DEF new
<1>3. /\ new \in Seq(LogRecords)
      /\ Len(new) = Len(old) + 1 /\ new[Len(old) + 1] = r
      /\ \A n \in 1..Len(old) : new[n] = old[n]
      /\ Given(old) <= Given(new)
      /\ (\A n \in 1..Len(old) : old[n].log_id # r.log_id) => Given(new) = Given(old) + 1
  BY <1>1, AppendedLog
<1>4. Len(old) \in Nat
  BY <1>1
<1> HIDE DEF new, old
<1>5. \A l \in LedgerRefs : logs'[l] \in Seq(LogRecords)
  BY <1>1, <1>2, <1>3, Zenon
<1>6. LogsOK'
  <2>1. DOMAIN artifacts' = LedgerRefs
    BY <1>1
  <2> QED BY <1>2, <1>5, <2>1, Zenon DEF LogsOK
<1>7. ASSUME NEW l \in LedgerRefs, NEW n \in 1..Len(logs[l])
      PROVE  n \in 1..Len(logs'[l]) /\ logs'[l][n] = logs[l][n]
  <2>1. CASE l = at
    <3>1. n \in 1..Len(old) /\ logs'[l] = new /\ logs[l] = old
      BY <1>2, <2>1 DEF old
    <3>2. n \in 1..Len(new)
      BY <1>3, <1>4, <3>1
    <3> QED BY <1>3, <3>1, <3>2, Zenon
  <2>2. CASE l # at
    BY <1>2, <2>2
  <2> QED BY <2>1, <2>2
<1>8. ASSUME NEW l \in LedgerRefs, NEW n \in 1..Len(logs'[l])
      PROVE  \/ n \in 1..Len(logs[l]) /\ logs'[l][n] = logs[l][n]
             \/ l = at /\ n = Len(logs[at]) + 1 /\ logs'[l][n] = r
  <2>1. CASE l = at
    <3>1. n \in 1..Len(new) /\ logs'[l] = new /\ logs[l] = old
      BY <1>2, <2>1 DEF old
    <3>2. n \in 1..Len(old) \/ n = Len(old) + 1
      BY <1>3, <1>4, <3>1
    <3> QED BY <1>3, <2>1, <3>1, <3>2, Zenon DEF old
  <2>2. CASE l # at
    BY <1>2, <2>2
  <2> QED BY <2>1, <2>2
<1>9. ASSUME NEW l \in LedgerRefs
      PROVE  /\ Given(logs[l]) \in Nat /\ Given(logs'[l]) \in Nat
             /\ Given(logs[l]) <= Given(logs'[l])
  <2>1. Given(logs[l]) \in Nat /\ Given(logs'[l]) \in Nat
    BY <1>1, <1>5, GivenNat, Zenon
  <2>2. CASE l = at
    BY <1>2, <1>3, <2>1, <2>2, Zenon DEF old
  <2>3. CASE l # at
    <3>1. logs'[l] = logs[l]
      BY <1>2, <2>3
    <3> QED BY <2>1, <3>1
  <2> QED BY <2>2, <2>3
<1>10. (\A n \in 1..Len(logs[at]) : logs[at][n].log_id # r.log_id)
           => Given(logs'[at]) = Given(logs[at]) + 1
  BY <1>2, <1>3, Zenon DEF old
<1>11. Len(logs'[at]) \in 1..Len(logs'[at]) /\ logs'[at][Len(logs'[at])] = r
  <2>1. Len(new) \in 1..Len(new) /\ new[Len(new)] = r
    BY <1>3, <1>4
  <2> QED BY <1>2, <2>1, Zenon
<1> QED BY <1>6, <1>7, <1>8, <1>9, <1>10, <1>11, Zenon

\* A record of the new log is an old one, or the new last one.
OldOrNew(l, n, at, r) ==
    \/ n \in 1..Len(logs[l]) /\ logs'[l][n] = logs[l][n]
    \/ l = at /\ n = Len(logs[at]) + 1 /\ logs'[l][n] = r

\* Every record of the grown log is old or the one that was appended.
LEMMA OldOrNewRecords ==
    ASSUME LogsOK, NEW at \in LedgerRefs, NEW r \in LogRecords, artifacts' = artifacts,
           logs' = [logs EXCEPT ![at] = Append(logs[at], r)]
    PROVE  \A l \in LedgerRefs : \A n \in 1..Len(logs'[l]) : OldOrNew(l, n, at, r)
<1>1. \A l \in LedgerRefs : \A n \in 1..Len(logs'[l]) :
          \/ n \in 1..Len(logs[l]) /\ logs'[l][n] = logs[l][n]
          \/ l = at /\ n = Len(logs[at]) + 1 /\ logs'[l][n] = r
  BY LogGrows
<1> QED BY <1>1 DEF OldOrNew

\* What is on record stays on record.
LEMMA RecordsStay ==
    ASSUME ChangesAreLogged,
           \A l \in LedgerRefs : \A n \in 1..Len(logs[l]) :
               n \in 1..Len(logs'[l]) /\ logs'[l][n] = logs[l][n]
    PROVE  \A cmd \in closed : \E l \in LedgerRefs : \E n \in 1..Len(logs'[l]) :
               logs'[l][n].cmd = cmd /\ logs'[l][n].kind = "taskledger_cli"
<1> SUFFICES ASSUME NEW cmd \in closed
             PROVE  \E l \in LedgerRefs : \E n \in 1..Len(logs'[l]) :
                        logs'[l][n].cmd = cmd /\ logs'[l][n].kind = "taskledger_cli"
  OBVIOUS
<1>1. PICK l \in LedgerRefs : \E n \in 1..Len(logs[l]) :
          logs[l][n].cmd = cmd /\ logs[l][n].kind = "taskledger_cli"
  BY Zenon DEF ChangesAreLogged
<1>2. PICK n \in 1..Len(logs[l]) :
          logs[l][n].cmd = cmd /\ logs[l][n].kind = "taskledger_cli"
  BY <1>1
<1>3. n \in 1..Len(logs'[l]) /\ logs'[l][n] = logs[l][n]
  BY Zenon
<1> QED BY <1>2, <1>3, Zenon

\* The numbers in ids.
LEMMA IdNumbers ==
    /\ \A id \in Payloads : id # <<>> => id \in Ids
    /\ \A id \in Ids : id[2] \in Nat
    /\ \A r \in LogRecords : r.log_id \in Ids /\ r.payload \in Payloads
<1>1. \A id \in Payloads : id # <<>> => id \in Ids
  BY Zenon DEF Payloads
<1>2. \A id \in Ids : id[2] \in Nat
  BY DEF Ids
<1>3. \A r \in LogRecords : r.log_id \in Ids /\ r.payload \in Payloads
  BY DEF LogRecords
<1> QED BY <1>1, <1>2, <1>3

\* A process appends a record under the id that it counted.
LEMMA AppendStep ==
    ASSUME SessionInv, NEW p \in Procs, Pending(p), NEW at \in LedgerRefs,
           NEW r \in LogRecords, r.log_id = procs[p].log_id, r.cmd = procs[p].cmd,
           (r.payload # <<>> /\ RanAlone(r.cmd) /\ at \notin strayed) =>
               /\ r.payload \in DOMAIN artifacts[at]
               /\ artifacts[at][r.payload] = r.cmd
               /\ r.payload[2] <= 1 + Given(logs[at]),
           logs' = [logs EXCEPT ![at] = Append(logs[at], r)],
           strayed' = IF procs[p].ledger # at THEN strayed \cup {at} ELSE strayed,
           DOMAIN procs' = Procs, \A q \in Procs : q # p => procs'[q] = procs[q],
           Active(p)' => ProcOK(procs'[p]) /\ procs'[p].cmd = procs[p].cmd,
           ~Pending(p)', procs'[p].pc # "emitted",
           UNCHANGED <<file, artifacts, commands, met>>
    PROVE  /\ StateOK' /\ LogsOK' /\ MetOK' /\ LogInv'
           /\ \A l \in LedgerRefs : \A n \in 1..Len(logs[l]) :
                  n \in 1..Len(logs'[l]) /\ logs'[l][n] = logs[l][n]
           /\ Len(logs'[at]) \in 1..Len(logs'[at]) /\ logs'[at][Len(logs'[at])] = r
<1>1. file' = file /\ artifacts' = artifacts /\ commands' = commands /\ met' = met
  OBVIOUS
<1>2. /\ StateOK /\ LogsOK /\ MetOK /\ NumbersGiven /\ PendingGiven /\ IdsApart
      /\ PendingApart /\ PayloadWaits /\ PayloadKept
  BY Zenon DEF SessionInv, LogInv
<1>3. Active(p) /\ procs[p].log_id # <<>>
  BY Zenon DEF Pending
<1>4. /\ file \in Seq(Lines) /\ ProcOK(procs[p])
      /\ \A q \in Procs : Active(q) => ProcOK(procs[q])
  BY <1>2, <1>3, Zenon DEF StateOK
<1>6. /\ StateOK' /\ MetOK'
      /\ \A q \in Procs : q # p /\ Active(q)' =>
             /\ Active(q) /\ ~RanAlone(procs[q].cmd)
             /\ ~RanAlone(procs[q].cmd)' /\ ~RanAlone(procs[p].cmd)
  BY <1>1, <1>2, <1>3, <1>4, OwnStep, Zenon
<1>7. /\ LogsOK'
      /\ \A l \in LedgerRefs : \A n \in 1..Len(logs[l]) :
             n \in 1..Len(logs'[l]) /\ logs'[l][n] = logs[l][n]
      /\ \A l \in LedgerRefs : \A n \in 1..Len(logs'[l]) :
             \/ n \in 1..Len(logs[l]) /\ logs'[l][n] = logs[l][n]
             \/ l = at /\ n = Len(logs[at]) + 1 /\ logs'[l][n] = r
      /\ \A l \in LedgerRefs : /\ Given(logs[l]) \in Nat /\ Given(logs'[l]) \in Nat
                               /\ Given(logs[l]) <= Given(logs'[l])
      /\ (\A n \in 1..Len(logs[at]) : logs[at][n].log_id # r.log_id)
             => Given(logs'[at]) = Given(logs[at]) + 1
      /\ Len(logs'[at]) \in 1..Len(logs'[at]) /\ logs'[at][Len(logs'[at])] = r
  <2>1. LogsOK'
    BY <1>1, <1>2, LogGrows, Zenon
  <2>2. \A l \in LedgerRefs : \A n \in 1..Len(logs[l]) :
            n \in 1..Len(logs'[l]) /\ logs'[l][n] = logs[l][n]
    BY <1>1, <1>2, LogGrows, Zenon
  <2>3. \A l \in LedgerRefs : \A n \in 1..Len(logs'[l]) :
            \/ n \in 1..Len(logs[l]) /\ logs'[l][n] = logs[l][n]
            \/ l = at /\ n = Len(logs[at]) + 1 /\ logs'[l][n] = r
    <3>1. \A l \in LedgerRefs : \A n \in 1..Len(logs'[l]) : OldOrNew(l, n, at, r)
      BY <1>1, <1>2, OldOrNewRecords, Zenon
    <3> QED BY <3>1 DEF OldOrNew
  <2>4. \A l \in LedgerRefs : /\ Given(logs[l]) \in Nat /\ Given(logs'[l]) \in Nat
                              /\ Given(logs[l]) <= Given(logs'[l])
    BY <1>1, <1>2, LogGrows, Zenon
  <2>5. (\A n \in 1..Len(logs[at]) : logs[at][n].log_id # r.log_id)
            => Given(logs'[at]) = Given(logs[at]) + 1
    BY <1>1, <1>2, LogGrows, Zenon
  <2>6. Len(logs'[at]) \in 1..Len(logs'[at]) /\ logs'[at][Len(logs'[at])] = r
    BY <1>1, <1>2, LogGrows, ZenonT(60)
  <2> QED BY <2>1, <2>2, <2>3, <2>4, <2>5, <2>6
<1>8. \A cmd : RanAlone(cmd)' <=> RanAlone(cmd)
  BY <1>1, Zenon DEF RanAlone
<1>9. /\ \A l \in LedgerRefs : \A n \in 1..Len(logs[l]) : logs[l][n] \in LogRecords
      /\ \A l \in LedgerRefs : \A n \in 1..Len(logs[l]) : logs[l][n].log_id[2] \in Nat
  <2>1. \A l \in LedgerRefs : \A n \in 1..Len(logs[l]) : logs[l][n] \in LogRecords
    <3>1. \A l \in LedgerRefs : logs[l] \in Seq(LogRecords)
      BY <1>2, Zenon DEF LogsOK
    <3> QED BY <3>1
  <2> QED BY <2>1, IdNumbers, Zenon
<1>10. r.log_id \in Ids /\ r.log_id[2] \in Nat
  BY IdNumbers, Zenon
<1>11. /\ \A l : l \notin strayed' => l \notin strayed
       /\ at \notin strayed' => procs[p].ledger = at
  BY Zenon
\* The id of the record is its own, or the record's command overlapped another.
<1>12. ASSUME at \notin strayed', NEW n \in 1..Len(logs[at]),
              logs[at][n].log_id = r.log_id
       PROVE  ~RanAlone(logs[at][n].cmd) /\ ~RanAlone(r.cmd)
  <2>1. procs[p].ledger = at /\ procs[p].ledger \notin strayed
    BY <1>11, <1>12, Zenon
  <2>2. LET s == logs[at][n] IN
        s.log_id = procs[p].log_id => ~RanAlone(s.cmd) /\ ~RanAlone(procs[p].cmd)
    BY <1>2, <2>1, Zenon DEF PendingApart
  <2> QED BY <1>12, <2>2, Zenon
<1>13. at \notin strayed' /\ RanAlone(r.cmd) => Given(logs'[at]) = Given(logs[at]) + 1
  BY <1>7, <1>12, Zenon
<1>14. NumbersGiven'
  <2> SUFFICES ASSUME NEW l \in LedgerRefs, l \notin strayed', NEW n \in 1..Len(logs'[l])
               PROVE  logs'[l][n].log_id[2] <= Given(logs'[l])
    BY Zenon DEF NumbersGiven
  <2>1. l \notin strayed
    BY <1>11, Zenon
  <2>2. CASE n \in 1..Len(logs[l]) /\ logs'[l][n] = logs[l][n]
    <3>1. logs[l][n].log_id[2] \in Nat /\ logs[l][n].log_id[2] <= Given(logs[l])
      BY <1>2, <1>9, <2>1, <2>2, Zenon DEF NumbersGiven
    <3> DEFINE m == logs[l][n].log_id[2]
    <3>2. m <= Given(logs'[l])
      <4>1. /\ Given(logs[l]) \in Nat /\ Given(logs'[l]) \in Nat
            /\ Given(logs[l]) <= Given(logs'[l])
        BY <1>7, Zenon
      <4> HIDE DEF m
      <4> QED BY <3>1, <4>1 DEF m
    <3> QED BY <2>2, <3>2, Zenon
  <2>3. CASE l = at /\ logs'[l][n] = r
    <3> DEFINE m == r.log_id[2]
               g == Given(logs[at])
               h == Given(logs'[at])
    <3>1. g \in Nat /\ h \in Nat /\ g <= h /\ m \in Nat
      BY <1>7, <1>10, Zenon
    <3>2. m <= 1 + g
      <4>1. procs[p].ledger = at
        BY <1>11, <2>3, Zenon
      <4> QED BY <1>2, <4>1, Zenon DEF PendingGiven
    <3>3. CASE \A k \in 1..Len(logs[at]) : logs[at][k].log_id # r.log_id
      <4>1. h = g + 1
        BY <1>7, <3>3, Zenon
      <4> HIDE DEF m, g, h
      <4>2. m <= h
        BY <3>1, <3>2, <4>1
      <4> QED BY <2>3, <4>2, Zenon DEF m, h
    <3>4. ASSUME NEW k \in 1..Len(logs[at]), logs[at][k].log_id = r.log_id
          PROVE  logs'[l][n].log_id[2] <= Given(logs'[l])
      <4>1. logs[at][k].log_id[2] <= g
        BY <1>2, <2>1, <2>3, Zenon DEF NumbersGiven
      <4>2. m <= g
        BY <3>4, <4>1, Zenon
      <4> HIDE DEF m, g, h
      <4>3. m <= h
        BY <3>1, <4>2
      <4> QED BY <2>3, <4>3, Zenon DEF m, h
    <3> QED BY <3>3, <3>4, Zenon
  <2> QED BY <1>7, <2>2, <2>3, ZenonT(60)
<1>15. ASSUME NEW q \in Procs, Pending(q)'
       PROVE  /\ q # p /\ Active(q)' /\ Pending(q) /\ procs'[q] = procs[q]
              /\ procs[q].ledger \in LedgerRefs /\ procs[q].log_id[2] \in Nat
  <2>1. q # p
    BY <1>15, Zenon
  <2>2. procs'[q] = procs[q] /\ Active(q)' /\ Pending(q) /\ Active(q)
    BY <1>15, <2>1, Zenon DEF Pending, Active
  <2>3. ProcOK(procs[q]) /\ procs[q].log_id # <<>>
    BY <1>4, <2>2, Zenon DEF Pending
  <2>4. procs[q].ledger \in LedgerRefs /\ procs[q].log_id \in Payloads
    BY <2>3, Zenon DEF ProcOK
  <2> QED BY <2>1, <2>2, <2>3, <2>4, IdNumbers, Zenon
<1>16. PendingGiven'
  <2> SUFFICES ASSUME NEW q \in Procs, Pending(q)'
               PROVE  procs'[q].log_id[2] <= 1 + Given(logs'[procs'[q].ledger])
    BY Zenon DEF PendingGiven
  <2> DEFINE m == procs[q].log_id[2]
             g == Given(logs[procs[q].ledger])
             h == Given(logs'[procs[q].ledger])
  <2>1. g \in Nat /\ h \in Nat /\ g <= h /\ m \in Nat
    BY <1>7, <1>15, Zenon
  <2>2. m <= 1 + g
    BY <1>2, <1>15, Zenon DEF PendingGiven
  <2> HIDE DEF m, g, h
  <2>3. m <= 1 + h
    BY <2>1, <2>2
  <2> QED BY <1>15, <2>3, Zenon DEF m, h
<1>17. IdsApart'
  <2> SUFFICES ASSUME NEW l \in LedgerRefs, l \notin strayed', NEW n \in 1..Len(logs'[l]),
                      NEW m \in 1..Len(logs'[l]), n # m,
                      logs'[l][n].log_id = logs'[l][m].log_id
               PROVE  ~RanAlone(logs'[l][n].cmd)
    BY <1>8, Zenon DEF IdsApart
  <2>1. l \notin strayed
    BY <1>11, Zenon
  <2>2. CASE /\ n \in 1..Len(logs[l]) /\ logs'[l][n] = logs[l][n]
             /\ m \in 1..Len(logs[l]) /\ logs'[l][m] = logs[l][m]
    BY <1>2, <2>1, <2>2, Zenon DEF IdsApart
  <2>3. CASE /\ n \in 1..Len(logs[l]) /\ logs'[l][n] = logs[l][n]
             /\ l = at /\ logs'[l][m] = r
    BY <1>12, <2>3, Zenon
  <2>4. CASE /\ m \in 1..Len(logs[l]) /\ logs'[l][m] = logs[l][m]
             /\ l = at /\ logs'[l][n] = r
    BY <1>12, <2>4, Zenon
  <2>5. ~ (n = Len(logs[at]) + 1 /\ m = Len(logs[at]) + 1)
    BY Zenon
  <2>6. /\ \/ n \in 1..Len(logs[l]) /\ logs'[l][n] = logs[l][n]
           \/ l = at /\ n = Len(logs[at]) + 1 /\ logs'[l][n] = r
        /\ \/ m \in 1..Len(logs[l]) /\ logs'[l][m] = logs[l][m]
           \/ l = at /\ m = Len(logs[at]) + 1 /\ logs'[l][m] = r
    BY <1>7, Zenon
  <2> QED BY <2>2, <2>3, <2>4, <2>5, <2>6, Zenon
<1>18. PendingApart'
  <2> SUFFICES ASSUME NEW q \in Procs, Pending(q)', procs'[q].ledger \notin strayed',
                      NEW n \in 1..Len(logs'[procs'[q].ledger])
               PROVE  /\ logs'[procs'[q].ledger][n].log_id = procs'[q].log_id =>
                             /\ ~RanAlone(logs'[procs'[q].ledger][n].cmd)
                             /\ ~RanAlone(procs'[q].cmd)
                      /\ logs'[procs'[q].ledger][n].payload = procs'[q].log_id =>
                             ~RanAlone(logs'[procs'[q].ledger][n].cmd)
    BY <1>8, ZenonT(60) DEF PendingApart
  <2> DEFINE l == procs[q].ledger
  <2>1. /\ q # p /\ Active(q)' /\ Pending(q) /\ procs'[q] = procs[q]
        /\ l \in LedgerRefs /\ l \notin strayed /\ n \in 1..Len(logs'[l])
    BY <1>11, <1>15, Zenon
  <2>2. CASE n \in 1..Len(logs[l]) /\ logs'[l][n] = logs[l][n]
    <3>1. LET s == logs[l][n] IN
          /\ s.log_id = procs[q].log_id => ~RanAlone(s.cmd) /\ ~RanAlone(procs[q].cmd)
          /\ s.payload = procs[q].log_id => ~RanAlone(s.cmd)
      BY <1>2, <2>1, <2>2, Zenon DEF PendingApart
    <3> QED BY <2>1, <2>2, <3>1, Zenon
  <2>3. CASE l = at /\ logs'[l][n] = r
    <3>1. ~RanAlone(procs[q].cmd) /\ ~RanAlone(procs[p].cmd)
      BY <1>6, <2>1, Zenon
    <3> QED BY <2>1, <2>3, <3>1, Zenon
  <2> HIDE DEF l
  <2>4. \/ n \in 1..Len(logs[l]) /\ logs'[l][n] = logs[l][n]
        \/ l = at /\ logs'[l][n] = r
    <3>1. \/ n \in 1..Len(logs[l]) /\ logs'[l][n] = logs[l][n]
          \/ l = at /\ n = Len(logs[at]) + 1 /\ logs'[l][n] = r
      BY <1>7, <2>1, ZenonT(60)
    <3> QED BY <3>1, Zenon
  <2> QED BY <2>2, <2>3, <2>4, Zenon
<1>19. PayloadWaits'
  <2> SUFFICES ASSUME NEW q \in Procs, procs'[q].pc = "emitted",
                      RanAlone(procs[q].cmd)'
               PROVE  FALSE
    BY Zenon DEF PayloadWaits
  <2>1. q # p
    BY Zenon
  <2>2. Active(q)'
    BY DEF Active
  <2> QED BY <1>6, <2>1, <2>2, Zenon
<1>20. PayloadKept'
  <2> SUFFICES ASSUME NEW l \in LedgerRefs, l \notin strayed', NEW n \in 1..Len(logs'[l]),
                      RanAlone(logs[l][n].cmd)', logs'[l][n].payload # <<>>
               PROVE  /\ logs'[l][n].payload \in DOMAIN artifacts'[l]
                      /\ artifacts'[l][logs'[l][n].payload] = logs'[l][n].cmd
                      /\ logs'[l][n].payload[2] <= Given(logs'[l])
    BY Zenon DEF PayloadKept
  <2>1. l \notin strayed /\ RanAlone(logs'[l][n].cmd)
    BY <1>8, <1>11, Zenon
  <2> DEFINE x == logs'[l][n].payload
             m == x[2]
             g == Given(logs[l])
             h == Given(logs'[l])
  <2>2. g \in Nat /\ h \in Nat /\ g <= h
    BY <1>7, Zenon
  <2>3. m \in Nat
    <3>1. logs'[l][n] \in LogRecords
      BY <1>7, <1>9, ZenonT(60)
    <3> QED BY <3>1, IdNumbers, Zenon
  <2>4. CASE n \in 1..Len(logs[l]) /\ logs'[l][n] = logs[l][n]
    <3>1. /\ x \in DOMAIN artifacts[l] /\ artifacts[l][x] = logs[l][n].cmd /\ m <= g
      <4>1. x = logs[l][n].payload /\ RanAlone(logs[l][n].cmd) /\ x # <<>>
        BY <2>1, <2>4, Zenon
      <4> HIDE DEF x
      <4>2. /\ logs[l][n].payload \in DOMAIN artifacts[l]
            /\ artifacts[l][logs[l][n].payload] = logs[l][n].cmd
            /\ logs[l][n].payload[2] <= Given(logs[l])
        BY <1>2, <2>1, <2>4, <4>1, Zenon DEF PayloadKept
      <4> QED BY <4>1, <4>2, Zenon
    <3>2. m <= h
      <4> HIDE DEF m, g, h
      <4> QED BY <2>2, <2>3, <3>1
    <3> QED BY <1>1, <2>4, <3>1, <3>2, Zenon
  <2>5. CASE l = at /\ logs'[l][n] = r
    <3>1. x = r.payload /\ x # <<>> /\ RanAlone(r.cmd) /\ at \notin strayed
      BY <2>1, <2>5, Zenon
    <3>2. /\ x \in DOMAIN artifacts[at] /\ artifacts[at][x] = r.cmd /\ m <= 1 + g
      <4> HIDE DEF x
      <4> QED BY <2>5, <3>1, Zenon
    <3>3. h = g + 1
      <4>1. Given(logs'[at]) = Given(logs[at]) + 1
        BY <1>13, <2>5, <3>1, Zenon
      <4> QED BY <2>5, <4>1, Zenon
    <3>4. m <= h
      <4> HIDE DEF m, g, h
      <4> QED BY <2>2, <2>3, <3>2, <3>3
    <3> QED BY <1>1, <2>5, <3>2, <3>4, Zenon
  <2>6. \/ n \in 1..Len(logs[l]) /\ logs'[l][n] = logs[l][n]
        \/ l = at /\ logs'[l][n] = r
    BY <1>7, Zenon
  <2> QED BY <2>4, <2>5, <2>6, Zenon
<1> QED BY <1>6, <1>7, <1>14, <1>16, <1>17, <1>18, <1>19, <1>20, Zenon DEF LogInv

\* A process that goes on with its command.
LEMMA ProcMoved ==
    ASSUME NEW old, ProcOK(old), NEW new, DOMAIN new = DOMAIN old,
           new.cmd = old.cmd, new.second = old.second,
           new.recorded = old.recorded, new.owed = old.owed,
           new.pc \in Places,
           new.payload \in Payloads, new.pc # "emitted" => new.payload = <<>>,
           new.pc = "patched" => new.text \in Seq(Lines),
           new.log_id = old.log_id, new.ledger = old.ledger
    PROVE  ProcOK(new)
BY Zenon DEF ProcOK

\* What a step of a process starts from.
LEMMA Before ==
    ASSUME SessionInv, NEW p \in Procs, Active(p)
    PROVE  /\ ProcOK(procs[p]) /\ DOMAIN procs = Procs /\ file \in Seq(Lines)
           /\ Current \in LedgerRefs
BY CurrentIn, Zenon DEF SessionInv, StateOK

\* Going on to another place and nothing else.
LEMMA GotoMoves ==
    ASSUME NEW p \in Procs, DOMAIN procs = Procs, ProcOK(procs[p]),
           NEW pc \in {"worked", "failed"}, Goto(p, pc), procs[p].pc # "emitted"
    PROVE  /\ DOMAIN procs' = Procs /\ \A q \in Procs : q # p => procs'[q] = procs[q]
           /\ ProcOK(procs'[p]) /\ procs'[p].cmd = procs[p].cmd
           /\ procs'[p].pc = pc /\ procs'[p].log_id = procs[p].log_id
           /\ procs'[p].ledger = procs[p].ledger
<1> DEFINE old == procs[p]
           new == procs'[p]
<1>1. /\ DOMAIN procs' = Procs /\ \A q \in Procs : q # p => procs'[q] = procs[q]
      /\ new = [old EXCEPT !.pc = pc]
  BY DEF Goto
<1>2. DOMAIN old = ProcFields /\ old.payload = <<>>
  BY Zenon DEF ProcOK
<1> HIDE DEF old, new
<1>3. /\ DOMAIN new = DOMAIN old /\ new.cmd = old.cmd /\ new.second = old.second
      /\ new.recorded = old.recorded /\ new.owed = old.owed
      /\ new.payload = <<>> /\ new.pc = pc
      /\ new.log_id = old.log_id /\ new.ledger = old.ledger
  BY <1>1, <1>2 DEF ProcFields
<1>4. ProcOK(new)
  <2>1. new.payload \in Payloads
    BY <1>3, Zenon DEF Payloads
  <2>2. new.pc \in Places /\ new.pc # "patched"
    BY <1>3 DEF Places
  <2> QED BY <1>3, <2>1, <2>2, ProcMoved, Zenon DEF old
<1> QED BY <1>1, <1>3, <1>4, Zenon DEF old, new

\* work
LEMMA WorkStep ==
    ASSUME SessionInv, NEW p \in Procs, work(p)
    PROVE  SessionInv'
<1>1. Active(p) /\ procs[p].pc # "emitted"
  BY DEF work, Active
<1>2. PICK pc \in {"worked", "failed"} : Goto(p, pc)
  BY Zenon DEF work
<1>3. ProcOK(procs[p]) /\ DOMAIN procs = Procs /\ file \in Seq(Lines)
  BY <1>1, Before, Zenon
<1>4. /\ DOMAIN procs' = Procs /\ \A q \in Procs : q # p => procs'[q] = procs[q]
      /\ ProcOK(procs'[p]) /\ procs'[p].cmd = procs[p].cmd /\ procs'[p].pc = pc
      /\ procs'[p].log_id = procs[p].log_id /\ procs'[p].ledger = procs[p].ledger
  BY <1>1, <1>2, <1>3, GotoMoves, Zenon
<1>5. procs'[p].pc # "emitted"
  BY <1>4
<1>6. file' = file /\ UNCHANGED <<logs, artifacts, commands, met, closed, strayed>>
  BY DEF work
<1> QED BY <1>1, <1>3, <1>4, <1>5, <1>6, QuietStep, Zenon

\* read_config
LEMMA ReadConfigStep ==
    ASSUME SessionInv, NEW p \in Procs, read_config(p)
    PROVE  SessionInv'
<1>1. Active(p) /\ procs[p].pc # "emitted"
  BY DEF read_config, Active
<1>2. ProcOK(procs[p]) /\ DOMAIN procs = Procs /\ file \in Seq(Lines)
  BY <1>1, Before, Zenon
<1>3. file' = file /\ UNCHANGED <<logs, artifacts, commands, met, closed, strayed>>
  BY DEF read_config
<1> DEFINE accepted(q) ==
               /\ load_project_config_document(file)
               /\ q.op = "set" => config_set_accepted(Document(file), q.path, q.value)
<1>4. PICK request \in Requests :
          IF accepted(request)
          THEN procs' = [procs EXCEPT ![p].pc = "patched", ![p].base = file,
                                      ![p].request = request,
                                      ![p].text = Patched(request)]
          ELSE Goto(p, "failed")
  BY Zenon DEF read_config
<1>5. CASE accepted(request)
  <2> DEFINE old == procs[p]
             new == procs'[p]
             text == Patched(request)
  <2>1. text \in Seq(Lines)
    <3>1. request.op = "set" => _ensure_mutable_project_config_key_path(request.path)
      BY <1>5, Zenon DEF config_set_accepted
    <3> HIDE <1>5
    <3> QED BY <1>2, <3>1, PatchedLines
  <2> HIDE DEF text
  <2>2. procs' = [procs EXCEPT ![p].pc = "patched", ![p].base = file,
                               ![p].request = request, ![p].text = text]
    BY <1>4, <1>5, Zenon DEF text
  <2>3. DOMAIN old = ProcFields /\ old.payload = <<>>
    BY <1>1, <1>2, Zenon DEF ProcOK
  <2>4. /\ DOMAIN procs' = Procs /\ \A q \in Procs : q # p => procs'[q] = procs[q]
        /\ DOMAIN new = DOMAIN old /\ new.cmd = old.cmd /\ new.second = old.second
        /\ new.recorded = old.recorded /\ new.owed = old.owed
        /\ new.payload = <<>> /\ new.pc = "patched" /\ new.text = text
        /\ new.log_id = old.log_id /\ new.ledger = old.ledger
    BY <1>2, <2>2, <2>3 DEF ProcFields
  <2>5. new.payload \in Payloads
    BY <2>4, Zenon DEF Payloads
  <2>6. new.pc \in Places /\ new.pc # "emitted"
    BY <2>4 DEF Places
  <2> HIDE DEF new, old
  <2>7. ProcOK(new)
    BY <1>2, <2>1, <2>4, <2>5, <2>6, ProcMoved, Zenon DEF old
  <2> QED BY <1>1, <1>2, <1>3, <2>4, <2>6, <2>7, QuietStep, Zenon DEF new, old
<1>6. CASE ~accepted(request)
  <2>1. Goto(p, "failed")
    BY <1>4, <1>6, Zenon
  <2>2. /\ DOMAIN procs' = Procs /\ \A q \in Procs : q # p => procs'[q] = procs[q]
        /\ ProcOK(procs'[p]) /\ procs'[p].cmd = procs[p].cmd /\ procs'[p].pc = "failed"
        /\ procs'[p].log_id = procs[p].log_id /\ procs'[p].ledger = procs[p].ledger
    BY <1>1, <1>2, <2>1, GotoMoves, Zenon
  <2>3. procs'[p].pc # "emitted"
    BY <2>2
  <2> QED BY <1>1, <1>2, <1>3, <2>2, <2>3, QuietStep, Zenon
<1> QED BY <1>5, <1>6

\* write_config
LEMMA WriteConfigStep ==
    ASSUME SessionInv, NEW p \in Procs, write_config(p)
    PROVE  SessionInv'
<1>1. Active(p) /\ procs[p].pc # "emitted"
  BY DEF write_config, Active
<1>2. ProcOK(procs[p]) /\ DOMAIN procs = Procs
  BY <1>1, Before, Zenon
<1>3. procs[p].pc = "patched" /\ file' = procs[p].text
      /\ UNCHANGED <<logs, artifacts, commands, met, closed, strayed>>
  BY DEF write_config
<1>4. PICK pc \in {"worked", "failed"} :
          procs' = [procs EXCEPT ![p].pc = pc, ![p].request = NoRequest,
                                 ![p].base = <<>>, ![p].text = <<>>]
  BY Zenon DEF write_config
<1>5. file' \in Seq(Lines)
  BY <1>2, <1>3, Zenon DEF ProcOK
<1> DEFINE old == procs[p]
           new == procs'[p]
<1>6. DOMAIN old = ProcFields /\ old.payload = <<>>
  BY <1>1, <1>2, Zenon DEF ProcOK
<1>7. /\ DOMAIN procs' = Procs /\ \A q \in Procs : q # p => procs'[q] = procs[q]
      /\ DOMAIN new = DOMAIN old /\ new.cmd = old.cmd /\ new.second = old.second
      /\ new.recorded = old.recorded /\ new.owed = old.owed
      /\ new.payload = <<>> /\ new.pc = pc
      /\ new.log_id = old.log_id /\ new.ledger = old.ledger
  BY <1>2, <1>4, <1>6 DEF ProcFields
<1>8. new.payload \in Payloads
  BY <1>7, Zenon DEF Payloads
<1>9. new.pc \in Places /\ new.pc # "emitted" /\ new.pc # "patched"
  BY <1>7 DEF Places
<1> HIDE DEF new, old
<1>10. ProcOK(new)
  BY <1>2, <1>7, <1>8, <1>9, ProcMoved, Zenon DEF old
<1> QED BY <1>1, <1>3, <1>5, <1>7, <1>9, <1>10, QuietStep, Zenon DEF new, old

\* killed
LEMMA KilledStep ==
    ASSUME SessionInv, NEW p \in Procs, killed(p)
    PROVE  SessionInv'
<1>1. Active(p)
  BY DEF killed, Active
<1>2. DOMAIN procs = Procs /\ file \in Seq(Lines)
  BY <1>1, Before, Zenon
<1>3. file' = file /\ UNCHANGED <<logs, artifacts, commands, met, closed, strayed>>
  BY DEF killed
<1>4. /\ DOMAIN procs' = Procs /\ \A q \in Procs : q # p => procs'[q] = procs[q]
      /\ procs'[p].pc = "idle"
  BY <1>2 DEF killed, Idle
<1>5. procs'[p].pc # "emitted" /\ ~Active(p)' /\ ~Pending(p)'
  BY <1>4 DEF Active, Pending
<1> QED BY <1>1, <1>2, <1>3, <1>4, <1>5, QuietStep, Zenon

\* What owes the log a record is recorded.
LEMMA OwedIsRecorded ==
    ASSUME NEW profile \in Profiles, NEW config, NEW no_log,
           Owes(profile, config, no_log)
    PROVE  ~_should_skip_cli_recording(profile, config, no_log)
<1>1. /\ profile.class # "read" => profile.key_class # "read"
      /\ profile.key_human => profile.human
  BY ProfileOK
<1> QED BY <1>1, Zenon DEF Owes, _should_skip_cli_recording

\* A process that was just started.
LEMMA NewProcess ==
    ASSUME NEW pc \in {"config", "shell", "other"}, NEW cmd \in Nat, NEW now \in Seconds,
           NEW recorded \in BOOLEAN, NEW owed \in BOOLEAN, owed => recorded, NEW keeps
    PROVE  /\ ProcOK(Process(pc, cmd, now, recorded, owed, keeps))
           /\ Process(pc, cmd, now, recorded, owed, keeps).cmd = cmd
           /\ Process(pc, cmd, now, recorded, owed, keeps).pc = pc
           /\ Process(pc, cmd, now, recorded, owed, keeps).log_id = <<>>
<1> DEFINE new == Process(pc, cmd, now, recorded, owed, keeps)
<1>1. /\ DOMAIN new = ProcFields
      /\ new.pc = pc /\ new.cmd = cmd /\ new.second = now /\ new.recorded = recorded
      /\ new.owed = owed /\ new.payload = <<>> /\ new.log_id = <<>>
  BY DEF Process, ProcFields
<1> HIDE DEF new
<1>2. new.pc \in Places /\ new.pc # "patched"
  BY <1>1 DEF Places
<1>3. new.payload \in Payloads /\ new.log_id \in Payloads
  BY <1>1, Zenon DEF Payloads
<1>4. new.owed => new.recorded
  BY <1>1, Zenon
<1>5. ProcOK(new)
  BY <1>1, <1>2, <1>3, <1>4, Zenon DEF ProcOK
<1> QED BY <1>1, <1>5, Zenon DEF new

\* start_cli_recorder
LEMMA StartStep ==
    ASSUME SessionInv, NEW p \in Procs, start_cli_recorder(p)
    PROVE  SessionInv'
<1> DEFINE cmd == commands + 1
           config == _parse_agent_logging(Document(file))
           new == procs'[p]
<1>1. PICK profile \in Profiles, no_log \in BOOLEAN, now \in Seconds :
          procs' = [procs EXCEPT ![p] =
              Process(Body(profile), cmd, now,
                      ~_should_skip_cli_recording(profile, config, no_log),
                      Owes(profile, config, no_log), config.payload)]
  BY ZenonT(60) DEF start_cli_recorder
<1>2. /\ procs[p].pc = "idle" /\ commands' = cmd
      /\ met' = met \cup {{cmd, procs[q].cmd} : q \in {r \in Procs : procs[r].pc # "idle"}}
      /\ file' = file /\ logs' = logs /\ artifacts' = artifacts /\ closed' = closed
      /\ strayed' = strayed
  BY Zenon DEF start_cli_recorder
<1>3. /\ StateOK /\ LogsOK /\ MetOK /\ ChangesAreLogged
      /\ NumbersGiven /\ PendingGiven /\ IdsApart /\ PendingApart /\ PayloadKept
  BY Zenon DEF SessionInv, LogInv
<1>4. /\ file \in Seq(Lines) /\ commands \in Nat /\ DOMAIN procs = Procs
      /\ \A q \in Procs : Active(q) => ProcOK(procs[q])
  BY <1>3, Zenon DEF StateOK
<1>5. cmd \in Nat
  BY <1>4
<1> HIDE DEF cmd, config
<1>6. ProcOK(new) /\ new.cmd = cmd /\ new.pc # "emitted" /\ new.log_id = <<>>
  <2>1. Body(profile) \in {"config", "shell", "other"}
    BY Zenon DEF Body
  <2>2. Owes(profile, config, no_log)
          => ~_should_skip_cli_recording(profile, config, no_log)
    BY OwedIsRecorded
  <2>3. \A recorded, owed \in BOOLEAN : (owed => recorded) =>
            LET made == Process(Body(profile), cmd, now, recorded, owed, config.payload)
            IN  /\ ProcOK(made) /\ made.cmd = cmd
                /\ made.pc # "emitted" /\ made.log_id = <<>>
    <3> SUFFICES ASSUME NEW recorded \in BOOLEAN, NEW owed \in BOOLEAN, owed => recorded
                 PROVE  LET made == Process(Body(profile), cmd, now, recorded, owed,
                                            config.payload)
                        IN  /\ ProcOK(made) /\ made.cmd = cmd
                            /\ made.pc # "emitted" /\ made.log_id = <<>>
      OBVIOUS
    <3> DEFINE made == Process(Body(profile), cmd, now, recorded, owed, config.payload)
    <3>1. ProcOK(made) /\ made.cmd = cmd /\ made.pc = Body(profile) /\ made.log_id = <<>>
      BY <1>5, <2>1, NewProcess
    <3> HIDE DEF made
    <3>2. made.pc # "emitted"
      BY <2>1, <3>1
    <3> QED BY <3>1, <3>2, Zenon DEF made
  <2>4. new = Process(Body(profile), cmd, now,
                      ~_should_skip_cli_recording(profile, config, no_log),
                      Owes(profile, config, no_log), config.payload)
    BY <1>1, <1>4, Zenon
  <2> DEFINE b == ~_should_skip_cli_recording(profile, config, no_log)
             o == Owes(profile, config, no_log)
  <2>5. b \in BOOLEAN /\ o \in BOOLEAN
    BY Zenon DEF _should_skip_cli_recording, Owes
  <2> HIDE DEF new
  <2> QED BY <2>2, <2>3, <2>4, <2>5, Zenon
<1>7. DOMAIN procs' = Procs /\ \A q \in Procs : q # p => procs'[q] = procs[q]
  BY <1>1, <1>4, Zenon
<1> HIDE DEF new
<1>8. StateOK'
  <2>1. \A q \in Procs : Active(q)' => ProcOK(procs'[q])
    <3> SUFFICES ASSUME NEW q \in Procs, Active(q)' PROVE ProcOK(procs'[q])
      OBVIOUS
    <3>1. CASE q = p
      BY <1>6, <3>1, Zenon DEF new
    <3>2. CASE q # p
      BY <1>4, <1>7, <3>2, Zenon DEF Active
    <3> QED BY <3>1, <3>2
  <2> QED BY <1>2, <1>4, <1>5, <1>7, <2>1, Zenon DEF StateOK
<1>9. \A q \in Procs : q # p /\ Active(q)' =>
          Active(q) /\ {cmd, procs[q].cmd} \in met' /\ procs'[q].cmd = procs[q].cmd
  BY <1>2, <1>7, Zenon DEF Active
<1>10. MetOK'
  <2> SUFFICES ASSUME NEW q \in Procs, NEW r \in Procs, Active(q)', Active(r)', q # r
               PROVE  {procs'[q].cmd, procs'[r].cmd} \in met'
    BY Zenon DEF MetOK
  <2>1. CASE q = p
    <3>1. {cmd, procs'[r].cmd} \in met'
      BY <1>9, <2>1, Zenon
    <3> QED BY <1>6, <2>1, <3>1, Zenon DEF new
  <2>2. CASE r = p
    <3>1. {cmd, procs'[q].cmd} \in met'
      BY <1>9, <2>2, Zenon
    <3>2. {cmd, procs'[q].cmd} = {procs'[q].cmd, cmd}
      OBVIOUS
    <3> QED BY <1>6, <2>2, <3>1, <3>2, Zenon DEF new
  <2>3. CASE q # p /\ r # p
    BY <1>2, <1>3, <1>9, <2>3, Zenon DEF MetOK
  <2> QED BY <2>1, <2>2, <2>3
<1>11. PayloadWaits'
  <2> SUFFICES ASSUME NEW q \in Procs, procs'[q].pc = "emitted",
                      RanAlone(procs[q].cmd)'
               PROVE  FALSE
    BY Zenon DEF PayloadWaits
  <2>1. q # p
    BY <1>6, Zenon DEF new
  <2>2. Active(q)'
    BY DEF Active
  <2>3. {cmd, procs[q].cmd} \in met' /\ procs'[q].cmd = procs[q].cmd
    BY <1>9, <2>1, <2>2, Zenon
  <2>4. procs'[q].cmd \in {cmd, procs[q].cmd}
    BY <2>3
  <2> QED BY <2>3, <2>4, Zenon DEF RanAlone
<1>12. LogsOK'
  BY <1>2, <1>3, Zenon DEF LogsOK
<1>13. \A pair \in met : pair \in met'
  BY <1>2, Zenon
<1>14. NumbersGiven' /\ IdsApart' /\ PayloadKept'
  BY <1>2, <1>3, <1>13, UntouchedLog, UntouchedPayloads, Zenon
<1>15. PendingGiven' /\ PendingApart'
  <2>1. \A q \in Procs : Pending(q)' =>
            /\ Pending(q) /\ procs'[q].log_id = procs[q].log_id
            /\ procs'[q].ledger = procs[q].ledger /\ procs'[q].cmd = procs[q].cmd
    <3> SUFFICES ASSUME NEW q \in Procs, Pending(q)'
                 PROVE  /\ Pending(q) /\ procs'[q].log_id = procs[q].log_id
                        /\ procs'[q].ledger = procs[q].ledger
                        /\ procs'[q].cmd = procs[q].cmd
      OBVIOUS
    <3>1. q # p
      BY <1>6, Zenon DEF Pending, new
    <3> QED BY <1>7, <3>1, Zenon DEF Pending, Active
  <2> QED BY <1>2, <1>3, <1>13, <2>1, UntouchedPending, Zenon
<1>16. ChangesAreLogged'
  BY <1>2, <1>3 DEF ChangesAreLogged
<1> QED BY <1>8, <1>10, <1>11, <1>12, <1>14, <1>15, <1>16, Zenon DEF SessionInv, LogInv

\* count_records
LEMMA CountStep ==
    ASSUME SessionInv, NEW p \in Procs, count_records(p)
    PROVE  SessionInv'
<1> DEFINE at == Current
           old == procs[p]
           new == procs'[p]
<1>1. Active(p)
  BY DEF count_records, Active
<1>2. /\ ProcOK(old) /\ DOMAIN procs = Procs /\ file \in Seq(Lines) /\ at \in LedgerRefs
  BY <1>1, Before, Zenon
<1>3. /\ StateOK /\ LogsOK /\ MetOK /\ ChangesAreLogged /\ NumbersGiven /\ PendingGiven
      /\ IdsApart /\ PendingApart /\ PayloadWaits /\ PayloadKept
  BY Zenon DEF SessionInv, LogInv
<1>4. /\ file' = file /\ logs' = logs /\ artifacts' = artifacts /\ commands' = commands
      /\ met' = met /\ closed' = closed /\ strayed' = strayed
  BY DEF count_records
<1>5. PICK now \in IF old.pc = "shell" THEN Seconds ELSE {old.second} :
          procs' = [procs EXCEPT ![p].log_id = _next_log_id(logs[at], now), ![p].ledger = at]
  BY Zenon DEF count_records
<1> DEFINE id == _next_log_id(logs[at], now)
           g == Given(logs[at])
<1>6. id \in Ids /\ id[2] = 1 + g /\ id # <<>> /\ g \in Nat
  <2>1. now \in Seconds
    <3>1. old.second \in Seconds
      BY <1>2, Zenon DEF ProcOK
    <3> QED BY <3>1
  <2>2. logs[at] \in Seq(LogRecords)
    BY <1>2, <1>3, Zenon DEF LogsOK
  <2> QED BY <2>1, <2>2, NextId, GivenNat, Zenon
<1>7. procs' = [procs EXCEPT ![p].log_id = id, ![p].ledger = at]
  BY <1>5, Zenon
<1> HIDE DEF id, at
<1>8. DOMAIN old = ProcFields
  BY <1>2, Zenon DEF ProcOK
<1>9. /\ DOMAIN procs' = Procs /\ \A q \in Procs : q # p => procs'[q] = procs[q]
      /\ DOMAIN new = DOMAIN old /\ new.pc = old.pc /\ new.cmd = old.cmd
      /\ new.second = old.second /\ new.recorded = old.recorded /\ new.owed = old.owed
      /\ new.payload = old.payload /\ new.text = old.text
      /\ new.log_id = id /\ new.ledger = at
  BY <1>2, <1>7, <1>8 DEF ProcFields
<1> HIDE DEF old, new
<1>10. ProcOK(new)
  <2>1. id \in Payloads
    BY <1>6, Zenon DEF Payloads
  <2> QED BY <1>2, <1>9, <2>1, Zenon DEF ProcOK
<1>11. StateOK' /\ MetOK'
  BY <1>1, <1>2, <1>3, <1>4, <1>9, <1>10, OwnStep, Zenon DEF old, new
<1>12. NumbersGiven' /\ IdsApart' /\ PayloadKept'
  BY <1>3, <1>4, UntouchedLog, UntouchedPayloads, Zenon
<1>13. \A cmd : RanAlone(cmd)' <=> RanAlone(cmd)
  BY <1>4, Zenon DEF RanAlone
<1>14. \A q \in Procs : q # p /\ Pending(q)' => Pending(q) /\ procs'[q] = procs[q]
  BY <1>9, Zenon DEF Pending, Active
<1>15. PendingGiven'
  <2> SUFFICES ASSUME NEW q \in Procs, Pending(q)'
               PROVE  procs'[q].log_id[2] <= 1 + Given(logs[procs'[q].ledger])
    BY <1>4, Zenon DEF PendingGiven
  <2>1. CASE q = p
    <3>1. 1 + g <= 1 + g
      BY <1>6
    <3>2. procs'[q].log_id = id /\ procs'[q].ledger = at
      BY <1>9, <2>1, Zenon DEF new
    <3> QED BY <1>6, <3>1, <3>2, Zenon
  <2>2. CASE q # p
    BY <1>3, <1>14, <2>2, Zenon DEF PendingGiven
  <2> QED BY <2>1, <2>2
\* The number is beyond all that are in the log, as ids and as payloads.
<1>16. ASSUME at \notin strayed, NEW n \in 1..Len(logs[at])
       PROVE  /\ logs[at][n].log_id # id
              /\ logs[at][n].payload = id => ~RanAlone(logs[at][n].cmd)
  <2>1. logs[at][n].log_id[2] <= g
    BY <1>2, <1>3, <1>16, Zenon DEF NumbersGiven, at
  <2>2. (RanAlone(logs[at][n].cmd) /\ logs[at][n].payload # <<>>)
            => logs[at][n].payload[2] <= g
    BY <1>2, <1>3, <1>16, Zenon DEF PayloadKept, at
  <2>3. ~ (id[2] <= g)
    <3> HIDE DEF g
    <3> QED BY <1>6
  <2> QED BY <1>6, <2>1, <2>2, <2>3, Zenon
<1>17. PendingApart'
  <2> SUFFICES ASSUME NEW q \in Procs, Pending(q)', procs'[q].ledger \notin strayed',
                      NEW n \in 1..Len(logs'[procs'[q].ledger])
               PROVE  /\ logs'[procs'[q].ledger][n].log_id = procs'[q].log_id =>
                             /\ ~RanAlone(logs'[procs'[q].ledger][n].cmd)
                             /\ ~RanAlone(procs'[q].cmd)
                      /\ logs'[procs'[q].ledger][n].payload = procs'[q].log_id =>
                             ~RanAlone(logs'[procs'[q].ledger][n].cmd)
    BY <1>13, Zenon DEF PendingApart
  <2>1. CASE q = p
    <3>1. procs'[q].log_id = id /\ procs'[q].ledger = at
      BY <1>9, <2>1, Zenon DEF new
    <3>2. at \notin strayed /\ n \in 1..Len(logs[at])
      BY <1>4, <3>1, Zenon
    <3> QED BY <1>4, <1>16, <3>1, <3>2, Zenon
  <2>2. CASE q # p
    <3>1. Pending(q) /\ procs'[q] = procs[q] /\ procs[q].ledger \notin strayed
          /\ n \in 1..Len(logs[procs[q].ledger])
      BY <1>4, <1>14, <2>2, Zenon
    <3>2. LET s == logs[procs[q].ledger][n] IN
          /\ s.log_id = procs[q].log_id => ~RanAlone(s.cmd) /\ ~RanAlone(procs[q].cmd)
          /\ s.payload = procs[q].log_id => ~RanAlone(s.cmd)
      BY <1>3, <3>1, Zenon DEF PendingApart
    <3> QED BY <1>4, <3>1, <3>2, Zenon
  <2> QED BY <2>1, <2>2
<1>18. PayloadWaits'
  <2>1. Current' = Current
    BY <1>4, Zenon DEF Current
  <2>2. \A q \in Procs : /\ procs'[q].pc = procs[q].pc /\ procs'[q].cmd = procs[q].cmd
                         /\ procs'[q].payload = procs[q].payload
    <3> SUFFICES ASSUME NEW q \in Procs
                 PROVE  /\ procs'[q].pc = procs[q].pc /\ procs'[q].cmd = procs[q].cmd
                        /\ procs'[q].payload = procs[q].payload
      OBVIOUS
    <3>1. CASE q = p
      BY <1>9, <3>1, Zenon DEF old, new
    <3>2. CASE q # p
      BY <1>9, <3>2, Zenon
    <3> QED BY <3>1, <3>2
  <2> SUFFICES ASSUME NEW q \in Procs, procs'[q].pc = "emitted", procs'[q].payload # <<>>,
                      RanAlone(procs'[q].cmd), Current \notin strayed
               PROVE  /\ procs'[q].payload \in DOMAIN artifacts[Current]
                      /\ artifacts[Current][procs'[q].payload] = procs'[q].cmd
                      /\ procs'[q].payload[2] <= 1 + Given(logs[Current])
    BY <1>4, <1>13, <2>1, Zenon DEF PayloadWaits
  <2>3. /\ procs[q].pc = "emitted" /\ procs[q].payload # <<>> /\ RanAlone(procs[q].cmd)
        /\ procs'[q].payload = procs[q].payload /\ procs'[q].cmd = procs[q].cmd
    BY <2>2, Zenon
  <2> QED BY <1>3, <2>3, Zenon DEF PayloadWaits
<1>19. LogsOK' /\ ChangesAreLogged'
  BY <1>3, <1>4, ZenonT(60) DEF LogsOK, ChangesAreLogged
<1> QED BY <1>11, <1>12, <1>15, <1>17, <1>18, <1>19, Zenon DEF SessionInv, LogInv

\* A process that has written: what it counted is forgotten.
LEMMA ProcWrote ==
    ASSUME NEW old, ProcOK(old), NEW new, DOMAIN new = DOMAIN old,
           new.cmd = old.cmd, new.second = old.second,
           new.recorded = old.recorded, new.owed = old.owed,
           new.pc \in {"worked", "emitted", "failed"},
           new.payload \in Payloads, new.pc # "emitted" => new.payload = <<>>,
           new.log_id = <<>>
    PROVE  ProcOK(new)
<1>1. new.pc \in Places /\ new.pc # "patched"
  BY DEF Places
<1>2. <<>> \in Payloads
  BY Zenon DEF Payloads
<1> QED BY <1>1, <1>2, Zenon DEF ProcOK

\* record_managed_shell_command
LEMMA ShellStep ==
    ASSUME SessionInv, NEW p \in Procs, record_managed_shell_command(p)
    PROVE  SessionInv'
<1> DEFINE old == procs[p]
           new == procs'[p]
<1>1. Active(p) /\ Pending(p) /\ old.pc = "shell"
  BY DEF record_managed_shell_command, Active, Pending
<1>2. /\ ProcOK(old) /\ DOMAIN procs = Procs /\ file \in Seq(Lines)
      /\ Current \in LedgerRefs
  BY <1>1, Before, Zenon
<1> DEFINE loads == load_project_config_document(file)
<1>3. /\ file' = file /\ artifacts' = artifacts /\ commands' = commands /\ met' = met
      /\ closed' = closed /\ strayed' = IF loads THEN Strays(p) ELSE strayed
  BY Zenon DEF record_managed_shell_command
<1>4. PICK pc \in {"worked", "failed"} :
          procs' = [procs EXCEPT ![p].pc = pc, ![p].log_id = <<>>, ![p].ledger = "none"]
  <2>1. PICK pc \in IF loads THEN {"worked", "failed"} ELSE {"failed"} :
            procs' = [procs EXCEPT ![p].pc = pc, ![p].log_id = <<>>, ![p].ledger = "none"]
    BY Zenon DEF record_managed_shell_command
  <2>2. pc \in {"worked", "failed"}
    <3> HIDE DEF loads
    <3> QED OBVIOUS
  <2> QED BY <2>1, <2>2, Zenon
<1>5. logs' = IF loads
              THEN [logs EXCEPT ![Current] = Append(logs[Current],
                       AgentCommandLogRecord(procs[p].log_id, procs[p].cmd,
                                             "managed_shell", <<>>))]
              ELSE logs
  BY Zenon DEF record_managed_shell_command
<1> HIDE DEF loads
<1>6. DOMAIN old = ProcFields /\ old.payload = <<>>
  BY <1>1, <1>2 DEF ProcOK
<1>7. /\ DOMAIN procs' = Procs /\ \A q \in Procs : q # p => procs'[q] = procs[q]
      /\ DOMAIN new = DOMAIN old /\ new.cmd = old.cmd
      /\ new.second = old.second /\ new.recorded = old.recorded /\ new.owed = old.owed
      /\ new.payload = <<>> /\ new.log_id = <<>> /\ new.pc = pc
  BY <1>2, <1>4, <1>6 DEF ProcFields
<1> HIDE DEF old, new
<1>8. ProcOK(new) /\ new.pc # "emitted"
  <2>1. new.pc \in {"worked", "emitted", "failed"} /\ new.pc # "emitted"
    BY <1>7
  <2>2. new.payload \in Payloads
    BY <1>7, Zenon DEF Payloads
  <2> QED BY <1>2, <1>7, <2>1, <2>2, ProcWrote, Zenon
<1>9. ~Pending(p)'
  BY <1>7, Zenon DEF Pending, new
<1>16. CASE ~loads
  <2>1. UNCHANGED <<logs, artifacts, commands, met, closed, strayed>>
    BY <1>3, <1>5, <1>16
  <2>2. file' \in Seq(Lines)
    BY <1>2, <1>3, Zenon
  <2> QED BY <1>1, <1>7, <1>8, <1>9, <2>1, <2>2, QuietStep, Zenon DEF old, new
<1>17. CASE loads
  <2> DEFINE at == Current
             r == AgentCommandLogRecord(procs[p].log_id, procs[p].cmd, "managed_shell", <<>>)
  <2>1. /\ r \in LogRecords /\ r.log_id = procs[p].log_id /\ r.cmd = procs[p].cmd
        /\ r.payload = <<>>
    <3>1. procs[p].cmd \in Nat /\ procs[p].log_id \in Ids /\ <<>> \in Payloads
      BY <1>1, <1>2, Zenon DEF ProcOK, Payloads, Pending, old
    <3>2. "managed_shell" \in {"taskledger_cli", "managed_shell"}
      OBVIOUS
    <3> QED BY <3>1, <3>2, RecordFields
  <2>2. logs' = [logs EXCEPT ![at] = Append(logs[at], r)]
    BY <1>5, <1>17, Zenon
  <2>3. strayed' = IF procs[p].ledger # at THEN strayed \cup {at} ELSE strayed
    BY <1>3, <1>17, Zenon DEF Strays
  <2>4. at \in LedgerRefs
    BY <1>2, Zenon
  <2> HIDE DEF r, at
  <2>5. /\ StateOK' /\ LogsOK' /\ MetOK' /\ LogInv'
        /\ \A l \in LedgerRefs : \A n \in 1..Len(logs[l]) :
               n \in 1..Len(logs'[l]) /\ logs'[l][n] = logs[l][n]
    BY <1>1, <1>3, <1>7, <1>8, <1>9, <2>1, <2>2, <2>3, <2>4, AppendStep, ZenonT(60)
       DEF old, new
  <2>6. ChangesAreLogged'
    <3>1. ChangesAreLogged
      BY Zenon DEF SessionInv
    <3>2. \A cmd \in closed : \E l \in LedgerRefs : \E n \in 1..Len(logs'[l]) :
              logs'[l][n].cmd = cmd /\ logs'[l][n].kind = "taskledger_cli"
      BY <2>5, <3>1, RecordsStay, Zenon
    <3> QED BY <1>3, <3>2, Zenon DEF ChangesAreLogged
  <2> QED BY <2>5, <2>6, Zenon DEF SessionInv
<1> QED BY <1>16, <1>17

\* note_payload
LEMMA NoteStep ==
    ASSUME SessionInv, NEW p \in Procs, note_payload(p)
    PROVE  SessionInv'
<1> DEFINE at == Current
           old == procs[p]
           new == procs'[p]
           id == old.log_id
           stores == old.recorded /\ old.keeps /\ load_project_config_document(file)
           payload == IF stores THEN id ELSE <<>>
<1>1. Active(p) /\ old.pc = "worked" /\ (stores => id # <<>>)
  BY DEF note_payload, Active
<1>2. /\ ProcOK(old) /\ DOMAIN procs = Procs /\ file \in Seq(Lines)
      /\ at \in LedgerRefs
  BY <1>1, Before, Zenon
<1>3. /\ StateOK /\ LogsOK /\ MetOK /\ ChangesAreLogged /\ NumbersGiven /\ PendingGiven
      /\ IdsApart /\ PendingApart /\ PayloadKept
  BY Zenon DEF SessionInv, LogInv
<1>4. /\ file' = file /\ logs' = logs /\ commands' = commands /\ met' = met
      /\ closed' = closed /\ strayed' = IF stores THEN Strays(p) ELSE strayed
  BY Zenon DEF note_payload
<1>5. artifacts' = IF stores
                   THEN [artifacts EXCEPT ![at] = Over([x \in {id} |-> old.cmd], artifacts[at])]
                   ELSE artifacts
  BY Zenon DEF note_payload
<1>6. procs' = [procs EXCEPT ![p].pc = "emitted", ![p].payload = payload,
                             ![p].log_id = <<>>, ![p].ledger = "none"]
  BY Zenon DEF note_payload
<1>7. payload \in Payloads
  BY <1>2, Zenon DEF ProcOK, Payloads
<1>8. payload # <<>> => stores /\ payload = id
  BY Zenon
<1>9. stores => Pending(p)
  BY <1>1, Zenon DEF Pending
<1>10. /\ \A l \in strayed : l \in strayed'
       /\ stores /\ at \notin strayed' => old.ledger = at
  BY <1>4, Zenon DEF Strays
<1> HIDE DEF id, stores, payload, at
<1>11. DOMAIN old = ProcFields
  BY <1>2, Zenon DEF ProcOK
<1>12. /\ DOMAIN procs' = Procs /\ \A q \in Procs : q # p => procs'[q] = procs[q]
       /\ DOMAIN new = DOMAIN old /\ new.cmd = old.cmd /\ new.second = old.second
       /\ new.recorded = old.recorded /\ new.owed = old.owed
       /\ new.payload = payload /\ new.log_id = <<>> /\ new.pc = "emitted"
  BY <1>2, <1>6, <1>11 DEF ProcFields
<1> HIDE DEF new, old
<1>13. ProcOK(new)
  <2>1. new.pc \in {"worked", "emitted", "failed"} /\ ~ (new.pc # "emitted")
    BY <1>12
  <2>2. new.payload \in Payloads
    BY <1>7, <1>12, Zenon
  <2> QED BY <1>2, <1>12, <2>1, <2>2, ProcWrote, Zenon
<1>14. /\ StateOK' /\ MetOK'
       /\ \A q \in Procs : q # p /\ Active(q)' =>
              /\ Active(q) /\ ~RanAlone(procs[q].cmd)
              /\ ~RanAlone(procs[q].cmd)' /\ ~RanAlone(procs[p].cmd)
  BY <1>1, <1>2, <1>3, <1>4, <1>12, <1>13, OwnStep, Zenon DEF old, new
<1>15. \A cmd : RanAlone(cmd)' <=> RanAlone(cmd)
  BY <1>4, Zenon DEF RanAlone
<1>16. at \in LedgerRefs /\ DOMAIN artifacts = LedgerRefs /\ DOMAIN logs = LedgerRefs
  BY <1>2, <1>3, Zenon DEF at, LogsOK
<1>17. /\ DOMAIN artifacts' = LedgerRefs
       /\ stores => id \in DOMAIN artifacts'[at] /\ artifacts'[at][id] = old.cmd
       /\ \A l \in LedgerRefs : \A x \in DOMAIN artifacts[l] :
              ~stores \/ x # id \/ l # at =>
                  x \in DOMAIN artifacts'[l] /\ artifacts'[l][x] = artifacts[l][x]
  <2>1. CASE ~stores
    BY <1>5, <1>16, <2>1, Zenon
  <2>2. CASE stores
    <3> DEFINE put == Over([x \in {id} |-> old.cmd], artifacts[at])
    <3>1. /\ id \in DOMAIN put /\ put[id] = old.cmd
          /\ \A x \in DOMAIN artifacts[at] :
                 x # id => x \in DOMAIN put /\ put[x] = artifacts[at][x]
      BY DEF Over
    <3>2. artifacts' = [artifacts EXCEPT ![at] = put]
      BY <1>5, <2>2, Zenon
    <3> HIDE DEF put
    <3>3. /\ DOMAIN artifacts' = LedgerRefs /\ artifacts'[at] = put
          /\ \A l \in LedgerRefs : l # at => artifacts'[l] = artifacts[l]
      BY <1>16, <3>2
    <3> QED BY <2>2, <3>1, <3>3, Zenon
  <2> QED BY <2>1, <2>2
<1>18. PayloadWaits'
  <2>1. at' = at
    BY <1>4, Zenon DEF at, Current
  <2> SUFFICES ASSUME NEW q \in Procs, procs'[q].pc = "emitted", procs'[q].payload # <<>>,
                      RanAlone(procs[q].cmd)', at \notin strayed'
               PROVE  /\ procs'[q].payload \in DOMAIN artifacts'[at]
                      /\ artifacts'[at][procs'[q].payload] = procs'[q].cmd
                      /\ procs'[q].payload[2] <= 1 + Given(logs'[at])
    BY <2>1, Zenon DEF PayloadWaits, at
  <2>2. q = p
    <3>1. Active(q)'
      BY DEF Active
    <3> QED BY <1>14, <3>1, Zenon
  <2>3. stores /\ procs'[q].payload = id /\ procs'[q].cmd = old.cmd
    BY <1>8, <1>12, <2>2, Zenon DEF new
  <2>4. id[2] <= 1 + Given(logs[at])
    <3>1. old.ledger = at
      BY <1>10, <2>3, Zenon
    <3> QED BY <1>3, <1>9, <2>3, <3>1, Zenon DEF PendingGiven, old, id
  <2> QED BY <1>4, <1>17, <2>3, <2>4, Zenon
<1>19. LogsOK'
  BY <1>3, <1>4, <1>17, Zenon DEF LogsOK
<1>20. PayloadKept'
  <2> SUFFICES ASSUME NEW l \in LedgerRefs, l \notin strayed', NEW n \in 1..Len(logs'[l]),
                      RanAlone(logs[l][n].cmd)', logs'[l][n].payload # <<>>
               PROVE  /\ logs'[l][n].payload \in DOMAIN artifacts'[l]
                      /\ artifacts'[l][logs'[l][n].payload] = logs'[l][n].cmd
                      /\ logs'[l][n].payload[2] <= Given(logs'[l])
    BY Zenon DEF PayloadKept
  <2> DEFINE x == logs[l][n].payload
  <2>1. l \notin strayed /\ n \in 1..Len(logs[l]) /\ RanAlone(logs[l][n].cmd) /\ x # <<>>
    BY <1>4, <1>10, <1>15, Zenon
  <2>2. /\ x \in DOMAIN artifacts[l] /\ artifacts[l][x] = logs[l][n].cmd
        /\ x[2] <= Given(logs[l])
    BY <1>3, <2>1, Zenon DEF PayloadKept
  <2>3. ~stores \/ x # id \/ l # at
    <3>1. SUFFICES ASSUME stores, x = id, l = at PROVE FALSE
      OBVIOUS
    <3>2. Pending(p) /\ old.ledger = l
      BY <1>9, <1>10, <3>1, Zenon
    <3>3. ~RanAlone(logs[l][n].cmd)
      BY <1>3, <2>1, <3>1, <3>2, Zenon DEF PendingApart, old, id
    <3> QED BY <2>1, <3>3, Zenon
  <2> HIDE DEF x
  <2>4. x \in DOMAIN artifacts'[l] /\ artifacts'[l][x] = artifacts[l][x]
    BY <1>17, <2>2, <2>3, Zenon
  <2> QED BY <1>4, <2>2, <2>4, Zenon DEF x
<1>21. \A pair \in met : pair \in met'
  BY <1>4, Zenon
<1>22. NumbersGiven' /\ IdsApart'
  BY <1>3, <1>4, <1>10, <1>21, UntouchedLog, Zenon
<1>23. PendingGiven' /\ PendingApart'
  <2>1. \A q \in Procs : Pending(q)' =>
            /\ Pending(q) /\ procs'[q].log_id = procs[q].log_id
            /\ procs'[q].ledger = procs[q].ledger /\ procs'[q].cmd = procs[q].cmd
    <3> SUFFICES ASSUME NEW q \in Procs, Pending(q)'
                 PROVE  /\ Pending(q) /\ procs'[q].log_id = procs[q].log_id
                        /\ procs'[q].ledger = procs[q].ledger
                        /\ procs'[q].cmd = procs[q].cmd
      OBVIOUS
    <3>1. q # p
      BY <1>12, Zenon DEF Pending, new
    <3> QED BY <1>12, <3>1, Zenon DEF Pending, Active
  <2> QED BY <1>3, <1>4, <1>10, <1>21, <2>1, UntouchedPending, Zenon
<1>24. ChangesAreLogged'
  BY <1>3, <1>4 DEF ChangesAreLogged
<1> QED BY <1>14, <1>18, <1>19, <1>20, <1>22, <1>23, <1>24, Zenon DEF SessionInv, LogInv

\* finish
LEMMA FinishStep ==
    ASSUME SessionInv, NEW p \in Procs, finish(p)
    PROVE  SessionInv'
<1> DEFINE at == Current
           proc == procs[p]
           r == AgentCommandLogRecord(proc.log_id, proc.cmd, "taskledger_cli", proc.payload)
           loads == load_project_config_document(file)
           writes == proc.recorded /\ loads
<1>1. /\ Active(p) /\ (proc.pc = "emitted" \/ proc.pc = "failed")
      /\ writes => Pending(p)
  BY DEF finish, Active, Pending
<1>2. /\ ProcOK(proc) /\ DOMAIN procs = Procs /\ file \in Seq(Lines)
      /\ at \in LedgerRefs
  BY <1>1, Before, Zenon
<1>3. /\ file' = file /\ artifacts' = artifacts /\ commands' = commands /\ met' = met
      /\ procs' = [procs EXCEPT ![p] = Idle]
      /\ closed' = IF proc.owed /\ loads THEN closed \cup {proc.cmd} ELSE closed
      /\ logs' = IF writes
                 THEN [logs EXCEPT ![at] = Append(logs[at], r)] ELSE logs
      /\ strayed' = IF writes THEN Strays(p) ELSE strayed
  BY Zenon DEF finish
<1> HIDE DEF loads
<1>4. /\ DOMAIN procs' = Procs /\ \A q \in Procs : q # p => procs'[q] = procs[q]
      /\ procs'[p].pc = "idle" /\ procs'[p].pc # "emitted"
  BY <1>2, <1>3 DEF Idle
<1>5. ~Active(p)' /\ ~Pending(p)'
  BY <1>4, Zenon DEF Active, Pending
<1>6. CASE ~writes
  <2>1. logs' = logs /\ strayed' = strayed
    BY <1>3, <1>6, Zenon
  <2>2. closed' = closed
    BY <1>2, <1>3, <1>6, Zenon DEF ProcOK
  <2>3. UNCHANGED <<logs, artifacts, commands, met, closed, strayed>>
    BY <1>3, <2>1, <2>2
  <2> QED BY <1>1, <1>2, <1>3, <1>4, <1>5, <2>3, QuietStep, Zenon
<1>7. CASE writes
  <2>1. /\ r \in LogRecords /\ r.log_id = proc.log_id /\ r.cmd = proc.cmd
        /\ r.kind = "taskledger_cli" /\ r.payload = proc.payload
    <3>1. proc.cmd \in Nat /\ proc.payload \in Payloads /\ proc.log_id \in Ids
      BY <1>1, <1>2, <1>7, Zenon DEF ProcOK, Payloads, Pending
    <3>3. "taskledger_cli" \in {"taskledger_cli", "managed_shell"}
      OBVIOUS
    <3> HIDE DEF proc
    <3> QED BY <3>1, <3>3, RecordFields
  <2>2. logs' = [logs EXCEPT ![at] = Append(logs[at], r)]
    BY <1>3, <1>7, Zenon
  <2>3. strayed' = IF procs[p].ledger # at THEN strayed \cup {at} ELSE strayed
    BY <1>3, <1>7, Zenon DEF Strays
  <2> HIDE DEF r
  <2>4. (r.payload # <<>> /\ RanAlone(r.cmd) /\ at \notin strayed) =>
            /\ r.payload \in DOMAIN artifacts[at]
            /\ artifacts[at][r.payload] = r.cmd
            /\ r.payload[2] <= 1 + Given(logs[at])
    <3>1. r.payload # <<>> => proc.pc = "emitted"
      BY <1>2, <2>1, Zenon DEF ProcOK
    <3>2. PayloadWaits
      BY Zenon DEF SessionInv, LogInv
    <3> QED BY <2>1, <3>1, <3>2, Zenon DEF PayloadWaits
  <2>5. r.log_id = procs[p].log_id /\ r.cmd = procs[p].cmd
    BY <2>1, Zenon
  <2> HIDE DEF at, proc
  <2>6. UNCHANGED <<file, artifacts, commands, met>>
    BY <1>3
  <2>7. /\ StateOK' /\ LogsOK' /\ MetOK' /\ LogInv'
        /\ \A l \in LedgerRefs : \A n \in 1..Len(logs[l]) :
               n \in 1..Len(logs'[l]) /\ logs'[l][n] = logs[l][n]
        /\ Len(logs'[at]) \in 1..Len(logs'[at]) /\ logs'[at][Len(logs'[at])] = r
    BY <1>1, <1>2, <1>4, <1>5, <1>7, <2>1, <2>2, <2>3, <2>4, <2>5, <2>6, AppendStep, ZenonT(60)
  <2>8. ChangesAreLogged'
    <3>1. ChangesAreLogged
      BY Zenon DEF SessionInv
    <3>2. \A cmd \in closed : \E l \in LedgerRefs : \E n \in 1..Len(logs'[l]) :
              logs'[l][n].cmd = cmd /\ logs'[l][n].kind = "taskledger_cli"
      BY <2>7, <3>1, RecordsStay, Zenon
    <3>3. \E l \in LedgerRefs : \E n \in 1..Len(logs'[l]) :
              logs'[l][n].cmd = proc.cmd /\ logs'[l][n].kind = "taskledger_cli"
      BY <1>2, <2>1, <2>7, Zenon
    <3>4. \A cmd \in closed' : cmd \in closed \/ cmd = proc.cmd
      BY <1>3
    <3> QED BY <3>2, <3>3, <3>4, ZenonT(60) DEF ChangesAreLogged
  <2> QED BY <2>7, <2>8, Zenon DEF SessionInv
<1> QED BY <1>6, <1>7

-----------------------------------------------------------------------------
(* Theorems *)

\* It holds at the start.
LEMMA InitSession ==
    ASSUME Init
    PROVE  SessionInv
<1>1. PICK name \in Layouts : file = Layout[name]
  BY Zenon DEF Init
<1>2. file \in Seq(Lines)
  BY <1>1, LayoutLines, SessionAssumption
<1>3. /\ logs = [l \in LedgerRefs |-> <<>>] /\ artifacts = [l \in LedgerRefs |-> <<>>]
      /\ procs = [p \in Procs |-> Idle] /\ commands = 0 /\ met = {} /\ closed = {}
  BY Zenon DEF Init
<1>4. \A p \in Procs : procs[p].pc = "idle"
  BY <1>3 DEF Idle
<1>5. \A p \in Procs : ~Active(p) /\ ~Pending(p)
  BY <1>4, Zenon DEF Active, Pending
<1>6. StateOK
  <2>1. DOMAIN procs = Procs /\ commands \in Nat
    BY <1>3
  <2> QED BY <1>2, <1>5, <2>1, Zenon DEF StateOK
<1>7. \A l \in LedgerRefs : logs[l] = <<>> /\ 1..Len(logs[l]) = {}
  BY <1>3
<1>8. LogsOK
  <2>1. \A l \in LedgerRefs : logs[l] \in Seq(LogRecords)
    <3>1. <<>> \in Seq(LogRecords)
      OBVIOUS
    <3> QED BY <1>7, <3>1, Zenon
  <2>2. DOMAIN logs = LedgerRefs /\ DOMAIN artifacts = LedgerRefs
    BY <1>3
  <2> QED BY <2>1, <2>2, Zenon DEF LogsOK
<1>9. MetOK
  BY <1>5, Zenon DEF MetOK
<1>10. PayloadWaits
  <2>1. \A p \in Procs : procs[p].pc # "emitted"
    BY <1>4
  <2> QED BY <2>1, Zenon DEF PayloadWaits
<1>11. NumbersGiven /\ IdsApart /\ PayloadKept
  BY <1>7, Zenon DEF NumbersGiven, IdsApart, PayloadKept
<1>12. PendingGiven /\ PendingApart
  BY <1>5, Zenon DEF PendingGiven, PendingApart
<1>13. ChangesAreLogged
  BY <1>3, Zenon DEF ChangesAreLogged
<1> QED BY <1>6, <1>8, <1>9, <1>10, <1>11, <1>12, <1>13, Zenon DEF SessionInv, LogInv

\* A step that changes nothing.
LEMMA StutterSession ==
    ASSUME SessionInv, UNCHANGED vars
    PROVE  SessionInv'
<1>1. /\ file' = file /\ logs' = logs /\ artifacts' = artifacts /\ procs' = procs
      /\ commands' = commands /\ met' = met /\ closed' = closed /\ strayed' = strayed
  BY DEF vars
<1>2. /\ StateOK /\ LogsOK /\ MetOK /\ ChangesAreLogged /\ NumbersGiven /\ PendingGiven
      /\ IdsApart /\ PendingApart /\ PayloadWaits /\ PayloadKept
  BY Zenon DEF SessionInv, LogInv
<1>3. StateOK'
  BY <1>1, <1>2, Zenon DEF StateOK, Active
<1>4. LogsOK'
  BY <1>1, <1>2, Zenon DEF LogsOK
<1>5. MetOK'
  BY <1>1, <1>2, Zenon DEF MetOK, Active
<1>6. PayloadWaits'
  <2>1. Current' = Current
    BY <1>1, Zenon DEF Current
  <2> QED BY <1>1, <1>2, <2>1 DEF PayloadWaits, RanAlone
<1>7. NumbersGiven' /\ IdsApart' /\ PayloadKept'
  BY <1>1, <1>2, UntouchedLog, UntouchedPayloads, Zenon
<1>8. PendingGiven' /\ PendingApart'
  <2>1. \A q \in Procs : Pending(q)' => Pending(q)
    BY <1>1, Zenon DEF Pending, Active
  <2> QED BY <1>1, <1>2, <2>1, UntouchedPending, Zenon
<1>9. ChangesAreLogged'
  BY <1>1, <1>2 DEF ChangesAreLogged
<1> QED BY <1>3, <1>4, <1>5, <1>6, <1>7, <1>8, <1>9, Zenon DEF SessionInv, LogInv

\* What is so of the files, the processes and the log in every state, however
\* the commands overlap and wherever they are killed.
THEOREM SessionInvariant == Spec => []SessionInv
<1>1. Init => SessionInv
  BY InitSession
<1>2. SessionInv /\ [Next]_vars => SessionInv'
  <2> SUFFICES ASSUME SessionInv, [Next]_vars PROVE SessionInv'
    OBVIOUS
  <2>1. CASE UNCHANGED vars
    BY <2>1, StutterSession
  <2>2. ASSUME NEW p \in Procs,
               \/ start_cli_recorder(p) \/ read_config(p) \/ write_config(p)
               \/ work(p) \/ count_records(p) \/ record_managed_shell_command(p)
               \/ note_payload(p) \/ finish(p) \/ killed(p)
        PROVE  SessionInv'
    BY <2>2, StartStep, ReadConfigStep, WriteConfigStep, WorkStep, CountStep, ShellStep,
       NoteStep, FinishStep, KilledStep, Zenon
  <2> QED BY <2>1, <2>2, Zenon DEF Next
<1> QED BY <1>1, <1>2, PTL DEF Spec

\* The configuration names a ledger of the project whatever was written to it
\* (read_ledger_config, ledger_ref).
THEOREM LedgerTheorem == Spec => [](Current \in LedgerRefs)
<1>1. SessionInv => Current \in LedgerRefs
  BY CurrentIn, Zenon DEF SessionInv, StateOK
<1> QED BY <1>1, SessionInvariant, PTL

\* What changed something and ended normally is on record
\* (_should_skip_cli_recording, AgentCommandRecorder.finish).
THEOREM ChangesTheorem == Spec => []ChangesAreLogged
<1>1. SessionInv => ChangesAreLogged
  BY Zenon DEF SessionInv
<1> QED BY <1>1, SessionInvariant, PTL

\* The record and the payload of a command that met no other are its own,
\* although others that overlap count the log before they append to it
\* (_next_log_id, note_payload, finish).
THEOREM DistinctTheorem == Spec => []RecordsAreDistinct
<1>1. SessionInv => RecordsAreDistinct
  <2> SUFFICES ASSUME SessionInv, NEW l \in LedgerRefs \ strayed,
                      NEW n \in 1..Len(logs[l]), RanAlone(logs[l][n].cmd)
               PROVE  /\ logs[l][n].log_id \notin detect_duplicate_log_ids(logs[l])
                      /\ logs[l][n].payload # <<>> =>
                             artifacts[l][logs[l][n].payload] = logs[l][n].cmd
    BY Zenon DEF RecordsAreDistinct
  <2>1. LogsOK /\ IdsApart /\ PayloadKept
    BY Zenon DEF SessionInv, LogInv
  <2>2. Len(logs[l]) \in Nat
    <3>1. logs[l] \in Seq(LogRecords)
      BY <2>1, Zenon DEF LogsOK
    <3> QED BY <3>1
  <2>3. ASSUME NEW k \in 1..Len(logs[l]), NEW j \in 1..(k - 1),
               logs[l][j].log_id = logs[l][k].log_id, logs[l][n].log_id = logs[l][k].log_id
        PROVE  FALSE
    <3>1. j \in 1..Len(logs[l]) /\ j # k
      BY <2>2
    <3>2. PICK m \in {j, k} : m # n
      BY <3>1
    <3>3. m \in 1..Len(logs[l]) /\ logs[l][n].log_id = logs[l][m].log_id
      BY <2>3, <3>1, <3>2
    <3> QED BY <2>1, <3>2, <3>3, Zenon DEF IdsApart
  <2>4. logs[l][n].log_id \notin detect_duplicate_log_ids(logs[l])
    BY <2>3, Zenon DEF detect_duplicate_log_ids
  <2>5. logs[l][n].payload # <<>> => artifacts[l][logs[l][n].payload] = logs[l][n].cmd
    BY <2>1, Zenon DEF PayloadKept
  <2> QED BY <2>4, <2>5
<1> QED BY <1>1, SessionInvariant, PTL
=============================================================================
