---------------------------- MODULE RecordsProofs ----------------------------
(***************************************************************************)
(* Theorems about Records, for any sessions, tasks, paths and bounds: what *)
(* the run and the task refer to is on disk, a lone writer loses nothing,  *)
(* and it leaves the indexes fresh.  A command is a script of writes, and  *)
(* the invariant says of every write still to be made what the writes      *)
(* before it in the script will have done by then.                         *)
(***************************************************************************)
EXTENDS Records, FiniteSetTheorems, SequenceTheorems, WellFoundedInduction, TLAPS

-----------------------------------------------------------------------------
(* Writes *)

Marks == {"write_lock", "remove_lock", "release_lock", "enter", "rebuilt"}

HandoffValue == [id: Ids, handoff: TaskHandoffRecord]

Writes ==
    [do: {"put"}, part: {"task"}, value: TaskRecord]
    \cup [do: {"put"}, part: {"run"}, value: TaskRunRecord]
    \cup [do: {"put"}, part: {"todos"}, value: Partial(Ids, TaskTodo)]
    \cup [do: {"put"}, part: {"reqs"}, value: Partial(Tasks, BOOLEAN)]
    \cup [do: {"put"}, part: {"links"}, value: Partial(Paths, BOOLEAN)]
    \cup [do: {"record"}, part: {"changes", "checks", "reviews"}, value: SUBSET Ids]
    \cup [do: {"record"}, part: {"handoffs"}, value: HandoffValue]
    \cup [do: {"reindex"}, part: SUBSET Fields]
    \cup [do: Marks]

IsPut(w, part) == w.do = "put" /\ w.part = part
IsRecord(w, part) == w.do = "record" /\ w.part = part
IsReindex(w, f) == w.do = "reindex" /\ f \in w.part
IsCheckpoint(w) == w.do = "release_lock" \/ w.do = "rebuilt"

\* The fields of the index that a write can make stale.  A saved task touches
\* the reviews too, unless it keeps latest_implementation_run.
Touches(w, f) ==
    \/ IsPut(w, "task") /\ f = "task"
    \/ IsPut(w, "run") /\ f = "run"
    \/ IsPut(w, "todos") /\ f = "todos"
    \/ IsPut(w, "reqs") /\ f = "deps"
    \/ IsRecord(w, "reviews") /\ f = "reviews"
    \/ IsRecord(w, "handoffs") /\ f = "handoffs"
    \/ w.do \in {"write_lock", "remove_lock", "release_lock"} /\ f = "lock"
    \/ w.do = "enter" /\ f \in {"task", "reviews"}

-----------------------------------------------------------------------------
(* References *)

\* The record x is there, or a write before the j-th one of S saves it.
Covered(S, j, x, part, there) ==
    x \in there \/ \E k \in 1..(j - 1) : IsRecord(S[k], part) /\ x \in S[k].value

\* When its turn comes, what the j-th write of S refers to is on disk.
RefersTo(S, j, d) ==
    /\ IsPut(S[j], "task") =>
          \A x \in S[j].value.code_change_log_refs : Covered(S, j, x, "changes", d.changes)
    /\ IsPut(S[j], "run") =>
          /\ \A x \in S[j].value.change_refs : Covered(S, j, x, "changes", d.changes)
          /\ \A x \in S[j].value.check_refs : Covered(S, j, x, "checks", d.checks)

Referenced(S, d) == \A j \in 1..Len(S) : RefersTo(S, j, d)

RefsOnDisk(d) ==
    /\ d.run.change_refs \subseteq d.changes
    /\ d.task.code_change_log_refs \subseteq d.changes
    /\ d.run.check_refs \subseteq d.checks

-----------------------------------------------------------------------------
(* One writer *)

RunKept(old, new) ==
    /\ old.change_refs \subseteq new.change_refs /\ old.check_refs \subseteq new.check_refs
    /\ new.worklog >= old.worklog

TodosKept(old, new) ==
    /\ DOMAIN old \subseteq DOMAIN new
    /\ \A i \in DOMAIN old : new[i].evidence >= old[i].evidence

LinksKept(old, new) ==
    /\ \A p \in DOMAIN old \cap DOMAIN new : old[p] => new[p]
    /\ Cardinality(DOMAIN old \ DOMAIN new) <= 1

FocusOK(h, d) == h.todo_id \in DOMAIN d.todos \cup {0}

HandoffsFocus(d) == \A i \in DOMAIN d.handoffs : FocusOK(d.handoffs[i], d)

\* The write takes nothing away from the files of d.
Extends(w, d) ==
    /\ IsPut(w, "task") => w.value.latest_implementation_run = d.task.latest_implementation_run
    /\ IsPut(w, "run") => RunKept(d.run, w.value)
    /\ IsPut(w, "todos") => TodosKept(d.todos, w.value)
    /\ IsPut(w, "links") => LinksKept(d.links, w.value)
    /\ IsRecord(w, "handoffs") => FocusOK(w.value.handoff, d)
    /\ w.do = "write_lock" => ~d.lock

\* Once v is made, w would no longer extend what there is.
Clash(v, w) ==
    \/ \E part \in {"run", "todos", "links"} : IsPut(v, part) /\ IsPut(w, part)
    \/ v.do = "write_lock" /\ w.do = "write_lock"
    \/ v.do = "enter" /\ IsPut(w, "task")

Harmless(S, d) ==
    /\ \A j \in 1..Len(S) : Extends(S[j], d)
    /\ \A j, k \in 1..Len(S) : j < k => ~Clash(S[j], S[k])

-----------------------------------------------------------------------------
(* Indexes *)

\* Between its writes i and c the script S brings the field f up to date.
Reindexed(S, f, i, c) == \E k \in (i + 1)..(c - 1) : IsReindex(S[k], f)

Checkpoint(S, c) == c = Len(S) + 1 \/ (c <= Len(S) /\ IsCheckpoint(S[c]))

IsRebuilt(S, c) == c <= Len(S) /\ S[c].do = "rebuilt"

\* What was touched before c is brought up to date before c.
SettledAt(S, c) ==
    \A f \in Fields, j \in 1..(c - 1) : Touches(S[j], f) => Reindexed(S, f, j, c)

Settled(S) ==
    \A c \in 1..(Len(S) + 1) : Checkpoint(S, c) =>
        /\ SettledAt(S, c)
        /\ IsRebuilt(S, c) => \A f \in Fields : Reindexed(S, f, 0, c)

\* The fields that are stale now are brought up to date before c, unless
\* a command died since the last rebuild.
FreshAt(S, c, d, ix, st) ==
    IsRebuilt(S, c) \/ ~st => \A f \in Fields : ix[f] = Summary(f, d) \/ Reindexed(S, f, 0, c)

FreshBy(S, d, ix, st) ==
    \A c \in 1..(Len(S) + 1) : Checkpoint(S, c) => SettledAt(S, c) /\ FreshAt(S, c, d, ix, st)

Fresh(d, ix) == \A f \in Fields : ix[f] = Summary(f, d)

-----------------------------------------------------------------------------
(* The invariant *)

RecordsTypes ==
    /\ disk \in Store /\ index = [f \in Fields |-> index[f]]
    /\ work \in [Sessions -> Seq(Writes)]
    /\ overlapped \in BOOLEAN /\ stale \in BOOLEAN

AloneInv ==
    /\ HandoffsFocus(disk)
    /\ \A s, t \in Sessions : s # t => Idle(s) \/ Idle(t)
    /\ \A s \in Sessions : Harmless(work[s], disk)
    /\ \A s \in Sessions : ~Idle(s) => FreshBy(work[s], disk, index, stale)
    /\ (\A s \in Sessions : Idle(s)) /\ ~stale => Fresh(disk, index)

RecordsInv ==
    /\ RecordsTypes
    /\ RefsOnDisk(disk) /\ \A s \in Sessions : Referenced(work[s], disk)
    /\ ~overlapped => AloneInv

-----------------------------------------------------------------------------
(* Scripts *)

\* What a write is and carries.
LEMMA WriteCases ==
    ASSUME NEW w \in Writes
    PROVE  \/ IsPut(w, "task") /\ w.value \in TaskRecord
           \/ IsPut(w, "run") /\ w.value \in TaskRunRecord
           \/ IsPut(w, "todos") /\ w.value \in Partial(Ids, TaskTodo)
           \/ IsPut(w, "reqs") /\ w.value \in Partial(Tasks, BOOLEAN)
           \/ IsPut(w, "links") /\ w.value \in Partial(Paths, BOOLEAN)
           \/ /\ IsRecord(w, "changes") \/ IsRecord(w, "checks") \/ IsRecord(w, "reviews")
              /\ w.value \in SUBSET Ids
           \/ IsRecord(w, "handoffs") /\ w.value \in HandoffValue
           \/ w.do = "reindex" /\ w.part \in SUBSET Fields
           \/ w.do \in Marks
  BY DEF Writes, IsPut, IsRecord

\* The writes of a save and of a rebuild are writes.
LEMMA WritesAre ==
    /\ \A v \in TaskRecord : Put("task", v) \in Writes
    /\ \A v \in TaskRunRecord : Put("run", v) \in Writes
    /\ \A v \in Partial(Ids, TaskTodo) : Put("todos", v) \in Writes
    /\ \A v \in Partial(Tasks, BOOLEAN) : Put("reqs", v) \in Writes
    /\ \A v \in Partial(Paths, BOOLEAN) : Put("links", v) \in Writes
    /\ \A p \in {"changes", "checks", "reviews"}, v \in SUBSET Ids : Record(p, v) \in Writes
    /\ \A v \in HandoffValue : Record("handoffs", v) \in Writes
    /\ \A F \in SUBSET Fields : Reindex(F) \in Writes
    /\ \A m \in Marks : [do |-> m] \in Writes
  BY DEF Writes, Put, Record, Reindex

\* A script joined from two: where its writes come from.
LEMMA Joined ==
    ASSUME NEW a \in Seq(Writes), NEW b \in Seq(Writes)
    PROVE  /\ a \o b \in Seq(Writes)
           /\ Len(a) \in Nat /\ Len(b) \in Nat /\ Len(a \o b) = Len(a) + Len(b)
           /\ \A j \in 1..Len(a) : (a \o b)[j] = a[j]
           /\ \A j \in 1..Len(b) : (a \o b)[Len(a) + j] = b[j]
           /\ \A j \in (Len(a) + 1)..Len(a \o b) :
                  j - Len(a) \in 1..Len(b) /\ (a \o b)[j] = b[j - Len(a)]
<1>1. Len(a) \in Nat /\ Len(b) \in Nat
  BY LenProperties
<1>2. /\ a \o b \in Seq(Writes) /\ Len(a \o b) = Len(a) + Len(b)
      /\ \A i \in 1..(Len(a) + Len(b)) :
             (a \o b)[i] = IF i <= Len(a) THEN a[i] ELSE b[i - Len(a)]
  BY ConcatProperties
<1> QED BY <1>1, <1>2

\* A script without its first write.
LEMMA Shifted ==
    ASSUME NEW S \in Seq(Writes), S # <<>>
    PROVE  /\ Head(S) = S[1] /\ S[1] \in Writes
           /\ Tail(S) \in Seq(Writes)
           /\ Len(S) \in Nat \ {0} /\ Len(Tail(S)) = Len(S) - 1
           /\ \A j \in 1..Len(Tail(S)) : Tail(S)[j] = S[j + 1]
<1>1. Len(S) \in Nat \ {0}
  BY EmptySeq
<1>2. Head(S) = S[1] /\ S[1] \in Writes
  BY <1>1, ElementOfSeq
<1> QED BY <1>1, <1>2, HeadTailProperties

\* The scripts that every command is made of, write by write.
LEMMA PiecesAre ==
    /\ \A t \in TaskRecord :
           /\ save_task(t) \in Seq(Writes) /\ Len(save_task(t)) = 2
           /\ save_task(t)[1] = Put("task", t) /\ save_task(t)[2] = Reindex({"task"})
    /\ /\ rebuild_v2_indexes \in Seq(Writes) /\ Len(rebuild_v2_indexes) = 4
       /\ rebuild_v2_indexes[1] = Reindex({"deps"})
       /\ rebuild_v2_indexes[2] = Reindex({"task"})
       /\ rebuild_v2_indexes[3] = Reindex({"run", "todos", "handoffs", "reviews", "lock"})
       /\ rebuild_v2_indexes[4] = [do |-> "rebuilt"]
<1>1. \A t \in TaskRecord : Put("task", t) \in Writes
  BY WritesAre
<1>2. /\ Reindex({"task"}) \in Writes /\ Reindex({"deps"}) \in Writes
      /\ Reindex({"run", "todos", "handoffs", "reviews", "lock"}) \in Writes
  BY WritesAre DEF Fields
<1>3. [do |-> "rebuilt"] \in Writes
  BY WritesAre DEF Marks
<1> QED BY <1>1, <1>2, <1>3 DEF save_task, rebuild_v2_indexes

-----------------------------------------------------------------------------
(* Joining scripts *)

\* Joined scripts keep their references.
LEMMA JoinReferenced ==
    ASSUME NEW a \in Seq(Writes), NEW b \in Seq(Writes), NEW d,
           Referenced(a, d), Referenced(b, d)
    PROVE  Referenced(a \o b, d)
<1> DEFINE S == a \o b
<1>1. /\ Len(a) \in Nat /\ Len(b) \in Nat /\ Len(S) = Len(a) + Len(b)
      /\ \A j \in 1..Len(a) : S[j] = a[j]
      /\ \A j \in 1..Len(b) : S[Len(a) + j] = b[j]
      /\ \A j \in (Len(a) + 1)..Len(S) : j - Len(a) \in 1..Len(b) /\ S[j] = b[j - Len(a)]
  BY Joined
<1> HIDE DEF S
<1>2. \A j \in 1..Len(a) : \A x, part, there :
          Covered(a, j, x, part, there) => Covered(S, j, x, part, there)
  BY <1>1 DEF Covered
<1>3. ASSUME NEW j \in (Len(a) + 1)..Len(S), NEW x, NEW part, NEW there,
             Covered(b, j - Len(a), x, part, there)
      PROVE  Covered(S, j, x, part, there)
  <2>1. CASE x \in there
    BY <2>1 DEF Covered
  <2>2. CASE x \notin there
    <3>1. PICK k \in 1..(j - Len(a) - 1) : IsRecord(b[k], part) /\ x \in b[k].value
      BY <1>3, <2>2 DEF Covered
    <3>2. Len(a) + k \in 1..(j - 1) /\ S[Len(a) + k] = b[k]
      BY <1>1
    <3> QED BY <3>1, <3>2 DEF Covered
  <2> QED BY <2>1, <2>2
<1>4. ASSUME NEW j \in 1..Len(S) PROVE RefersTo(S, j, d)
  <2>1. CASE j \in 1..Len(a)
    <3>1. RefersTo(a, j, d) /\ S[j] = a[j]
      BY <1>1, <2>1 DEF Referenced
    <3> QED BY <1>2, <2>1, <3>1 DEF RefersTo
  <2>2. CASE j \in (Len(a) + 1)..Len(S)
    <3>1. RefersTo(b, j - Len(a), d) /\ S[j] = b[j - Len(a)]
      BY <1>1, <2>2 DEF Referenced
    <3> QED BY <1>3, <2>2, <3>1 DEF RefersTo
  <2> QED BY <1>1, <2>1, <2>2
<1> QED BY <1>4 DEF Referenced, S

\* Joined scripts stay harmless when no write of the first is in the way of
\* one of the second.
LEMMA JoinHarmless ==
    ASSUME NEW a \in Seq(Writes), NEW b \in Seq(Writes), NEW d,
           Harmless(a, d), Harmless(b, d),
           \A j \in 1..Len(a), k \in 1..Len(b) : ~Clash(a[j], b[k])
    PROVE  Harmless(a \o b, d)
<1> DEFINE S == a \o b
<1>1. /\ Len(a) \in Nat /\ Len(b) \in Nat /\ Len(S) = Len(a) + Len(b)
      /\ \A j \in 1..Len(a) : S[j] = a[j]
      /\ \A j \in (Len(a) + 1)..Len(S) : j - Len(a) \in 1..Len(b) /\ S[j] = b[j - Len(a)]
  BY Joined
<1> HIDE DEF S
<1>2. \A j \in 1..Len(S) : Extends(S[j], d)
  <2> TAKE j \in 1..Len(S)
  <2>1. j \in 1..Len(a) \/ j \in (Len(a) + 1)..Len(S)
    BY <1>1
  <2> QED BY <1>1, <2>1 DEF Harmless
<1>3. ASSUME NEW j \in 1..Len(S), NEW k \in 1..Len(S), j < k
      PROVE  ~Clash(S[j], S[k])
  <2>1. CASE k \in 1..Len(a)
    <3>1. j \in 1..Len(a)
      BY <1>1, <1>3, <2>1
    <3> QED BY <1>1, <1>3, <2>1, <3>1 DEF Harmless
  <2>2. CASE j \in 1..Len(a) /\ k \in (Len(a) + 1)..Len(S)
    BY <1>1, <2>2
  <2>3. CASE j \in (Len(a) + 1)..Len(S) /\ k \in (Len(a) + 1)..Len(S)
    <3>1. /\ j - Len(a) \in 1..Len(b) /\ S[j] = b[j - Len(a)]
          /\ k - Len(a) \in 1..Len(b) /\ S[k] = b[k - Len(a)]
          /\ j - Len(a) < k - Len(a)
      BY <1>1, <1>3, <2>3
    <3> QED BY <3>1 DEF Harmless
  <2> QED BY <1>1, <1>3, <2>1, <2>2, <2>3
<1> QED BY <1>2, <1>3 DEF Harmless, S

\* A joined script brings up to date what its parts do.
LEMMA JoinReindexed ==
    ASSUME NEW a \in Seq(Writes), NEW b \in Seq(Writes), NEW f
    PROVE  /\ \A i \in Nat : \A c \in 1..(Len(a) + 1) :
                  Reindexed(a, f, i, c) => Reindexed(a \o b, f, i, c)
           /\ \A i \in Nat : \A c \in 1..(Len(b) + 1) :
                  Reindexed(b, f, i, c) => Reindexed(a \o b, f, Len(a) + i, Len(a) + c)
           /\ \A i, k \in Nat : \A c \in 1..(Len(a) + Len(b) + 1) : \A e \in Nat :
                  i <= k /\ e <= c /\ Reindexed(a \o b, f, k, e) => Reindexed(a \o b, f, i, c)
<1> DEFINE S == a \o b
<1>1. /\ Len(a) \in Nat /\ Len(b) \in Nat
      /\ \A j \in 1..Len(a) : S[j] = a[j]
      /\ \A j \in 1..Len(b) : S[Len(a) + j] = b[j]
  BY Joined
<1> HIDE DEF S
<1>2. ASSUME NEW i \in Nat, NEW c \in 1..(Len(a) + 1), Reindexed(a, f, i, c)
      PROVE  Reindexed(S, f, i, c)
  BY <1>1, <1>2 DEF Reindexed
<1>3. ASSUME NEW i \in Nat, NEW c \in 1..(Len(b) + 1), Reindexed(b, f, i, c)
      PROVE  Reindexed(S, f, Len(a) + i, Len(a) + c)
  <2>1. PICK k \in (i + 1)..(c - 1) : IsReindex(b[k], f)
    BY <1>3 DEF Reindexed
  <2>2. Len(a) + k \in (Len(a) + i + 1)..(Len(a) + c - 1) /\ S[Len(a) + k] = b[k]
    BY <1>1
  <2> QED BY <2>1, <2>2 DEF Reindexed
<1>4. ASSUME NEW i \in Nat, NEW k \in Nat, NEW c \in 1..(Len(a) + Len(b) + 1), NEW e \in Nat,
             i <= k, e <= c, Reindexed(S, f, k, e)
      PROVE  Reindexed(S, f, i, c)
  BY <1>1, <1>4 DEF Reindexed
<1> QED BY <1>2, <1>3, <1>4 DEF S

\* A checkpoint of a joined script is one of the script it comes from, and is
\* settled when the first script is settled there, or settled to its end.
LEMMA JoinSettledAt ==
    ASSUME NEW a \in Seq(Writes), NEW b \in Seq(Writes),
           NEW c \in 1..(Len(a \o b) + 1), Checkpoint(a \o b, c)
    PROVE  /\ Len(a) \in Nat /\ Len(b) \in Nat
           /\ c <= Len(a) =>
                  /\ c \in 1..Len(a) /\ IsCheckpoint(a[c]) /\ Checkpoint(a, c)
                  /\ IsRebuilt(a \o b, c) <=> IsRebuilt(a, c)
                  /\ SettledAt(a, c) => SettledAt(a \o b, c)
           /\ c > Len(a) =>
                  /\ c - Len(a) \in 1..(Len(b) + 1) /\ Checkpoint(b, c - Len(a))
                  /\ IsRebuilt(a \o b, c) <=> IsRebuilt(b, c - Len(a))
                  /\ /\ SettledAt(b, c - Len(a))
                     /\ \A f \in Fields, j \in 1..Len(a) :
                            Touches(a[j], f) => Reindexed(a \o b, f, j, c)
                     => SettledAt(a \o b, c)
<1> DEFINE S == a \o b
           n == Len(a)
<1>1. /\ n \in Nat /\ Len(b) \in Nat /\ Len(S) = n + Len(b)
      /\ \A j \in 1..n : S[j] = a[j]
      /\ \A j \in (n + 1)..Len(S) : j - n \in 1..Len(b) /\ S[j] = b[j - n]
  BY Joined
<1>2. \A f : \A i \in Nat : \A e \in 1..(n + 1) : Reindexed(a, f, i, e) => Reindexed(S, f, i, e)
  BY JoinReindexed
<1>3. \A f : \A i \in Nat : \A e \in 1..(Len(b) + 1) :
          Reindexed(b, f, i, e) => Reindexed(S, f, n + i, n + e)
  BY JoinReindexed
<1>4. Checkpoint(S, c) /\ c \in 1..(Len(S) + 1)
  OBVIOUS
<1> HIDE DEF S, n
<1>5. ASSUME c <= n
      PROVE  /\ c \in 1..n /\ IsCheckpoint(a[c]) /\ Checkpoint(a, c)
             /\ IsRebuilt(S, c) <=> IsRebuilt(a, c)
             /\ SettledAt(a, c) => SettledAt(S, c)
  <2>1. c \in 1..n /\ S[c] = a[c] /\ c <= Len(S)
    BY <1>1, <1>4, <1>5
  <2>2. IsCheckpoint(a[c]) /\ Checkpoint(a, c)
    BY <1>1, <1>4, <2>1 DEF Checkpoint, n
  <2>3. IsRebuilt(S, c) <=> IsRebuilt(a, c)
    BY <2>1 DEF IsRebuilt, n
  <2>4. ASSUME SettledAt(a, c), NEW f \in Fields, NEW j \in 1..(c - 1), Touches(S[j], f)
        PROVE  Reindexed(S, f, j, c)
    <3>1. S[j] = a[j] /\ j \in Nat /\ c \in 1..(n + 1)
      BY <1>1, <2>1
    <3>2. Reindexed(a, f, j, c)
      BY <2>4, <3>1 DEF SettledAt
    <3> QED BY <1>2, <3>1, <3>2
  <2> QED BY <2>1, <2>2, <2>3, <2>4 DEF SettledAt
<1>6. ASSUME c > n
      PROVE  /\ c - n \in 1..(Len(b) + 1) /\ Checkpoint(b, c - n)
             /\ IsRebuilt(S, c) <=> IsRebuilt(b, c - n)
             /\ /\ SettledAt(b, c - n)
                /\ \A f \in Fields, j \in 1..n : Touches(a[j], f) => Reindexed(S, f, j, c)
                => SettledAt(S, c)
  <2>1. c - n \in 1..(Len(b) + 1) /\ (c <= Len(S) => S[c] = b[c - n])
    BY <1>1, <1>4, <1>6
  <2>2. Checkpoint(b, c - n)
    BY <1>1, <1>4, <2>1 DEF Checkpoint
  <2>3. IsRebuilt(S, c) <=> IsRebuilt(b, c - n)
    BY <1>1, <1>4, <2>1 DEF IsRebuilt
  <2>4. ASSUME SettledAt(b, c - n),
               \A f \in Fields, j \in 1..n : Touches(a[j], f) => Reindexed(S, f, j, c),
               NEW f \in Fields, NEW j \in 1..(c - 1), Touches(S[j], f)
        PROVE  Reindexed(S, f, j, c)
    <3>1. CASE j \in 1..n
      BY <1>1, <2>4, <3>1
    <3>2. CASE j \in (n + 1)..(c - 1)
      <4>1. /\ j \in (n + 1)..Len(S) /\ j - n \in 1..(c - n - 1) /\ j - n \in Nat
            /\ n + (j - n) = j /\ n + (c - n) = c
        BY <1>1, <1>4, <3>2
      <4>2. Reindexed(b, f, j - n, c - n)
        BY <1>1, <2>4, <4>1 DEF SettledAt
      <4>3. Reindexed(S, f, n + (j - n), n + (c - n))
        BY <1>3, <2>1, <4>1, <4>2
      <4> QED BY <4>1, <4>3
    <3> QED BY <1>1, <1>4, <3>1, <3>2
  <2> QED BY <2>1, <2>2, <2>3, <2>4 DEF SettledAt
<1> QED BY <1>1, <1>5, <1>6 DEF S, n

\* Joined scripts that leave nothing unsettled leave nothing unsettled.
LEMMA JoinSettled ==
    ASSUME NEW a \in Seq(Writes), NEW b \in Seq(Writes), Settled(a), Settled(b)
    PROVE  Settled(a \o b)
<1> DEFINE S == a \o b
           n == Len(a)
<1>0. n \in Nat /\ Len(b) \in Nat /\ Len(S) = n + Len(b)
  BY Joined
<1> SUFFICES ASSUME NEW c \in 1..(Len(S) + 1), Checkpoint(S, c)
             PROVE  /\ SettledAt(S, c)
                    /\ IsRebuilt(S, c) => \A f \in Fields : Reindexed(S, f, 0, c)
  BY DEF Settled
<1>1. CASE c <= n
  <2>1. /\ c \in 1..(n + 1) /\ Checkpoint(a, c) /\ (IsRebuilt(S, c) <=> IsRebuilt(a, c))
        /\ SettledAt(a, c) => SettledAt(S, c)
    BY <1>0, <1>1, JoinSettledAt
  <2>2. SettledAt(a, c) /\ (IsRebuilt(a, c) => \A f \in Fields : Reindexed(a, f, 0, c))
    BY <2>1 DEF Settled
  <2>3. \A f \in Fields : Reindexed(a, f, 0, c) => Reindexed(S, f, 0, c)
    BY <2>1, JoinReindexed
  <2> QED BY <2>1, <2>2, <2>3
<1>2. CASE c > n
  <2>1. /\ c - n \in 1..(Len(b) + 1) /\ Checkpoint(b, c - n)
        /\ IsRebuilt(S, c) <=> IsRebuilt(b, c - n)
        /\ /\ SettledAt(b, c - n)
           /\ \A f \in Fields, j \in 1..n : Touches(a[j], f) => Reindexed(S, f, j, c)
           => SettledAt(S, c)
    BY <1>2, JoinSettledAt
  <2>2. /\ SettledAt(b, c - n)
        /\ IsRebuilt(b, c - n) => \A f \in Fields : Reindexed(b, f, 0, c - n)
    BY <2>1 DEF Settled
  <2>3. /\ n + 1 \in 1..(n + 1) /\ n + 1 \in Nat /\ n + 1 <= c /\ c \in 1..(n + Len(b) + 1)
        /\ n + 0 = n /\ n + (c - n) = c /\ c \in Nat /\ c <= c
    BY <1>0, <1>2
  <2>4. ASSUME NEW f \in Fields, NEW j \in 1..n, Touches(a[j], f) PROVE Reindexed(S, f, j, c)
    <3>1. j \in Nat /\ j <= j
      BY <1>0
    <3>2. Reindexed(a, f, j, n + 1)
      BY <1>0, <2>3, <2>4 DEF Settled, SettledAt, Checkpoint
    <3>3. Reindexed(S, f, j, n + 1)
      BY <2>3, <3>1, <3>2, JoinReindexed
    <3> QED BY <2>3, <3>1, <3>3, JoinReindexed
  <2>5. ASSUME NEW f \in Fields, Reindexed(b, f, 0, c - n) PROVE Reindexed(S, f, 0, c)
    <3>1. Reindexed(S, f, n + 0, n + (c - n))
      BY <2>1, <2>5, JoinReindexed
    <3>2. Reindexed(S, f, n, c)
      BY <2>3, <3>1
    <3> QED BY <1>0, <2>3, <3>2, JoinReindexed
  <2> QED BY <2>1, <2>2, <2>4, <2>5
<1> QED BY <1>0, <1>1, <1>2

\* A rebuild settles whatever comes before it.
LEMMA RebuildSettles ==
    ASSUME NEW a \in Seq(Writes),
           \A c \in 1..Len(a) : IsCheckpoint(a[c]) => SettledAt(a, c) /\ a[c].do # "rebuilt"
    PROVE  Settled(a \o rebuild_v2_indexes)
<1> DEFINE b == rebuild_v2_indexes
           S == a \o b
           n == Len(a)
<1>a. b \in Seq(Writes)
  BY PiecesAre
<1>b. Len(b) = 4
  BY PiecesAre
<1>1. /\ b[1] = Reindex({"deps"}) /\ b[2] = Reindex({"task"})
      /\ b[3] = Reindex({"run", "todos", "handoffs", "reviews", "lock"})
      /\ b[4] = [do |-> "rebuilt"]
  BY PiecesAre
<1> HIDE DEF b
<1>0. b \in Seq(Writes) /\ n \in Nat /\ Len(b) = 4 /\ Len(S) = n + 4
  <2>1. n \in Nat /\ Len(S) = n + Len(b)
    BY <1>a, Joined
  <2> QED BY <1>a, <1>b, <2>1
<1>2. \A k \in 1..3 : b[k].do = "reindex"
  BY <1>1 DEF Reindex
<1>3. \A e \in 4..5, f \in Fields : Reindexed(b, f, 0, e)
  <2>1. ASSUME NEW f \in Fields PROVE \E k \in 1..3 : IsReindex(b[k], f)
    <3>1. IsReindex(b[1], "deps") /\ IsReindex(b[2], "task")
      BY <1>1 DEF IsReindex, Reindex
    <3>2. f \in Fields \ {"deps", "task"} => IsReindex(b[3], f)
      BY <1>1 DEF IsReindex, Reindex, Fields
    <3> QED BY <2>1, <3>1, <3>2
  <2> QED BY <2>1 DEF Reindexed
<1>4. \A k \in 1..4 : \A f : ~Touches(b[k], f)
  <2>1. \A k \in 1..4 : b[k].do \in {"reindex", "rebuilt"}
    BY <1>1, <1>2
  <2> QED BY <2>1 DEF Touches, IsPut, IsRecord
<1> SUFFICES ASSUME NEW c \in 1..(Len(S) + 1), Checkpoint(S, c)
             PROVE  /\ SettledAt(S, c)
                    /\ IsRebuilt(S, c) => \A f \in Fields : Reindexed(S, f, 0, c)
  BY DEF Settled, b
<1>5. CASE c <= n
  <2>1. /\ c \in 1..n /\ IsCheckpoint(a[c]) /\ (IsRebuilt(S, c) <=> IsRebuilt(a, c))
        /\ SettledAt(a, c) => SettledAt(S, c)
    BY <1>0, <1>5, JoinSettledAt
  <2> QED BY <2>1 DEF IsRebuilt
<1>6. CASE c > n
  <2>1. /\ c - n \in 1..5 /\ Checkpoint(b, c - n)
        /\ /\ SettledAt(b, c - n)
           /\ \A f \in Fields, j \in 1..n : Touches(a[j], f) => Reindexed(S, f, j, c)
           => SettledAt(S, c)
    BY <1>0, <1>6, JoinSettledAt
  <2>2. c - n \in 4..5
    BY <1>0, <1>2, <2>1 DEF Checkpoint, IsCheckpoint
  <2>3. SettledAt(b, c - n)
    BY <1>4, <2>2 DEF SettledAt
  <2>4. ASSUME NEW f \in Fields, NEW j \in 0..n PROVE Reindexed(S, f, j, c)
    <3>1. Reindexed(b, f, 0, c - n)
      BY <1>3, <2>2
    <3>2. Reindexed(S, f, n + 0, n + (c - n))
      <4>1. \A i \in Nat : \A e \in 1..(Len(b) + 1) :
                Reindexed(b, f, i, e) => Reindexed(S, f, n + i, n + e)
        BY <1>0, JoinReindexed
      <4> HIDE DEF S, n
      <4> QED BY <1>0, <2>1, <3>1, <4>1
    <3>3. n + 0 = n /\ n + (c - n) = c /\ j \in Nat /\ j <= n /\ c \in Nat /\ c <= c
          /\ c \in 1..(n + Len(b) + 1)
      BY <1>0
    <3>4. Reindexed(S, f, n, c)
      BY <3>2, <3>3
    <3> QED BY <1>0, <3>3, <3>4, JoinReindexed
  <2> QED BY <1>0, <2>1, <2>3, <2>4
<1> QED BY <1>0, <1>5, <1>6

-----------------------------------------------------------------------------
(* One write *)

\* The files after the write w.
AppliedTo(w, d, e) ==
    \/ IsPut(w, "task") /\ e = [d EXCEPT !.task = w.value]
    \/ IsPut(w, "run") /\ e = [d EXCEPT !.run = w.value]
    \/ IsPut(w, "todos") /\ e = [d EXCEPT !.todos = w.value]
    \/ IsPut(w, "reqs") /\ e = [d EXCEPT !.reqs = w.value]
    \/ IsPut(w, "links") /\ e = [d EXCEPT !.links = w.value]
    \/ IsRecord(w, "changes") /\ e = [d EXCEPT !.changes = @ \cup w.value]
    \/ IsRecord(w, "checks") /\ e = [d EXCEPT !.checks = @ \cup w.value]
    \/ IsRecord(w, "reviews") /\ e = [d EXCEPT !.reviews = @ \cup w.value]
    \/ IsRecord(w, "handoffs") /\ e = [d EXCEPT !.handoffs = With(@, w.value.id, w.value.handoff)]
    \/ w.do = "enter" /\ \E latest \in {TRUE} :
           e = [d EXCEPT !.task.status_stage = "implementing",
                         !.task.latest_implementation_run = latest]
    \/ w.do \in {"write_lock", "remove_lock", "release_lock"} /\ \E lock \in BOOLEAN :
           (lock <=> w.do = "write_lock") /\ e = [d EXCEPT !.lock = lock]
    \/ w.do \in {"reindex", "rebuilt"} /\ e = d

DiskKept(d, e) ==
    /\ RunKept(d.run, e.run) /\ TodosKept(d.todos, e.todos) /\ LinksKept(d.links, e.links)

\* What any write does to the files, whatever overlaps.
Saved(w, d, e) ==
    /\ e \in Store /\ d.changes \subseteq e.changes /\ d.checks \subseteq e.checks
    /\ IsRecord(w, "changes") => w.value \subseteq e.changes
    /\ IsRecord(w, "checks") => w.value \subseteq e.checks
    /\ RefsOnDisk(d) /\ RefersTo(<<w>>, 1, d) => RefsOnDisk(e)

\* What a write of a lone writer does.
SavedAlone(w, d, e) ==
    /\ DiskKept(d, e)
    /\ HandoffsFocus(d) => HandoffsFocus(e)
    /\ \A x : Extends(x, d) /\ ~Clash(w, x) => Extends(x, e)
    /\ \A f \in Fields : Touches(w, f) \/ Summary(f, e) = Summary(f, d)

\* What is kept when nothing is written.
LEMMA KeptSame ==
    ASSUME NEW d \in Store
    PROVE  DiskKept(d, d)
<1>1. d.run \in TaskRunRecord /\ d.todos \in Partial(Ids, TaskTodo)
  BY DEF Store
<1>2. d.run.worklog >= d.run.worklog
  BY <1>1, RecordsAssumption DEF TaskRunRecord
<1>3. \A i \in DOMAIN d.todos : d.todos[i].evidence >= d.todos[i].evidence
  <2>1. \A i \in DOMAIN d.todos : d.todos[i] \in TaskTodo
    BY <1>1 DEF Partial
  <2>2. \A t \in TaskTodo : t.evidence >= t.evidence
    BY RecordsAssumption DEF TaskTodo
  <2> QED BY <2>1, <2>2
<1>4. Cardinality(DOMAIN d.links \ DOMAIN d.links) <= 1
  <2>1. DOMAIN d.links \ DOMAIN d.links = {}
    OBVIOUS
  <2>2. Cardinality({}) = 0
    BY FS_EmptySet
  <2> QED BY <2>1, <2>2
<1> QED BY <1>2, <1>3, <1>4 DEF DiskKept, RunKept, TodosKept, LinksKept

\* Every write leaves the files well-formed and what they refer to on disk.
LEMMA WriteSaves ==
    ASSUME NEW w \in Writes, NEW d \in Store, NEW e, AppliedTo(w, d, e)
    PROVE  Saved(w, d, e)
<1> USE DEF Saved, RefsOnDisk, RefersTo, Covered, Store
<1>1. CASE IsPut(w, "task") /\ w.value \in TaskRecord /\ e = [d EXCEPT !.task = w.value]
  BY <1>1 DEF IsPut, IsRecord
<1>2. CASE IsPut(w, "run") /\ w.value \in TaskRunRecord /\ e = [d EXCEPT !.run = w.value]
  BY <1>2 DEF IsPut, IsRecord
<1>3. CASE \/ /\ IsPut(w, "todos") /\ w.value \in Partial(Ids, TaskTodo)
              /\ e = [d EXCEPT !.todos = w.value]
           \/ /\ IsPut(w, "reqs") /\ w.value \in Partial(Tasks, BOOLEAN)
              /\ e = [d EXCEPT !.reqs = w.value]
           \/ /\ IsPut(w, "links") /\ w.value \in Partial(Paths, BOOLEAN)
              /\ e = [d EXCEPT !.links = w.value]
  BY <1>3 DEF IsPut, IsRecord
<1>4. CASE /\ w.value \in SUBSET Ids
           /\ \/ IsRecord(w, "changes") /\ e = [d EXCEPT !.changes = @ \cup w.value]
              \/ IsRecord(w, "checks") /\ e = [d EXCEPT !.checks = @ \cup w.value]
              \/ IsRecord(w, "reviews") /\ e = [d EXCEPT !.reviews = @ \cup w.value]
  BY <1>4 DEF IsPut, IsRecord
<1>5. CASE /\ IsRecord(w, "handoffs") /\ w.value \in HandoffValue
           /\ e = [d EXCEPT !.handoffs = With(@, w.value.id, w.value.handoff)]
  <2>1. With(d.handoffs, w.value.id, w.value.handoff) \in Partial(Ids, TaskHandoffRecord)
    BY <1>5 DEF With, Partial, HandoffValue
  <2> QED BY <1>5, <2>1 DEF IsPut, IsRecord
<1>6. CASE w.do = "enter"
  <2>1. PICK latest \in BOOLEAN : e = [d EXCEPT !.task.status_stage = "implementing",
                                                !.task.latest_implementation_run = latest]
    BY <1>6 DEF AppliedTo, IsPut, IsRecord
  <2> QED BY <1>6, <2>1 DEF IsPut, IsRecord, TaskRecord
<1>7. CASE w.do \in {"write_lock", "remove_lock", "release_lock"}
  <2>1. PICK lock \in BOOLEAN : e = [d EXCEPT !.lock = lock]
    BY <1>7 DEF AppliedTo, IsPut, IsRecord
  <2> QED BY <1>7, <2>1 DEF IsPut, IsRecord
<1>8. CASE w.do \in {"reindex", "rebuilt"} /\ e = d
  BY <1>8 DEF IsPut, IsRecord
<1> QED BY <1>1, <1>2, <1>3, <1>4, <1>5, <1>6, <1>7, <1>8, WriteCases
      DEF AppliedTo, IsPut, IsRecord, Marks

\* A write that leaves a part of the files alone keeps what is in it.
LEMMA SameKept ==
    ASSUME NEW d \in Store, NEW e
    PROVE  /\ e.run = d.run => RunKept(d.run, e.run)
           /\ e.todos = d.todos => TodosKept(d.todos, e.todos)
           /\ e.links = d.links => LinksKept(d.links, e.links)
<1> DiskKept(d, d)
  BY KeptSame
<1> QED BY DEF DiskKept

\* A lone writer's write keeps what is there, and leaves the writes after it
\* as harmless as they were.
LEMMA WriteKeeps ==
    ASSUME NEW w \in Writes, NEW d \in Store, NEW e, AppliedTo(w, d, e), Extends(w, d)
    PROVE  SavedAlone(w, d, e)
<1> USE DEF IsPut, IsRecord
<1>1. CASE IsPut(w, "task") /\ e = [d EXCEPT !.task = w.value]
  <2>1. /\ e.run = d.run /\ e.todos = d.todos /\ e.links = d.links /\ e.handoffs = d.handoffs
        /\ e.lock = d.lock /\ e.reqs = d.reqs /\ e.reviews = d.reviews /\ e.task = w.value
    BY <1>1 DEF Store
  <2>2. e.task.latest_implementation_run = d.task.latest_implementation_run
    BY <1>1, <2>1 DEF Extends
  <2>3. DiskKept(d, e)
    BY <2>1, SameKept DEF DiskKept
  <2>4. HandoffsFocus(d) => HandoffsFocus(e)
    BY <2>1 DEF HandoffsFocus, FocusOK
  <2>5. \A x : Extends(x, d) /\ ~Clash(w, x) => Extends(x, e)
    BY <2>1, <2>2 DEF Extends, FocusOK
  <2>6. \A f \in Fields : Touches(w, f) \/ Summary(f, e) = Summary(f, d)
    BY <1>1, <2>1, <2>2 DEF Touches, Fields, Summary, reviews_summary
  <2> QED BY <2>3, <2>4, <2>5, <2>6 DEF SavedAlone
<1>2. CASE IsPut(w, "run") /\ e = [d EXCEPT !.run = w.value]
  <2>1. /\ e.run = w.value /\ e.todos = d.todos /\ e.links = d.links /\ e.handoffs = d.handoffs
        /\ e.lock = d.lock /\ e.reqs = d.reqs /\ e.reviews = d.reviews /\ e.task = d.task
    BY <1>2 DEF Store
  <2>2. RunKept(d.run, e.run)
    BY <1>2, <2>1 DEF Extends
  <2>3. DiskKept(d, e)
    BY <2>1, <2>2, SameKept DEF DiskKept
  <2>4. HandoffsFocus(d) => HandoffsFocus(e)
    BY <2>1 DEF HandoffsFocus, FocusOK
  <2>5. \A x : Extends(x, d) /\ ~Clash(w, x) => Extends(x, e)
    BY <1>2, <2>1 DEF Extends, FocusOK, Clash
  <2>6. \A f \in Fields : Touches(w, f) \/ Summary(f, e) = Summary(f, d)
    BY <1>2, <2>1 DEF Touches, Fields, Summary, reviews_summary
  <2> QED BY <2>3, <2>4, <2>5, <2>6 DEF SavedAlone
<1>3. CASE IsPut(w, "todos") /\ e = [d EXCEPT !.todos = w.value]
  <2>1. /\ e.run = d.run /\ e.todos = w.value /\ e.links = d.links /\ e.handoffs = d.handoffs
        /\ e.lock = d.lock /\ e.reqs = d.reqs /\ e.reviews = d.reviews /\ e.task = d.task
    BY <1>3 DEF Store
  <2>2. TodosKept(d.todos, e.todos)
    BY <1>3, <2>1 DEF Extends
  <2>3. DiskKept(d, e)
    BY <2>1, <2>2, SameKept DEF DiskKept
  <2>4. \A h : FocusOK(h, d) => FocusOK(h, e)
    BY <2>2 DEF FocusOK, TodosKept
  <2>5. HandoffsFocus(d) => HandoffsFocus(e)
    BY <2>1, <2>4 DEF HandoffsFocus
  <2>6. \A x : Extends(x, d) /\ ~Clash(w, x) => Extends(x, e)
    BY <1>3, <2>1, <2>4 DEF Extends, Clash
  <2>7. \A f \in Fields : Touches(w, f) \/ Summary(f, e) = Summary(f, d)
    BY <1>3, <2>1 DEF Touches, Fields, Summary, reviews_summary
  <2> QED BY <2>3, <2>5, <2>6, <2>7 DEF SavedAlone
<1>4. CASE IsPut(w, "links") /\ e = [d EXCEPT !.links = w.value]
  <2>1. /\ e.run = d.run /\ e.todos = d.todos /\ e.links = w.value /\ e.handoffs = d.handoffs
        /\ e.lock = d.lock /\ e.reqs = d.reqs /\ e.reviews = d.reviews /\ e.task = d.task
    BY <1>4 DEF Store
  <2>2. LinksKept(d.links, e.links)
    BY <1>4, <2>1 DEF Extends
  <2>3. DiskKept(d, e)
    BY <2>1, <2>2, SameKept DEF DiskKept
  <2>4. HandoffsFocus(d) => HandoffsFocus(e)
    BY <2>1 DEF HandoffsFocus, FocusOK
  <2>5. \A x : Extends(x, d) /\ ~Clash(w, x) => Extends(x, e)
    BY <1>4, <2>1 DEF Extends, FocusOK, Clash
  <2>6. \A f \in Fields : Touches(w, f) \/ Summary(f, e) = Summary(f, d)
    BY <1>4, <2>1 DEF Touches, Fields, Summary, reviews_summary
  <2> QED BY <2>3, <2>4, <2>5, <2>6 DEF SavedAlone
<1>5. CASE /\ e.run = d.run /\ e.todos = d.todos /\ e.links = d.links /\ e.task = d.task
           /\ e.lock = d.lock /\ (e.handoffs = d.handoffs \/ IsRecord(w, "handoffs"))
           /\ e.reviews = d.reviews \/ IsRecord(w, "reviews")
           /\ e.reqs = d.reqs \/ IsPut(w, "reqs")
           /\ HandoffsFocus(d) => HandoffsFocus(e)
  <2>1. DiskKept(d, e)
    BY <1>5, SameKept DEF DiskKept
  <2>2. \A x : Extends(x, d) /\ ~Clash(w, x) => Extends(x, e)
    BY <1>5 DEF Extends, FocusOK
  <2>3. \A f \in Fields : Touches(w, f) \/ Summary(f, e) = Summary(f, d)
    BY <1>5 DEF Touches, Fields, Summary, reviews_summary
  <2> QED BY <1>5, <2>1, <2>2, <2>3 DEF SavedAlone
<1>6. CASE IsPut(w, "reqs") /\ e = [d EXCEPT !.reqs = w.value]
  BY <1>5, <1>6 DEF Store, HandoffsFocus, FocusOK
<1>7. CASE \/ IsRecord(w, "changes") /\ e = [d EXCEPT !.changes = @ \cup w.value]
           \/ IsRecord(w, "checks") /\ e = [d EXCEPT !.checks = @ \cup w.value]
           \/ IsRecord(w, "reviews") /\ e = [d EXCEPT !.reviews = @ \cup w.value]
  BY <1>5, <1>7 DEF Store, HandoffsFocus, FocusOK
<1>8. CASE /\ IsRecord(w, "handoffs")
           /\ e = [d EXCEPT !.handoffs = With(@, w.value.id, w.value.handoff)]
  <2>1. /\ e.run = d.run /\ e.todos = d.todos /\ e.links = d.links /\ e.task = d.task
        /\ e.lock = d.lock /\ e.reviews = d.reviews /\ e.reqs = d.reqs
        /\ e.handoffs = With(d.handoffs, w.value.id, w.value.handoff)
    BY <1>8 DEF Store
  <2>2. FocusOK(w.value.handoff, d)
    BY <1>8 DEF Extends
  <2>3. HandoffsFocus(d) => HandoffsFocus(e)
    BY <2>1, <2>2 DEF HandoffsFocus, FocusOK, With
  <2> QED BY <1>5, <1>8, <2>1, <2>3
<1>9. CASE w.do = "enter"
  <2>1. PICK latest \in BOOLEAN : e = [d EXCEPT !.task.status_stage = "implementing",
                                                !.task.latest_implementation_run = latest]
    BY <1>9 DEF AppliedTo
  <2>2. /\ e.run = d.run /\ e.todos = d.todos /\ e.links = d.links /\ e.handoffs = d.handoffs
        /\ e.lock = d.lock /\ e.reqs = d.reqs /\ e.reviews = d.reviews
    BY <2>1 DEF Store
  <2>3. DiskKept(d, e)
    BY <2>2, SameKept DEF DiskKept
  <2>4. HandoffsFocus(d) => HandoffsFocus(e)
    BY <2>2 DEF HandoffsFocus, FocusOK
  <2>5. \A x : Extends(x, d) /\ ~Clash(w, x) => Extends(x, e)
    BY <1>9, <2>2 DEF Extends, FocusOK, Clash
  <2>6. \A f \in Fields : Touches(w, f) \/ Summary(f, e) = Summary(f, d)
    BY <1>9, <2>2 DEF Touches, Fields, Summary
  <2> QED BY <2>3, <2>4, <2>5, <2>6 DEF SavedAlone
<1>10. CASE w.do \in {"write_lock", "remove_lock", "release_lock"}
  <2>1. PICK lock \in BOOLEAN : (lock <=> w.do = "write_lock") /\ e = [d EXCEPT !.lock = lock]
    BY <1>10 DEF AppliedTo
  <2>2. /\ e.run = d.run /\ e.todos = d.todos /\ e.links = d.links /\ e.handoffs = d.handoffs
        /\ e.task = d.task /\ e.reqs = d.reqs /\ e.reviews = d.reviews /\ e.lock = lock
    BY <2>1 DEF Store
  <2>3. DiskKept(d, e)
    BY <2>2, SameKept DEF DiskKept
  <2>4. HandoffsFocus(d) => HandoffsFocus(e)
    BY <2>2 DEF HandoffsFocus, FocusOK
  <2>5. \A x : Extends(x, d) /\ ~Clash(w, x) => Extends(x, e)
    BY <1>10, <2>1, <2>2 DEF Extends, FocusOK, Clash
  <2>6. \A f \in Fields : Touches(w, f) \/ Summary(f, e) = Summary(f, d)
    BY <1>10, <2>2 DEF Touches, Fields, Summary, reviews_summary
  <2> QED BY <2>3, <2>4, <2>5, <2>6 DEF SavedAlone
<1>11. CASE e = d
  BY <1>5, <1>11
<1> QED BY <1>1, <1>2, <1>3, <1>4, <1>6, <1>7, <1>8, <1>9, <1>10, <1>11 DEF AppliedTo

-----------------------------------------------------------------------------
(* The writes that are left *)

\* After a write the references of the script's other writes are covered as
\* they were.
LEMMA TailReferenced ==
    ASSUME NEW S \in Seq(Writes), S # <<>>, NEW d, NEW e,
           Referenced(S, d), Saved(S[1], d, e)
    PROVE  Referenced(Tail(S), e) /\ RefersTo(<<S[1]>>, 1, d)
<1>1. /\ Tail(S) \in Seq(Writes) /\ Len(S) \in Nat \ {0} /\ Len(Tail(S)) = Len(S) - 1
      /\ \A j \in 1..Len(Tail(S)) : Tail(S)[j] = S[j + 1]
  BY Shifted
<1>2. ASSUME NEW j \in 1..Len(Tail(S)), NEW x, NEW part, NEW there, NEW now,
             Covered(S, j + 1, x, part, there), there \subseteq now,
             IsRecord(S[1], part) => S[1].value \subseteq now
      PROVE  Covered(Tail(S), j, x, part, now)
  <2>1. CASE x \in there
    BY <1>2, <2>1 DEF Covered
  <2>2. CASE x \notin there
    <3>1. PICK k \in 1..j : IsRecord(S[k], part) /\ x \in S[k].value
      BY <1>1, <1>2, <2>2 DEF Covered
    <3>2. CASE k = 1
      BY <1>2, <3>1, <3>2 DEF Covered
    <3>3. CASE k # 1
      <4>1. k - 1 \in 1..(j - 1) /\ Tail(S)[k - 1] = S[k]
        BY <1>1, <3>3
      <4> QED BY <3>1, <4>1 DEF Covered
    <3> QED BY <3>2, <3>3
  <2> QED BY <2>1, <2>2
<1>3. ASSUME NEW j \in 1..Len(Tail(S)) PROVE RefersTo(Tail(S), j, e)
  <2>1. j + 1 \in 1..Len(S) /\ Tail(S)[j] = S[j + 1]
    BY <1>1
  <2>2. RefersTo(S, j + 1, d)
    BY <2>1 DEF Referenced
  <2> QED BY <1>2, <2>1, <2>2 DEF RefersTo, Saved
<1>4. RefersTo(<<S[1]>>, 1, d)
  <2>1. 1 \in 1..Len(S) /\ RefersTo(S, 1, d)
    BY <1>1 DEF Referenced
  <2>2. \A x, part, there : Covered(S, 1, x, part, there) => Covered(<<S[1]>>, 1, x, part, there)
    BY DEF Covered
  <2> QED BY <2>1, <2>2 DEF RefersTo
<1> QED BY <1>3, <1>4 DEF Referenced

\* Records that are added leave references covered.
LEMMA StillReferenced ==
    ASSUME NEW S, NEW d, NEW e, Referenced(S, d),
           d.changes \subseteq e.changes, d.checks \subseteq e.checks
    PROVE  Referenced(S, e)
  BY DEF Referenced, RefersTo, Covered

\* The rest of a harmless script is harmless when its first write is made.
LEMMA TailHarmless ==
    ASSUME NEW S \in Seq(Writes), S # <<>>, NEW d, NEW e,
           Harmless(S, d), SavedAlone(S[1], d, e)
    PROVE  Harmless(Tail(S), e)
<1>1. /\ Len(S) \in Nat \ {0} /\ Len(Tail(S)) = Len(S) - 1
      /\ \A j \in 1..Len(Tail(S)) : Tail(S)[j] = S[j + 1]
  BY Shifted
<1>2. ASSUME NEW j \in 1..Len(Tail(S)) PROVE Extends(Tail(S)[j], e)
  <2>1. j + 1 \in 1..Len(S) /\ 1 \in 1..Len(S) /\ 1 < j + 1 /\ Tail(S)[j] = S[j + 1]
    BY <1>1
  <2>2. Extends(S[j + 1], d) /\ ~Clash(S[1], S[j + 1])
    BY <2>1 DEF Harmless
  <2> QED BY <2>1, <2>2 DEF SavedAlone
<1>3. ASSUME NEW j \in 1..Len(Tail(S)), NEW k \in 1..Len(Tail(S)), j < k
      PROVE  ~Clash(Tail(S)[j], Tail(S)[k])
  <2>1. j + 1 \in 1..Len(S) /\ k + 1 \in 1..Len(S) /\ j + 1 < k + 1
    BY <1>1, <1>3
  <2> QED BY <1>1, <2>1 DEF Harmless
<1> QED BY <1>2, <1>3 DEF Harmless

\* A write touches fields that are brought up to date later, brings fields up
\* to date, or ends a rebuild: the rest of the script leaves the indexes fresh
\* as the whole of it did.
LEMMA TailFresh ==
    ASSUME NEW S \in Seq(Writes), S # <<>>, NEW d, NEW e, NEW ix, NEW iy,
           NEW st \in BOOLEAN, NEW su \in BOOLEAN, FreshBy(S, d, ix, st),
           \A f \in Fields : Touches(S[1], f) \/ Summary(f, e) = Summary(f, d),
           \A f \in Fields : iy[f] = IF IsReindex(S[1], f) THEN Summary(f, e) ELSE ix[f],
           su <=> st /\ S[1].do # "rebuilt"
    PROVE  FreshBy(Tail(S), e, iy, su)
<1> DEFINE T == Tail(S)
<1>1. /\ Len(S) \in Nat \ {0} /\ Len(T) = Len(S) - 1
      /\ \A j \in 1..Len(T) : T[j] = S[j + 1]
  BY Shifted
<1> HIDE DEF T
<1>2. ASSUME NEW f, NEW i \in Nat, NEW c \in 1..(Len(T) + 1), Reindexed(S, f, i + 1, c + 1)
      PROVE  Reindexed(T, f, i, c)
  <2>1. PICK k \in (i + 2)..c : IsReindex(S[k], f)
    BY <1>1, <1>2 DEF Reindexed
  <2>2. k - 1 \in (i + 1)..(c - 1) /\ T[k - 1] = S[k]
    BY <1>1
  <2> QED BY <2>1, <2>2 DEF Reindexed
<1> SUFFICES ASSUME NEW c \in 1..(Len(T) + 1), Checkpoint(T, c)
             PROVE  SettledAt(T, c) /\ FreshAt(T, c, e, iy, su)
  BY DEF FreshBy, T
<1>3. /\ c + 1 \in 1..(Len(S) + 1) /\ Checkpoint(S, c + 1)
      /\ IsRebuilt(T, c) <=> IsRebuilt(S, c + 1)
  BY <1>1 DEF Checkpoint, IsRebuilt
<1>4. SettledAt(S, c + 1) /\ FreshAt(S, c + 1, d, ix, st)
  BY <1>3 DEF FreshBy
<1>5. SettledAt(T, c)
  <2> SUFFICES ASSUME NEW f \in Fields, NEW j \in 1..(c - 1), Touches(T[j], f)
               PROVE  Reindexed(T, f, j, c)
    BY DEF SettledAt
  <2>1. j + 1 \in 1..(c + 1 - 1) /\ T[j] = S[j + 1] /\ j \in Nat
    BY <1>1
  <2>2. Reindexed(S, f, j + 1, c + 1)
    BY <1>4, <2>1 DEF SettledAt
  <2> QED BY <1>2, <2>1, <2>2
<1>6. ASSUME IsRebuilt(T, c) \/ ~su, NEW f \in Fields
      PROVE  iy[f] = Summary(f, e) \/ Reindexed(T, f, 0, c)
  <2>1. CASE IsReindex(S[1], f)
    BY <2>1
  <2>2. CASE ~IsReindex(S[1], f) /\ Touches(S[1], f)
    <3>1. 1 \in 1..(c + 1 - 1)
      OBVIOUS
    <3>2. Reindexed(S, f, 1, c + 1)
      BY <1>4, <2>2, <3>1 DEF SettledAt
    <3> QED BY <1>2, <3>2
  <2>3. CASE ~IsReindex(S[1], f) /\ ~Touches(S[1], f)
    <3>1. iy[f] = ix[f] /\ Summary(f, e) = Summary(f, d)
      BY <2>3
    <3>2. CASE S[1].do = "rebuilt"
      <4>1. 1 \in 1..(Len(S) + 1) /\ Checkpoint(S, 1) /\ IsRebuilt(S, 1)
        BY <1>1, <3>2 DEF Checkpoint, IsCheckpoint, IsRebuilt
      <4>2. FreshAt(S, 1, d, ix, st)
        BY <4>1 DEF FreshBy
      <4>3. ix[f] = Summary(f, d)
        BY <4>1, <4>2 DEF FreshAt, Reindexed
      <4> QED BY <3>1, <4>3
    <3>3. CASE S[1].do # "rebuilt"
      <4>1. ix[f] = Summary(f, d) \/ Reindexed(S, f, 0, c + 1)
        BY <1>3, <1>4, <1>6, <3>3 DEF FreshAt
      <4>2. ASSUME Reindexed(S, f, 0, c + 1) PROVE Reindexed(T, f, 0, c)
        <5>1. PICK k \in 1..c : IsReindex(S[k], f)
          BY <4>2 DEF Reindexed
        <5>2. k \in 2..c
          BY <2>3, <5>1
        <5>3. Reindexed(S, f, 0 + 1, c + 1)
          BY <5>1, <5>2 DEF Reindexed
        <5> QED BY <1>2, <5>3
      <4> QED BY <3>1, <4>1, <4>2
    <3> QED BY <3>2, <3>3
  <2> QED BY <2>1, <2>2, <2>3
<1> QED BY <1>5, <1>6 DEF FreshAt

-----------------------------------------------------------------------------
(* Steps *)

\* A script whose turn begins: what a command must show of what it will write.
Plan(S) ==
    /\ S \in Seq(Writes) /\ Referenced(S, disk) /\ Settled(S)
    /\ ~overlapped => Harmless(S, disk)

\* A settled script leaves the indexes fresh when they are fresh.
LEMMA SettledFresh ==
    ASSUME NEW S, Settled(S), NEW d, NEW ix, NEW st, ~st => Fresh(d, ix)
    PROVE  FreshBy(S, d, ix, st)
  BY DEF Settled, FreshBy, FreshAt, Fresh

\* A command begins.
LEMMA BeginStep ==
    ASSUME RecordsInv, NEW s \in Sessions, NEW S, Plan(S), Begin(s, S)
    PROVE  RecordsInv' /\ (~overlapped => DiskKept(disk, disk'))
<1>1. /\ UNCHANGED <<disk, index, stale>> /\ work' = [work EXCEPT ![s] = S]
      /\ Idle(s) /\ overlapped' = (overlapped \/ \E t \in Sessions \ {s} : ~Idle(t))
  BY DEF Begin
<1>2. RecordsTypes
  BY DEF RecordsInv
<1>3. RecordsTypes'
  <2>1. work' \in [Sessions -> Seq(Writes)]
    BY <1>1, <1>2 DEF RecordsTypes, Plan
  <2>2. overlapped' \in BOOLEAN
    BY <1>1, <1>2 DEF RecordsTypes
  <2> QED BY <1>1, <1>2, <2>1, <2>2 DEF RecordsTypes
<1>4. \A t \in Sessions : work'[t] = IF t = s THEN S ELSE work[t]
  BY <1>1, <1>2 DEF RecordsTypes
<1>5. RefsOnDisk(disk)' /\ \A t \in Sessions : Referenced(work[t], disk)'
  BY <1>1, <1>4 DEF RecordsInv, Plan
<1>6. ASSUME ~overlapped' PROVE AloneInv'
  <2>1. ~overlapped /\ \A t \in Sessions : work[t] = <<>>
    BY <1>1, <1>6 DEF Idle
  <2>2. AloneInv /\ Harmless(S, disk) /\ Settled(S)
    BY <2>1 DEF RecordsInv, Plan
  <2>3. \A t \in Sessions : t # s => work'[t] = <<>>
    BY <1>4, <2>1
  <2>4. ~stale => Fresh(disk, index)
    BY <2>1, <2>2 DEF AloneInv, Idle
  <2>5. FreshBy(S, disk, index, stale)
    BY <2>2, <2>4, SettledFresh
  <2>6. \A t \in Sessions : Harmless(work'[t], disk)
    BY <1>4, <2>2 DEF AloneInv
  <2>7. \A t \in Sessions : work'[t] # <<>> => FreshBy(work'[t], disk, index, stale)
    BY <1>4, <2>3, <2>5
  <2> QED BY <1>1, <2>2, <2>3, <2>4, <2>6, <2>7 DEF AloneInv, Idle
<1> QED BY <1>1, <1>2, <1>3, <1>5, <1>6, KeptSame DEF RecordsInv, RecordsTypes

\* A write is made, and the script goes on.
LEMMA WriteStep ==
    ASSUME RecordsInv, NEW s \in Sessions, ~Idle(s), Done(s),
           AppliedTo(Head(work[s]), disk, disk'), overlapped' = overlapped,
           index' = [f \in Fields |->
               IF IsReindex(Head(work[s]), f) THEN Summary(f, disk') ELSE index[f]],
           stale' \in BOOLEAN, stale' <=> stale /\ Head(work[s]).do # "rebuilt"
    PROVE  RecordsInv' /\ (~overlapped => DiskKept(disk, disk'))
<1> DEFINE S == work[s]
           w == S[1]
<1>1. RecordsTypes /\ RefsOnDisk(disk) /\ \A t \in Sessions : Referenced(work[t], disk)
  BY DEF RecordsInv
<1>2. S \in Seq(Writes) /\ S # <<>> /\ disk \in Store /\ stale \in BOOLEAN
  BY <1>1 DEF RecordsTypes, Idle
<1>3. Head(S) = w /\ w \in Writes /\ Tail(S) \in Seq(Writes) /\ Len(S) \in Nat \ {0}
  BY <1>2, Shifted
<1>4. \A t \in Sessions : work'[t] = IF t = s THEN Tail(S) ELSE work[t]
  BY <1>1 DEF RecordsTypes, Done
<1>5. Saved(w, disk, disk')
  BY <1>2, <1>3, WriteSaves
<1>6. Referenced(Tail(S), disk') /\ RefersTo(<<w>>, 1, disk)
  BY <1>1, <1>2, <1>5, TailReferenced
<1>7. \A t \in Sessions : Referenced(work[t], disk')
  BY <1>1, <1>5, StillReferenced DEF Saved
<1>8. RefsOnDisk(disk)' /\ \A t \in Sessions : Referenced(work[t], disk)'
  BY <1>1, <1>4, <1>5, <1>6, <1>7 DEF Saved
<1>9. RecordsTypes'
  <2>1. work' \in [Sessions -> Seq(Writes)]
    BY <1>1, <1>3 DEF RecordsTypes, Done
  <2>2. index' = [f \in Fields |-> index'[f]]
    OBVIOUS
  <2>3. disk' \in Store
    BY <1>5 DEF Saved
  <2> QED BY <1>1, <2>1, <2>2, <2>3 DEF RecordsTypes
<1>10. ASSUME ~overlapped PROVE AloneInv' /\ DiskKept(disk, disk')
  <2>1. AloneInv /\ Harmless(S, disk)
    BY <1>10 DEF RecordsInv, AloneInv
  <2>2. \A t \in Sessions : t # s => work[t] = <<>> /\ work'[t] = <<>>
    BY <1>2, <1>4, <2>1 DEF AloneInv, Idle
  <2>3. Extends(w, disk)
    BY <1>3, <2>1 DEF Harmless
  <2>4. SavedAlone(w, disk, disk')
    BY <1>2, <1>3, <2>3, WriteKeeps
  <2>5. HandoffsFocus(disk') /\ DiskKept(disk, disk')
    BY <2>1, <2>4 DEF SavedAlone, AloneInv
  <2>6. Harmless(Tail(S), disk')
    BY <1>2, <2>1, <2>4, TailHarmless
  <2>7. \A t \in Sessions : Harmless(work'[t], disk')
    <3>1. Harmless(<<>>, disk')
      BY DEF Harmless
    <3> QED BY <1>4, <2>2, <2>6, <3>1
  <2>8. FreshBy(S, disk, index, stale)
    BY <1>2, <2>1 DEF AloneInv, Idle
  <2>9. /\ \A f \in Fields : Touches(w, f) \/ Summary(f, disk') = Summary(f, disk)
        /\ \A f \in Fields :
               index'[f] = IF IsReindex(w, f) THEN Summary(f, disk') ELSE index[f]
        /\ stale' <=> stale /\ w.do # "rebuilt"
    BY <1>3, <2>4 DEF SavedAlone
  <2>10. FreshBy(Tail(S), disk', index', stale')
    BY <1>2, <2>8, <2>9, TailFresh
  <2>11. \A t \in Sessions : work'[t] # <<>> => FreshBy(work'[t], disk', index', stale')
    BY <1>4, <2>2, <2>10
  <2>12. ASSUME Tail(S) = <<>>, ~stale' PROVE Fresh(disk', index')
    <3>1. Len(Tail(S)) = 0 /\ Checkpoint(Tail(S), 1) /\ 1 \in 1..(Len(Tail(S)) + 1)
      <4>1. Len(<<>>) = 0
        OBVIOUS
      <4>2. Len(Tail(S)) = 0
        BY <2>12, <4>1, Zenon
      <4> HIDE DEF S
      <4> QED BY <4>2, SMT DEF Checkpoint
    <3>2. FreshAt(Tail(S), 1, disk', index', stale')
      BY <2>10, <3>1 DEF FreshBy
    <3> QED BY <2>12, <3>2 DEF FreshAt, Fresh, Reindexed
  <2>13. \A t, u \in Sessions : t # u => work'[t] = <<>> \/ work'[u] = <<>>
    BY <2>2
  <2> QED BY <1>4, <2>5, <2>7, <2>11, <2>12, <2>13 DEF AloneInv, Idle
<1> QED BY <1>8, <1>9, <1>10 DEF RecordsInv

\* A command dies or fails, with what it wrote so far on disk.
LEMMA FailStep ==
    ASSUME RecordsInv, NEW s \in Sessions, ~Idle(s), Fail(s), disk' = disk, index' = index,
           overlapped' = overlapped, stale' \in BOOLEAN,
           ~overlapped /\ ~stale' => Fresh(disk, index)
    PROVE  RecordsInv' /\ (~overlapped => DiskKept(disk, disk'))
<1>1. RecordsTypes /\ RefsOnDisk(disk) /\ \A t \in Sessions : Referenced(work[t], disk)
  BY DEF RecordsInv
<1>2. \A t \in Sessions : work'[t] = IF t = s THEN <<>> ELSE work[t]
  BY <1>1 DEF RecordsTypes, Fail
<1>3. RecordsTypes'
  <2>1. work' \in [Sessions -> Seq(Writes)]
    BY <1>1, EmptySeq DEF RecordsTypes, Fail
  <2> QED BY <1>1, <2>1 DEF RecordsTypes
<1>4. RefsOnDisk(disk)' /\ \A t \in Sessions : Referenced(work[t], disk)'
  <2>1. Referenced(<<>>, disk)
    BY DEF Referenced
  <2> QED BY <1>1, <1>2, <2>1
<1>5. ASSUME ~overlapped PROVE AloneInv'
  <2>1. AloneInv /\ Harmless(<<>>, disk)
    BY <1>5 DEF RecordsInv, Harmless
  <2>2. \A t \in Sessions : work'[t] = <<>>
    BY <1>2, <2>1 DEF AloneInv, Idle
  <2> QED BY <1>5, <2>1, <2>2 DEF AloneInv, Idle
<1>6. ~overlapped => DiskKept(disk, disk')
  BY <1>1, KeptSame DEF RecordsTypes
<1> QED BY <1>3, <1>4, <1>5, <1>6 DEF RecordsInv

-----------------------------------------------------------------------------
(* Plans *)

\* Plans whose writes are not in each other's way make a plan.
LEMMA PlanJoin ==
    ASSUME NEW a, NEW b, Plan(a), Plan(b),
           \A j \in 1..Len(a), k \in 1..Len(b) : ~Clash(a[j], b[k])
    PROVE  Plan(a \o b)
<1>1. a \in Seq(Writes) /\ b \in Seq(Writes)
  BY DEF Plan
<1>2. a \o b \in Seq(Writes)
  BY <1>1, Joined
<1>3. Referenced(a \o b, disk)
  BY <1>1, JoinReferenced DEF Plan
<1>4. Settled(a \o b)
  BY <1>1, JoinSettled DEF Plan
<1>5. ~overlapped => Harmless(a \o b, disk)
  BY <1>1, JoinHarmless DEF Plan
<1> QED BY <1>2, <1>3, <1>4, <1>5 DEF Plan

\* A file is saved and the section of the index that is about it brought up
\* to date.
LEMMA PlanSave ==
    ASSUME NEW w \in Writes, NEW f \in Fields, ~IsCheckpoint(w),
           \A g \in Fields : Touches(w, g) => g = f, RefersTo(<<w>>, 1, disk),
           ~overlapped => Extends(w, disk)
    PROVE  Plan(<<w, Reindex({f})>>)
<1> DEFINE r == Reindex({f})
           S == <<w, r>>
<1>1. r \in Writes /\ r.do = "reindex" /\ IsReindex(r, f)
  BY WritesAre DEF Reindex, IsReindex
<1> HIDE DEF r
<1>2. S \in Seq(Writes) /\ Len(S) = 2 /\ S[1] = w /\ S[2] = r
  BY <1>1
<1> HIDE DEF S
<1>3. Referenced(S, disk)
  <2>1. RefersTo(S, 1, disk)
    BY <1>2 DEF RefersTo, Covered
  <2>2. RefersTo(S, 2, disk)
    BY <1>1, <1>2 DEF RefersTo, IsPut
  <2> QED BY <1>2, <2>1, <2>2 DEF Referenced
<1>4. Settled(S)
  <2> SUFFICES ASSUME NEW c \in 1..3, Checkpoint(S, c)
               PROVE  SettledAt(S, c) /\ ~IsRebuilt(S, c)
    BY <1>2 DEF Settled
  <2>1. c = 3
    BY <1>1, <1>2 DEF Checkpoint, IsCheckpoint
  <2>2. \A g : ~Touches(r, g)
    BY <1>1 DEF Touches, IsPut, IsRecord
  <2>3. Reindexed(S, f, 1, 3)
    BY <1>1, <1>2 DEF Reindexed
  <2>4. \A g \in Fields, j \in 1..2 : Touches(S[j], g) => j = 1 /\ g = f
    BY <1>2, <2>2
  <2>5. SettledAt(S, 3)
    BY <2>3, <2>4 DEF SettledAt
  <2> QED BY <1>2, <2>1, <2>5 DEF IsRebuilt
<1>5. ASSUME ~overlapped PROVE Harmless(S, disk)
  <2>1. Extends(r, disk) /\ ~Clash(w, r)
    BY <1>1 DEF Extends, Clash, IsPut, IsRecord
  <2> QED BY <1>2, <1>5, <2>1 DEF Harmless
<1> QED BY <1>2, <1>3, <1>4, <1>5 DEF Plan, S, r

\* A task that is saved refers to what is on disk and keeps its latest run.
TaskKept(task) ==
    /\ task \in TaskRecord /\ task.code_change_log_refs \subseteq disk.changes
    /\ task.latest_implementation_run = disk.task.latest_implementation_run

\* Saving such a task is a plan.
LEMMA PlanSaveTask ==
    ASSUME NEW task, TaskKept(task)
    PROVE  Plan(save_task(task))
<1> DEFINE w == Put("task", task)
<1>1. w \in Writes
  BY WritesAre DEF TaskKept
<1>2. w.do = "put" /\ w.part = "task" /\ w.value = task
  BY DEF Put
<1> HIDE DEF w
<1>3. "task" \in Fields /\ ~IsCheckpoint(w) /\ \A g \in Fields : Touches(w, g) => g = "task"
  BY <1>2 DEF Fields, IsCheckpoint, Touches, IsPut, IsRecord
<1>4. RefersTo(<<w>>, 1, disk)
  BY <1>2 DEF RefersTo, Covered, IsPut, TaskKept
<1>5. Extends(w, disk)
  BY <1>2 DEF Extends, IsPut, IsRecord, TaskKept
<1>6. Plan(<<w, Reindex({"task"})>>)
  BY <1>1, <1>3, <1>4, <1>5, PlanSave
<1> QED BY <1>6 DEF save_task, w

\* A plan may go on to save the task, unless it enters a stage.
LEMMA ThenSaveTask ==
    ASSUME NEW a, Plan(a), \A j \in 1..Len(a) : a[j].do # "enter",
           NEW task, TaskKept(task)
    PROVE  Plan(a \o save_task(task))
<1> DEFINE b == save_task(task)
<1>1. Plan(b)
  BY PlanSaveTask
<1>2. Len(b) = 2 /\ b[1] = Put("task", task) /\ b[2] = Reindex({"task"})
  BY DEF save_task
<1> HIDE DEF b
<1>3. ASSUME NEW j \in 1..Len(a), NEW k \in 1..Len(b) PROVE ~Clash(a[j], b[k])
  <2>1. k = 1 \/ k = 2
    BY <1>2
  <2>2. /\ \A part \in {"run", "todos", "links"} : ~IsPut(b[k], part)
        /\ b[k].do # "write_lock"
    BY <1>2, <2>1 DEF Put, Reindex, IsPut
  <2> QED BY <2>2 DEF Clash
<1> QED BY <1>1, <1>3, PlanJoin DEF b

\* A script without checkpoints in it, or settled at them, makes a plan when
\* a rebuild follows.
LEMMA ThenRebuild ==
    ASSUME NEW a \in Seq(Writes), Referenced(a, disk), ~overlapped => Harmless(a, disk),
           \A c \in 1..Len(a) : IsCheckpoint(a[c]) => SettledAt(a, c) /\ a[c].do # "rebuilt"
    PROVE  Plan(a \o rebuild_v2_indexes)
<1> DEFINE b == rebuild_v2_indexes
<1>1. b \in Seq(Writes) /\ Len(b) = 4
  BY PiecesAre
<1>2. /\ b[1] = Reindex({"deps"}) /\ b[2] = Reindex({"task"})
      /\ b[3] = Reindex({"run", "todos", "handoffs", "reviews", "lock"})
      /\ b[4] = [do |-> "rebuilt"]
  BY PiecesAre
<1>3. Settled(a \o b)
  BY RebuildSettles
<1> HIDE DEF b
<1>4. \A k \in 1..Len(b) : b[k].do \in {"reindex", "rebuilt"}
  BY <1>1, <1>2 DEF Reindex
<1>5. \A k \in 1..Len(b) : Extends(b[k], disk) /\ RefersTo(b, k, disk)
  BY <1>4 DEF Extends, RefersTo, IsPut, IsRecord
<1>6. \A v : \A k \in 1..Len(b) : ~Clash(v, b[k])
  BY <1>4 DEF Clash, IsPut
<1>7. Referenced(b, disk) /\ Harmless(b, disk)
  BY <1>5, <1>6 DEF Referenced, Harmless
<1>8. a \o b \in Seq(Writes) /\ Referenced(a \o b, disk)
  BY <1>1, <1>7, Joined, JoinReferenced
<1>9. ~overlapped => Harmless(a \o b, disk)
  BY <1>1, <1>6, <1>7, JoinHarmless
<1> QED BY <1>3, <1>8, <1>9 DEF Plan, b

-----------------------------------------------------------------------------
(* Commands *)

\* What a command finds when it begins.
Found ==
    /\ disk \in Store /\ RefsOnDisk(disk) /\ (~overlapped => HandoffsFocus(disk))

\* A run to save: it keeps what the run has and refers to records on disk.
RunPlanned(run) ==
    /\ run \in TaskRunRecord /\ RunKept(disk.run, run)
    /\ run.change_refs \subseteq disk.changes /\ run.check_refs \subseteq disk.checks

\* The invariant gives what a command finds.
LEMMA WhatIsFound ==
    ASSUME RecordsInv
    PROVE  Found /\ TaskKept(disk.task) /\ RunPlanned(disk.run)
<1>1. disk \in Store /\ RefsOnDisk(disk)
  BY DEF RecordsInv, RecordsTypes
<1>2. disk.task \in TaskRecord /\ disk.run \in TaskRunRecord
  BY <1>1 DEF Store
<1>3. RunKept(disk.run, disk.run)
  BY <1>1, KeptSame DEF DiskKept
<1> QED BY <1>1, <1>2, <1>3 DEF Found, TaskKept, RunPlanned, RecordsInv, AloneInv, RefsOnDisk

\* Saving such a run is a plan.
LEMMA PlanSaveRun ==
    ASSUME NEW run, RunPlanned(run)
    PROVE  /\ Plan(save_run(run))
           /\ Len(save_run(run)) = 2
           /\ save_run(run)[1] = Put("run", run) /\ save_run(run)[2] = Reindex({"run"})
<1> DEFINE w == Put("run", run)
<1>1. w \in Writes
  BY WritesAre DEF RunPlanned
<1>2. w.do = "put" /\ w.part = "run" /\ w.value = run
  BY DEF Put
<1> HIDE DEF w
<1>3. "run" \in Fields /\ ~IsCheckpoint(w) /\ \A g \in Fields : Touches(w, g) => g = "run"
  BY <1>2 DEF Fields, IsCheckpoint, Touches, IsPut, IsRecord
<1>4. RefersTo(<<w>>, 1, disk)
  BY <1>2 DEF RefersTo, Covered, IsPut, RunPlanned
<1>5. Extends(w, disk)
  BY <1>2 DEF Extends, IsPut, IsRecord, RunPlanned
<1>6. Plan(<<w, Reindex({"run"})>>)
  BY <1>1, <1>3, <1>4, <1>5, PlanSave
<1> QED BY <1>6 DEF save_run, w

\* The run after one more entry of its worklog.
LEMMA PlanLog ==
    ASSUME RecordsInv, NEW s \in Sessions, log_implementation(s)
    PROVE  \E S : Plan(S) /\ Begin(s, S)
<1> DEFINE run == [disk.run EXCEPT !.worklog = @ + 1]
<1>1. RunPlanned(disk.run) /\ disk.run \in TaskRunRecord
  BY WhatIsFound DEF RunPlanned
<1>2. run \in TaskRunRecord /\ run.worklog >= disk.run.worklog
  BY <1>1, RecordsAssumption DEF log_implementation, TaskRunRecord
<1>3. run.change_refs = disk.run.change_refs /\ run.check_refs = disk.run.check_refs
  BY <1>1 DEF TaskRunRecord
<1> HIDE DEF run
<1>4. RunPlanned(run)
  BY <1>1, <1>2, <1>3 DEF RunPlanned, RunKept
<1> QED BY <1>4, PlanSaveRun DEF log_implementation, run

\* Short scripts, written out.
LEMMA WrittenOut ==
    ASSUME NEW x1, NEW x2, NEW x3, NEW x4, NEW x5
    PROVE  /\ <<x1>> \o <<x2, x3>> = <<x1, x2, x3>>
           /\ <<x1, x2, x3>> \o <<x4, x5>> = <<x1, x2, x3, x4, x5>>
<1> DEFINE T == {x1, x2, x3, x4, x5}
           a == <<x1>>
           b == <<x2, x3>>
           c == <<x1, x2, x3>>
           d == <<x4, x5>>
           e == <<x1, x2, x3, x4, x5>>
<1>1. /\ a \in Seq(T) /\ Len(a) = 1 /\ a[1] = x1
      /\ b \in Seq(T) /\ Len(b) = 2 /\ b[1] = x2 /\ b[2] = x3
  OBVIOUS
<1>2. c \in Seq(T) /\ Len(c) = 3 /\ c[1] = x1 /\ c[2] = x2 /\ c[3] = x3
  OBVIOUS
<1>3. d \in Seq(T) /\ Len(d) = 2 /\ d[1] = x4 /\ d[2] = x5
  OBVIOUS
<1>4. e \in Seq(T) /\ Len(e) = 5 /\ e[1] = x1 /\ e[2] = x2 /\ e[3] = x3 /\ e[4] = x4 /\ e[5] = x5
  OBVIOUS
<1> HIDE DEF T, a, b, c, d, e
<1>5. a \o b = c
  <2>1. /\ a \o b \in Seq(T) /\ Len(a \o b) = 3
        /\ \A i \in 1..3 : (a \o b)[i] = IF i <= 1 THEN a[i] ELSE b[i - 1]
    BY <1>1, ConcatProperties
  <2>2. \A i \in 1..3 : (a \o b)[i] = c[i]
    <3>1. \A i \in 1..3 : i = 1 \/ i = 2 \/ i = 3
      OBVIOUS
    <3>2. (a \o b)[1] = a[1] /\ (a \o b)[2] = b[2 - 1] /\ (a \o b)[3] = b[3 - 1]
      BY <2>1
    <3>3. (a \o b)[1] = c[1] /\ (a \o b)[2] = c[2] /\ (a \o b)[3] = c[3]
      BY <1>1, <1>2, <3>2
    <3> QED BY <3>1, <3>3, Zenon
  <2> QED BY <1>2, <2>1, <2>2, SeqEqual
<1>6. c \o d = e
  <2>1. /\ c \o d \in Seq(T) /\ Len(c \o d) = 5
        /\ \A i \in 1..5 : (c \o d)[i] = IF i <= 3 THEN c[i] ELSE d[i - 3]
    <3>1. c \in Seq(T) /\ d \in Seq(T) /\ Len(c) = 3 /\ Len(d) = 2
      BY <1>2, <1>3
    <3>2. /\ c \o d \in Seq(T) /\ Len(c \o d) = Len(c) + Len(d)
          /\ \A i \in 1..(Len(c) + Len(d)) :
                 (c \o d)[i] = IF i <= Len(c) THEN c[i] ELSE d[i - Len(c)]
      BY <3>1, ConcatProperties
    <3>3. Len(c) + Len(d) = 5
      BY <3>1
    <3> QED BY <3>1, <3>2, <3>3
  <2>2. \A i \in 1..5 : (c \o d)[i] = e[i]
    <3>1. \A i \in 1..5 : i = 1 \/ i = 2 \/ i = 3 \/ i = 4 \/ i = 5
      OBVIOUS
    <3>2. /\ (c \o d)[1] = c[1] /\ (c \o d)[2] = c[2] /\ (c \o d)[3] = c[3]
          /\ (c \o d)[4] = d[4 - 3] /\ (c \o d)[5] = d[5 - 3]
      BY <2>1
    <3>3. /\ (c \o d)[1] = e[1] /\ (c \o d)[2] = e[2] /\ (c \o d)[3] = e[3]
          /\ (c \o d)[4] = e[4] /\ (c \o d)[5] = e[5]
      BY <1>2, <1>3, <1>4, <3>2
    <3> QED BY <3>1, <3>3, Zenon
  <2> QED BY <1>4, <2>1, <2>2, SeqEqual
<1> QED BY <1>5, <1>6 DEF a, b, c, d, e

\* A record is saved before anything refers to it.
LEMMA PlanAddRecord ==
    ASSUME RecordsInv, NEW part \in {"changes", "checks"}, NEW i \in Ids,
           NEW run, run \in TaskRunRecord, RunKept(disk.run, run),
           run.change_refs \subseteq
               disk.changes \cup (IF part = "changes" THEN {i} ELSE {}),
           run.check_refs \subseteq
               disk.checks \cup (IF part = "checks" THEN {i} ELSE {}),
           NEW task, task \in TaskRecord,
           task.latest_implementation_run = disk.task.latest_implementation_run,
           task.code_change_log_refs \subseteq
               disk.changes \cup (IF part = "changes" THEN {i} ELSE {})
    PROVE  Plan((<<Record(part, {i})>> \o save_run(run)) \o save_task(task))
<1> DEFINE r == Record(part, {i})
           w == Put("run", run)
           v == Put("task", task)
           S == <<r, w, Reindex({"run"}), v, Reindex({"task"})>>
<1>1. (<<r>> \o save_run(run)) \o save_task(task) = S
  <2>1. save_run(run) = <<w, Reindex({"run"})>> /\ save_task(task) = <<v, Reindex({"task"})>>
    BY DEF save_run, save_task
  <2>2. /\ <<r>> \o <<w, Reindex({"run"})>> = <<r, w, Reindex({"run"})>>
        /\ <<r, w, Reindex({"run"})>> \o <<v, Reindex({"task"})>> = S
    <3> HIDE DEF r, w, v
    <3> QED BY WrittenOut
  <2> QED BY <2>1, <2>2, Zenon
<1>2. /\ r \in Writes /\ r.do = "record" /\ r.part = part /\ r.value = {i}
      /\ w \in Writes /\ w.do = "put" /\ w.part = "run" /\ w.value = run
      /\ v \in Writes /\ v.do = "put" /\ v.part = "task" /\ v.value = task
  <2>1. r \in Writes /\ w \in Writes /\ v \in Writes
    BY WritesAre
  <2> QED BY <2>1 DEF Record, Put
<1>3. /\ Reindex({"run"}) \in Writes /\ Reindex({"run"}).do = "reindex"
      /\ IsReindex(Reindex({"run"}), "run")
      /\ Reindex({"task"}) \in Writes /\ Reindex({"task"}).do = "reindex"
      /\ IsReindex(Reindex({"task"}), "task")
  <2>1. Reindex({"run"}) \in Writes /\ Reindex({"task"}) \in Writes
    BY WritesAre DEF Fields
  <2> QED BY <2>1 DEF Reindex, IsReindex
<1> HIDE DEF r, w, v
<1>4. /\ S \in Seq(Writes) /\ Len(S) = 5 /\ S[1] = r /\ S[2] = w
      /\ S[3] = Reindex({"run"}) /\ S[4] = v /\ S[5] = Reindex({"task"})
  BY <1>2, <1>3
<1> HIDE DEF S
<1>5. \A j \in 1..5 : j = 1 \/ j = 2 \/ j = 3 \/ j = 4 \/ j = 5
  OBVIOUS
<1>6. Referenced(S, disk)
  <2>1. \A j \in 2..5 : \A x, there : x \in there \/ x = i => Covered(S, j, x, part, there)
    <3>1. \A j \in 2..5 : 1 \in 1..(j - 1)
      OBVIOUS
    <3>2. IsRecord(S[1], part) /\ \A x : x = i => x \in S[1].value
      BY <1>2, <1>4 DEF IsRecord
    <3> QED BY <3>1, <3>2 DEF Covered
  <2>2. \A j \in 2..5 : \A x, p, there : x \in there => Covered(S, j, x, p, there)
    BY DEF Covered
  <2>3. RefersTo(S, 1, disk) /\ RefersTo(S, 3, disk) /\ RefersTo(S, 5, disk)
    BY <1>2, <1>3, <1>4 DEF RefersTo, IsPut
  <2>4. RefersTo(S, 2, disk)
    BY <1>2, <1>4, <2>1, <2>2 DEF RefersTo, IsPut
  <2>5. RefersTo(S, 4, disk)
    BY <1>2, <1>4, <2>1, <2>2 DEF RefersTo, IsPut
  <2> QED BY <1>4, <1>5, <2>3, <2>4, <2>5 DEF Referenced
<1>7. Settled(S)
  <2> SUFFICES ASSUME NEW c \in 1..6, Checkpoint(S, c)
               PROVE  SettledAt(S, c) /\ ~IsRebuilt(S, c)
    BY <1>4 DEF Settled
  <2>1. c = 6
    BY <1>2, <1>3, <1>4, <1>5 DEF Checkpoint, IsCheckpoint
  <2>2. Reindexed(S, "run", 2, 6) /\ Reindexed(S, "task", 4, 6)
    BY <1>3, <1>4 DEF Reindexed
  <2>3. \A g \in Fields, j \in 1..5 :
            Touches(S[j], g) => (j = 2 /\ g = "run") \/ (j = 4 /\ g = "task")
    BY <1>2, <1>3, <1>4, <1>5 DEF Touches, IsPut, IsRecord
  <2>4. SettledAt(S, 6)
    BY <2>2, <2>3 DEF SettledAt
  <2> QED BY <1>4, <2>1, <2>4 DEF IsRebuilt
<1>8. Harmless(S, disk)
  <2>1. \A j \in 1..5 : Extends(S[j], disk)
    BY <1>2, <1>3, <1>4, <1>5 DEF Extends, IsPut, IsRecord
  <2>2. \A j, k \in 1..5 : j < k => ~Clash(S[j], S[k])
    BY <1>2, <1>3, <1>4, <1>5 DEF Clash, IsPut
  <2> QED BY <1>4, <2>1, <2>2 DEF Harmless
<1> QED BY <1>1, <1>4, <1>6, <1>7, <1>8 DEF Plan, r

\* A change is logged.
LEMMA PlanAddChange ==
    ASSUME RecordsInv, NEW s \in Sessions, add_change(s)
    PROVE  \E S : Plan(S) /\ Begin(s, S)
<1> DEFINE i == next_project_id(disk.changes)
           run == [disk.run EXCEPT !.change_refs = @ \cup {i}]
           task == [disk.task EXCEPT !.code_change_log_refs = @ \cup {i}]
<1>1. i \in Ids /\ Begin(s, add_change_script(i))
  BY DEF add_change
<1>2. /\ RefsOnDisk(disk) /\ disk.run \in TaskRunRecord /\ disk.task \in TaskRecord
      /\ RunKept(disk.run, disk.run)
  BY WhatIsFound DEF Found, RunPlanned, TaskKept
<1> HIDE DEF i
<1>3. /\ run \in TaskRunRecord /\ run.change_refs = disk.run.change_refs \cup {i}
      /\ run.check_refs = disk.run.check_refs /\ run.worklog = disk.run.worklog
  BY <1>1, <1>2 DEF TaskRunRecord
<1>4. /\ task \in TaskRecord
      /\ task.latest_implementation_run = disk.task.latest_implementation_run
      /\ task.code_change_log_refs = disk.task.code_change_log_refs \cup {i}
  BY <1>1, <1>2 DEF TaskRecord
<1>5. add_change_script(i) = (<<Record("changes", {i})>> \o save_run(run)) \o save_task(task)
  BY DEF add_change_script, save_change
<1> HIDE DEF run, task
<1>6. RunKept(disk.run, run)
  BY <1>2, <1>3 DEF RunKept
<1>7. Plan((<<Record("changes", {i})>> \o save_run(run)) \o save_task(task))
  BY <1>1, <1>2, <1>3, <1>4, <1>6, PlanAddRecord DEF RefsOnDisk
<1> QED BY <1>1, <1>5, <1>7

\* A check is recorded; the task is saved as it is.
LEMMA PlanAddCheck ==
    ASSUME RecordsInv, NEW s \in Sessions, add_check(s)
    PROVE  \E S : Plan(S) /\ Begin(s, S)
<1> DEFINE i == next_project_id(disk.checks)
           run == [disk.run EXCEPT !.check_refs = @ \cup {i}]
           task == disk.task
           S == (<<Record("checks", {i})>> \o save_run(run)) \o save_task(task)
<1>1. i \in Ids /\ Begin(s, S)
  BY DEF add_check, save_check
<1>2. /\ RefsOnDisk(disk) /\ disk.run \in TaskRunRecord /\ disk.task \in TaskRecord
      /\ RunKept(disk.run, disk.run)
  BY WhatIsFound DEF Found, RunPlanned, TaskKept
<1> HIDE DEF i
<1>3. /\ run \in TaskRunRecord /\ run.check_refs = disk.run.check_refs \cup {i}
      /\ run.change_refs = disk.run.change_refs /\ run.worklog = disk.run.worklog
  BY <1>1, <1>2 DEF TaskRunRecord
<1> HIDE DEF run
<1>6. RunKept(disk.run, run)
  BY <1>2, <1>3 DEF RunKept
<1>7. Plan(S)
  BY <1>1, <1>2, <1>3, <1>6, PlanAddRecord DEF RefsOnDisk
<1> QED BY <1>1, <1>7

\* A code review is recorded.
LEMMA PlanReview ==
    ASSUME RecordsInv, NEW s \in Sessions, record_code_review(s)
    PROVE  \E S : Plan(S) /\ Begin(s, S)
<1> DEFINE i == next_project_id(disk.reviews)
           w == Record("reviews", {i})
           a == <<w, Reindex({"reviews"})>>
<1>1. i \in Ids /\ Begin(s, a \o save_task(disk.task))
  BY DEF record_code_review, save_code_review
<1>2. w \in Writes /\ w.do = "record" /\ w.part = "reviews"
  <2>1. w \in Writes
    BY <1>1, WritesAre
  <2> QED BY <2>1 DEF Record
<1> HIDE DEF w
<1>3. /\ "reviews" \in Fields /\ ~IsCheckpoint(w) /\ RefersTo(<<w>>, 1, disk)
      /\ \A g \in Fields : Touches(w, g) => g = "reviews"
      /\ Extends(w, disk)
  BY <1>2 DEF Fields, IsCheckpoint, RefersTo, Touches, Extends, IsPut, IsRecord
<1>4. Plan(a)
  BY <1>2, <1>3, PlanSave
<1>5. \A j \in 1..Len(a) : a[j].do # "enter"
  BY <1>2 DEF Reindex
<1>6. Plan(a \o save_task(disk.task))
  BY <1>4, <1>5, WhatIsFound, ThenSaveTask
<1> QED BY <1>1, <1>6

\* Collections of todos that keep what there is are saved, and the task after.
LEMMA PlanSaveTodos ==
    ASSUME RecordsInv, NEW todos \in Partial(Ids, TaskTodo), TodosKept(disk.todos, todos)
    PROVE  Plan(save_todos(todos) \o save_task(disk.task))
<1> DEFINE w == Put("todos", todos)
           a == <<w, Reindex({"todos"})>>
<1>1. w \in Writes /\ w.do = "put" /\ w.part = "todos" /\ w.value = todos
  <2>1. w \in Writes
    BY WritesAre
  <2> QED BY <2>1 DEF Put
<1>2. a = save_todos(todos)
  BY DEF save_todos
<1> HIDE DEF w
<1>3. /\ "todos" \in Fields /\ ~IsCheckpoint(w) /\ RefersTo(<<w>>, 1, disk)
      /\ \A g \in Fields : Touches(w, g) => g = "todos"
      /\ Extends(w, disk)
  BY <1>1 DEF Fields, IsCheckpoint, RefersTo, Touches, Extends, IsPut, IsRecord
<1>4. Plan(a)
  BY <1>1, <1>3, PlanSave
<1>5. \A j \in 1..Len(a) : a[j].do # "enter"
  BY <1>1 DEF Reindex
<1>6. Plan(a \o save_task(disk.task))
  BY <1>4, <1>5, WhatIsFound, ThenSaveTask
<1> QED BY <1>2, <1>6

\* A todo changes in place, and its evidence does not go down.
LEMMA PlanToggle ==
    ASSUME RecordsInv, NEW s \in Sessions, set_todo_done(s)
    PROVE  \E S : Plan(S) /\ Begin(s, S)
<1>1. PICK i \in DOMAIN disk.todos, done \in BOOLEAN, evidence \in BOOLEAN :
          LET todo == ToggledTodo(disk.todos[i], done, evidence)
          IN  /\ todo.evidence <= MaxRecords
              /\ Begin(s, save_todos([disk.todos EXCEPT ![i] = todo]) \o save_task(disk.task))
  BY DEF set_todo_done
<1> DEFINE old == disk.todos[i]
           todo == ToggledTodo(old, done, evidence)
           todos == [disk.todos EXCEPT ![i] = todo]
<1>2. disk.todos \in Partial(Ids, TaskTodo)
  BY WhatIsFound DEF Found, Store
<1>3. old \in TaskTodo /\ \A k \in DOMAIN disk.todos : disk.todos[k] \in TaskTodo
  BY <1>2 DEF Partial
<1>4. old.evidence \in Nat /\ \A t \in TaskTodo : t.evidence >= t.evidence
  BY <1>3, RecordsAssumption DEF TaskTodo
<1>5. /\ todo.evidence \in Nat /\ todo.evidence >= old.evidence
      /\ todo = [done |-> done, evidence |-> todo.evidence]
  BY <1>4 DEF ToggledTodo
<1>6. todo \in TaskTodo
  BY <1>1, <1>5, RecordsAssumption DEF TaskTodo
<1> HIDE DEF todo
<1>7. todos \in Partial(Ids, TaskTodo)
  BY <1>2, <1>6 DEF Partial
<1>8. TodosKept(disk.todos, todos)
  BY <1>3, <1>4, <1>5 DEF TodosKept
<1>9. Begin(s, save_todos(todos) \o save_task(disk.task))
  BY <1>1 DEF todo
<1> HIDE DEF todos
<1> QED BY <1>7, <1>8, <1>9, PlanSaveTodos

-----------------------------------------------------------------------------
(* Commands that rebuild the indexes *)

\* The writes that end nothing.
Quiet == {"put", "record", "reindex", "write_lock", "remove_lock", "enter"}

Sound(S) ==
    /\ S \in Seq(Writes) /\ Referenced(S, disk) /\ (~overlapped => Harmless(S, disk))
    /\ \A j \in 1..Len(S) : S[j].do \in Quiet

\* One write that refers to what is on disk.
LEMMA SoundOne ==
    ASSUME NEW w \in Writes, w.do \in Quiet, RefersTo(<<w>>, 1, disk),
           ~overlapped => Extends(w, disk)
    PROVE  Sound(<<w>>)
<1> DEFINE S == <<w>>
<1>1. S \in Seq(Writes) /\ Len(S) = 1 /\ S[1] = w /\ RefersTo(S, 1, disk)
  OBVIOUS
<1> HIDE DEF S
<1>2. Referenced(S, disk) /\ (~overlapped => Harmless(S, disk))
  BY <1>1 DEF Referenced, Harmless
<1> QED BY <1>1, <1>2 DEF Sound, S

\* Saving a file is sound.
LEMMA SoundSave ==
    ASSUME NEW w \in Writes, NEW f, Plan(<<w, Reindex({f})>>), w.do \in Quiet
    PROVE  Sound(<<w, Reindex({f})>>)
<1>1. Reindex({f}).do \in Quiet
  BY DEF Reindex, Quiet
<1>2. \A j \in 1..2 : <<w, Reindex({f})>>[j].do \in Quiet
  BY <1>1
<1> QED BY <1>2 DEF Sound, Plan

\* Saving the task is sound.
LEMMA SoundSaveTask ==
    ASSUME NEW task, TaskKept(task)
    PROVE  Sound(save_task(task))
<1>1. Put("task", task) \in Writes
  BY WritesAre DEF TaskKept
<1>2. Plan(<<Put("task", task), Reindex({"task"})>>)
  BY PlanSaveTask DEF save_task
<1>3. Put("task", task).do \in Quiet
  BY DEF Put, Quiet
<1> QED BY <1>1, <1>2, <1>3, SoundSave DEF save_task

\* Sound scripts that are not in each other's way.
LEMMA SoundJoin ==
    ASSUME NEW a, NEW b, Sound(a), Sound(b),
           \A j \in 1..Len(a), k \in 1..Len(b) : ~Clash(a[j], b[k])
    PROVE  Sound(a \o b)
<1>1. a \in Seq(Writes) /\ b \in Seq(Writes)
  BY DEF Sound
<1>2. /\ a \o b \in Seq(Writes) /\ Len(a) \in Nat /\ Len(b) \in Nat
      /\ Len(a \o b) = Len(a) + Len(b)
      /\ \A j \in 1..Len(a) : (a \o b)[j] = a[j]
      /\ \A j \in (Len(a) + 1)..Len(a \o b) :
             j - Len(a) \in 1..Len(b) /\ (a \o b)[j] = b[j - Len(a)]
  BY <1>1, Joined
<1>3. Referenced(a \o b, disk)
  BY <1>1, JoinReferenced DEF Sound
<1>4. ~overlapped => Harmless(a \o b, disk)
  BY <1>1, JoinHarmless DEF Sound
<1>5. \A j \in 1..Len(a \o b) : (a \o b)[j].do \in Quiet
  <2> TAKE j \in 1..Len(a \o b)
  <2>1. j \in 1..Len(a) \/ j \in (Len(a) + 1)..Len(a \o b)
    BY <1>2
  <2> QED BY <1>2, <2>1 DEF Sound
<1> QED BY <1>2, <1>3, <1>4, <1>5 DEF Sound

\* A sound script may go on to save the task, unless it enters a stage.
LEMMA SoundThenSaveTask ==
    ASSUME NEW a, Sound(a), \A j \in 1..Len(a) : a[j].do # "enter",
           NEW task, TaskKept(task)
    PROVE  Sound(a \o save_task(task))
<1> DEFINE b == save_task(task)
<1>1. Sound(b)
  BY SoundSaveTask
<1>2. Len(b) = 2 /\ b[1] = Put("task", task) /\ b[2] = Reindex({"task"})
  BY DEF save_task
<1> HIDE DEF b
<1>3. ASSUME NEW j \in 1..Len(a), NEW k \in 1..Len(b) PROVE ~Clash(a[j], b[k])
  <2>1. k = 1 \/ k = 2
    BY <1>2
  <2>2. /\ \A part \in {"run", "todos", "links"} : ~IsPut(b[k], part)
        /\ b[k].do # "write_lock"
    BY <1>2, <2>1 DEF Put, Reindex, IsPut
  <2> QED BY <2>2 DEF Clash
<1> QED BY <1>1, <1>3, SoundJoin DEF b

\* A sound script may go on to rebuild the indexes, and is a plan then.
LEMMA SoundThenRebuild ==
    ASSUME NEW a, Sound(a)
    PROVE  Plan(a \o rebuild_v2_indexes)
<1>1. \A c \in 1..Len(a) : ~IsCheckpoint(a[c])
  BY DEF Sound, Quiet, IsCheckpoint
<1> QED BY <1>1, ThenRebuild DEF Sound

\* Whatever is put in the place of one part, the task is saved and the indexes
\* are rebuilt.
LEMMA PlanCollection ==
    ASSUME RecordsInv, NEW w \in Writes, w.do = "put", w.part \in {"reqs", "links"},
           w.part = "links" => LinksKept(disk.links, w.value)
    PROVE  Plan((<<w>> \o save_task(disk.task)) \o rebuild_v2_indexes)
<1>1. w.do \in Quiet /\ w.do # "enter" /\ RefersTo(<<w>>, 1, disk) /\ Extends(w, disk)
  BY DEF Quiet, RefersTo, Extends, IsPut, IsRecord
<1>2. Sound(<<w>>)
  BY <1>1, SoundOne
<1>3. \A j \in 1..Len(<<w>>) : <<w>>[j].do # "enter"
  BY <1>1
<1>4. Sound(<<w>> \o save_task(disk.task))
  BY <1>2, <1>3, WhatIsFound, SoundThenSaveTask
<1> QED BY <1>4, SoundThenRebuild

\* Partial functions with a value changed, with the same value everywhere, and
\* with a smaller domain.
LEMMA PartialMade ==
    ASSUME NEW D, NEW R, NEW F \in Partial(D, R)
    PROVE  /\ DOMAIN F \subseteq D
           /\ \A k \in D, v \in R : With(F, k, v) \in Partial(D, R)
           /\ \A T \in SUBSET D, v \in R : [x \in T |-> v] \in Partial(D, R)
           /\ \A k \in D : [x \in DOMAIN F \ {k} |-> F[x]] \in Partial(D, R)
<1>1. PICK T \in SUBSET D : F \in [T -> R]
  BY DEF Partial
<1>2. \A U \in SUBSET D : \A G \in [U -> R] : G \in Partial(D, R)
  BY DEF Partial
<1>3. DOMAIN F = T
  BY <1>1
<1>4. ASSUME NEW k \in D, NEW v \in R PROVE With(F, k, v) \in Partial(D, R)
  <2>1. With(F, k, v) \in [T \cup {k} -> R]
    BY <1>1 DEF With
  <2> QED BY <1>2, <2>1
<1>5. ASSUME NEW U \in SUBSET D, NEW v \in R PROVE [x \in U |-> v] \in Partial(D, R)
  BY <1>2
<1>6. ASSUME NEW k \in D PROVE [x \in DOMAIN F \ {k} |-> F[x]] \in Partial(D, R)
  <2>1. [x \in DOMAIN F \ {k} |-> F[x]] \in [T \ {k} -> R]
    BY <1>1
  <2> QED BY <1>2, <2>1
<1> QED BY <1>3, <1>4, <1>5, <1>6

\* Requirements are added, removed and waived.
LEMMA PlanRequirements ==
    ASSUME RecordsInv, NEW s \in Sessions,
           add_requirement(s) \/ remove_requirement(s) \/ waive_requirement(s)
    PROVE  \E S : Plan(S) /\ Begin(s, S)
<1>1. disk.reqs \in Partial(Tasks, BOOLEAN)
  BY WhatIsFound DEF Found, Store
<1>2. PICK reqs \in Partial(Tasks, BOOLEAN) : SaveRequirements(s, reqs)
  <2>1. /\ DOMAIN disk.reqs \subseteq Tasks
        /\ \A t \in Tasks, b \in BOOLEAN : With(disk.reqs, t, b) \in Partial(Tasks, BOOLEAN)
        /\ \A T \in SUBSET Tasks, b \in BOOLEAN : [r \in T |-> b] \in Partial(Tasks, BOOLEAN)
    BY <1>1, PartialMade, Zenon
  <2>2. /\ \A t \in Tasks : DOMAIN disk.reqs \cup {t} \in SUBSET Tasks
        /\ \A t \in DOMAIN disk.reqs : DOMAIN disk.reqs \ {t} \in SUBSET Tasks
    BY <2>1
  <2>3. /\ \A t \in Tasks :
               [r \in DOMAIN disk.reqs \cup {t} |-> FALSE] \in Partial(Tasks, BOOLEAN)
        /\ \A t \in DOMAIN disk.reqs :
               [r \in DOMAIN disk.reqs \ {t} |-> FALSE] \in Partial(Tasks, BOOLEAN)
        /\ \A t \in Tasks : With(disk.reqs, t, TRUE) \in Partial(Tasks, BOOLEAN)
    BY <2>1, <2>2, Zenon
  <2> QED BY <2>3, Zenon DEF add_requirement, remove_requirement, waive_requirement
<1> DEFINE w == Put("reqs", reqs)
<1>3. w \in Writes /\ w.do = "put" /\ w.part = "reqs"
  <2>1. w \in Writes
    BY WritesAre
  <2> QED BY <2>1 DEF Put
<1>4. Begin(s, (<<w>> \o save_task(disk.task)) \o rebuild_v2_indexes)
  BY <1>2 DEF SaveRequirements, save_requirements
<1> HIDE DEF w
<1>5. Plan((<<w>> \o save_task(disk.task)) \o rebuild_v2_indexes)
  BY <1>3, PlanCollection
<1> QED BY <1>4, <1>5

\* Links that keep what there is, but for one, are saved.
LEMMA PlanSaveLinks ==
    ASSUME RecordsInv, NEW s \in Sessions, NEW links \in Partial(Paths, BOOLEAN),
           LinksKept(disk.links, links), SaveLinks(s, links)
    PROVE  \E S : Plan(S) /\ Begin(s, S)
<1> DEFINE w == Put("links", links)
<1>1. w \in Writes /\ w.do = "put" /\ w.part = "links" /\ w.value = links
  <2>1. w \in Writes
    BY WritesAre
  <2> QED BY <2>1 DEF Put
<1>2. Begin(s, (<<w>> \o save_task(disk.task)) \o rebuild_v2_indexes)
  BY DEF SaveLinks, save_links
<1> HIDE DEF w
<1>3. Plan((<<w>> \o save_task(disk.task)) \o rebuild_v2_indexes)
  BY <1>1, PlanCollection
<1> QED BY <1>2, <1>3

\* Links over the same files, or fewer by one, are kept.
LEMMA LinksCount ==
    ASSUME NEW old, NEW new, NEW path, DOMAIN old \ DOMAIN new \subseteq {path},
           \A p \in DOMAIN old \cap DOMAIN new : old[p] => new[p]
    PROVE  LinksKept(old, new)
<1> DEFINE T == DOMAIN old \ DOMAIN new
<1>1. IsFiniteSet({path}) /\ Cardinality({path}) = 1
  BY FS_Singleton
<1>2. T \in SUBSET {path}
  OBVIOUS
<1> HIDE DEF T
<1>3. IsFiniteSet(T) /\ Cardinality(T) <= Cardinality({path})
  BY <1>1, <1>2, FS_Subset
<1>4. Cardinality(T) <= 1
  BY <1>1, <1>3
<1> QED BY <1>4 DEF LinksKept, T

\* A link is added, removed or given a baseline.
LEMMA PlanLinks ==
    ASSUME RecordsInv, NEW s \in Sessions,
           add_file_link(s) \/ remove_file_link(s) \/ refresh_file_baseline(s)
    PROVE  \E S : Plan(S) /\ Begin(s, S)
<1>1. disk.links \in Partial(Paths, BOOLEAN)
  BY WhatIsFound DEF Found, Store
<1>2. CASE add_file_link(s)
  <2>1. PICK path \in Paths, snapshot \in {"yes", "no", "unsaid"} :
            SaveLinks(s, With(disk.links, path, LinkBaseline(path, snapshot)))
    BY <1>2 DEF add_file_link
  <2>2. LinkBaseline(path, snapshot) \in BOOLEAN
    BY <1>1 DEF LinkBaseline, Partial
  <2>3. path \in DOMAIN disk.links /\ disk.links[path] => LinkBaseline(path, snapshot)
    BY DEF LinkBaseline
  <2> DEFINE b == LinkBaseline(path, snapshot)
             links == With(disk.links, path, b)
  <2> HIDE DEF b
  <2>4. links \in Partial(Paths, BOOLEAN)
    BY <1>1, <2>2, PartialMade, Zenon DEF b
  <2>5. DOMAIN links = DOMAIN disk.links \cup {path}
    BY DEF With
  <2>6. \A p \in DOMAIN disk.links \cap DOMAIN links : disk.links[p] => links[p]
    <3>1. \A p \in DOMAIN links : links[p] = IF p = path THEN b ELSE disk.links[p]
      BY DEF With
    <3> HIDE DEF links
    <3> QED BY <2>3, <3>1, Zenon DEF b
  <2>7. SaveLinks(s, links)
    BY <2>1 DEF b
  <2> HIDE DEF links
  <2>8. LinksKept(disk.links, links)
    BY <2>5, <2>6, LinksCount
  <2> QED BY <2>4, <2>7, <2>8, PlanSaveLinks
<1>3. CASE remove_file_link(s)
  <2>1. PICK path \in DOMAIN disk.links :
            SaveLinks(s, [p \in DOMAIN disk.links \ {path} |-> disk.links[p]])
    BY <1>3 DEF remove_file_link
  <2> DEFINE links == [p \in DOMAIN disk.links \ {path} |-> disk.links[p]]
  <2>2. links \in Partial(Paths, BOOLEAN)
    BY <1>1, PartialMade, Zenon
  <2>3. /\ DOMAIN disk.links \ DOMAIN links \subseteq {path}
        /\ \A p \in DOMAIN disk.links \cap DOMAIN links : disk.links[p] => links[p]
    OBVIOUS
  <2>4. SaveLinks(s, links)
    BY <2>1
  <2> HIDE DEF links
  <2>5. LinksKept(disk.links, links)
    BY <2>3, LinksCount
  <2> QED BY <2>2, <2>4, <2>5, PlanSaveLinks
<1>4. CASE refresh_file_baseline(s)
  <2>1. PICK path \in DOMAIN disk.links : SaveLinks(s, Refreshed(path))
    BY <1>4 DEF refresh_file_baseline
  <2> DEFINE links == Refreshed(path)
  <2>2. \A b \in BOOLEAN : [disk.links EXCEPT ![path] = b] \in Partial(Paths, BOOLEAN)
    BY <1>1 DEF Partial
  <2>3. links \in Partial(Paths, BOOLEAN)
    BY <2>2, Zenon DEF Refreshed
  <2>4. DOMAIN links = DOMAIN disk.links
    BY DEF Refreshed
  <2>5. \A p \in DOMAIN disk.links : disk.links[p] => links[p]
    BY <1>1, Zenon DEF Refreshed
  <2> HIDE DEF links
  <2>6. LinksKept(disk.links, links)
    BY <2>4, <2>5, LinksCount
  <2> QED BY <2>1, <2>3, <2>6, PlanSaveLinks DEF links
<1> QED BY <1>2, <1>3, <1>4

\* A handoff is saved.
LEMMA PlanHandoff ==
    ASSUME NEW i \in Ids, NEW h \in TaskHandoffRecord, ~overlapped => FocusOK(h, disk)
    PROVE  Plan(save_handoff(i, h))
<1> DEFINE v == [id |-> i, handoff |-> h]
           w == Record("handoffs", v)
<1>1. v \in HandoffValue /\ v.handoff = h
  BY DEF HandoffValue
<1> HIDE DEF v
<1>2. w \in Writes /\ w.do = "record" /\ w.part = "handoffs" /\ w.value = v
  <2>1. w \in Writes
    BY <1>1, WritesAre
  <2> QED BY <2>1 DEF Record
<1> HIDE DEF w
<1>3. /\ "handoffs" \in Fields /\ ~IsCheckpoint(w) /\ RefersTo(<<w>>, 1, disk)
      /\ \A g \in Fields : Touches(w, g) => g = "handoffs"
      /\ ~overlapped => Extends(w, disk)
  BY <1>1, <1>2 DEF Fields, IsCheckpoint, RefersTo, Touches, Extends, IsPut, IsRecord
<1>4. Plan(<<w, Reindex({"handoffs"})>>)
  BY <1>2, <1>3, PlanSave
<1> QED BY <1>4 DEF save_handoff, w, v

\* Handoffs are created, claimed, closed and cancelled.
LEMMA PlanHandoffs ==
    ASSUME RecordsInv, NEW s \in Sessions,
           create_handoff(s) \/ claim_handoff(s) \/ close_handoff(s) \/ cancel_handoff(s)
    PROVE  \E S : Plan(S) /\ Begin(s, S)
<1>1. /\ disk.todos \in Partial(Ids, TaskTodo)
      /\ disk.handoffs \in Partial(Ids, TaskHandoffRecord)
      /\ ~overlapped => HandoffsFocus(disk)
  BY WhatIsFound DEF Found, Store
<1>2. CASE create_handoff(s)
  <2> DEFINE i == next_project_id(DOMAIN disk.handoffs)
  <2>1. PICK t \in DOMAIN disk.todos \cup {0} :
            /\ i \in Ids
            /\ Begin(s, save_handoff(i, [status |-> "open", todo_id |-> t]))
    BY <1>2 DEF create_handoff
  <2>2. t \in 0..MaxRecords
    <3>1. DOMAIN disk.todos \subseteq Ids
      BY <1>1 DEF Partial
    <3> QED BY <3>1, RecordsAssumption DEF Ids
  <2>3. [status |-> "open", todo_id |-> t] \in TaskHandoffRecord
    BY <2>2 DEF TaskHandoffRecord
  <2>4. FocusOK([status |-> "open", todo_id |-> t], disk)
    BY <2>1 DEF FocusOK
  <2> HIDE DEF i
  <2> QED BY <2>1, <2>3, <2>4, PlanHandoff
<1>3. ASSUME NEW from, NEW status \in {"claimed", "closed", "cancelled"},
             SetHandoff(s, from, status)
      PROVE  \E S : Plan(S) /\ Begin(s, S)
  <2>1. PICK i \in DOMAIN disk.handoffs :
            Begin(s, save_handoff(i, [disk.handoffs[i] EXCEPT !.status = status]))
    BY <1>3 DEF SetHandoff
  <2> DEFINE h == [disk.handoffs[i] EXCEPT !.status = status]
  <2>2. i \in Ids /\ disk.handoffs[i] \in TaskHandoffRecord
    BY <1>1 DEF Partial
  <2>3. h \in TaskHandoffRecord /\ h.todo_id = disk.handoffs[i].todo_id
    BY <2>2 DEF TaskHandoffRecord
  <2>4. ~overlapped => FocusOK(h, disk)
    BY <1>1, <2>3 DEF HandoffsFocus, FocusOK
  <2>5. Begin(s, save_handoff(i, h))
    BY <2>1
  <2> HIDE DEF h
  <2> QED BY <2>2, <2>3, <2>4, <2>5, PlanHandoff
<1> QED BY <1>2, <1>3 DEF claim_handoff, close_handoff, cancel_handoff

-----------------------------------------------------------------------------
(* New ids *)

\* A nonempty set of naturals has a least element.
LEMMA LeastNumber ==
    ASSUME NEW S, S \subseteq Nat, S # {}
    PROVE  \E x \in S : \A y \in S : x <= y
<1>1. PICK x \in S : \A y \in S : ~(<<y, x>> \in OpToRel(<, Nat))
  BY NatLessThanWellFounded, WFMin
<1>2. \A y \in S : x <= y
  <2> TAKE y \in S
  <2>1. x \in Nat /\ y \in Nat
    OBVIOUS
  <2>2. ~(y < x)
    BY <1>1, <2>1, Zenon DEF OpToRel
  <2> QED BY <2>1, <2>2
<1> QED BY <1>2

\* The id a record gets is above every id in use.
LEMMA NewId ==
    ASSUME NEW existing, existing \subseteq Ids
    PROVE  next_project_id(existing) \notin existing
<1> DEFINE S == existing \cup {0}
           T == {n \in Nat : \E y \in S : n = MaxRecords - y}
<1>1. MaxRecords \in Nat /\ \A y \in S : y \in Nat /\ y <= MaxRecords
  BY RecordsAssumption DEF Ids
<1>2. T \subseteq Nat /\ T # {}
  <2>1. 0 \in S /\ MaxRecords - 0 \in Nat
    BY <1>1
  <2> QED BY <2>1
<1>3. PICK m \in T : \A n \in T : m <= n
  BY <1>2, LeastNumber
<1>4. PICK x \in S : m = MaxRecords - x
  OBVIOUS
<1>5. \A y \in S : x >= y
  <2> TAKE y \in S
  <2>1. x \in Nat /\ y \in Nat /\ y <= MaxRecords /\ x <= MaxRecords
    BY <1>1
  <2>2. MaxRecords - y \in T
    BY <1>1, <2>1
  <2>3. MaxRecords - x <= MaxRecords - y
    BY <1>3, <1>4, <2>2
  <2> QED BY <1>1, <2>1, <2>3
<1>6. Max(S) \in S /\ \A y \in S : Max(S) >= y
  BY <1>5 DEF Max
<1>7. Max(S) + 1 \notin S
  <2> HIDE DEF S
  <2> QED BY <1>1, <1>6
<1> QED BY <1>7 DEF next_project_id

\* A todo is added beside those there are.
LEMMA PlanAddTodo ==
    ASSUME RecordsInv, NEW s \in Sessions, add_todo(s)
    PROVE  \E S : Plan(S) /\ Begin(s, S)
<1> DEFINE i == next_project_id(DOMAIN disk.todos)
           new == [done |-> FALSE, evidence |-> 0]
           todos == With(disk.todos, i, new)
<1>1. i \in Ids /\ Begin(s, save_todos(todos) \o save_task(disk.task))
  BY DEF add_todo
<1>2. disk.todos \in Partial(Ids, TaskTodo) /\ TodosKept(disk.todos, disk.todos)
  <2>1. disk \in Store
    BY WhatIsFound DEF Found
  <2> QED BY <2>1, KeptSame DEF Store, DiskKept
<1>3. i \notin DOMAIN disk.todos
  <2>1. DOMAIN disk.todos \subseteq Ids
    BY <1>2, PartialMade
  <2> QED BY <2>1, NewId
<1>4. new \in TaskTodo
  <2>1. \A b \in BOOLEAN : [done |-> b, evidence |-> 0] \in TaskTodo
    BY RecordsAssumption DEF TaskTodo
  <2> QED BY <2>1, Zenon
<1> HIDE DEF i, new
<1>5. todos \in Partial(Ids, TaskTodo)
  BY <1>1, <1>2, <1>4, PartialMade
<1>6. TodosKept(disk.todos, todos)
  <2>1. /\ DOMAIN todos = DOMAIN disk.todos \cup {i}
        /\ \A k \in DOMAIN disk.todos : todos[k] = disk.todos[k]
    BY <1>3 DEF With
  <2> HIDE DEF todos
  <2> QED BY <1>2, <2>1 DEF TodosKept
<1> HIDE DEF todos
<1> QED BY <1>1, <1>5, <1>6, PlanSaveTodos

-----------------------------------------------------------------------------
(* Runs and locks *)

\* The run changes its status and keeps what it refers to.
LEMMA RunStatus ==
    ASSUME RecordsInv, NEW status \in {"running", "finished"}
    PROVE  RunPlanned([disk.run EXCEPT !.status = status])
<1> DEFINE run == [disk.run EXCEPT !.status = status]
<1>1. RunPlanned(disk.run) /\ disk.run \in TaskRunRecord
  BY WhatIsFound DEF RunPlanned
<1>2. /\ run \in TaskRunRecord /\ run.change_refs = disk.run.change_refs
      /\ run.check_refs = disk.run.check_refs /\ run.worklog = disk.run.worklog
  BY <1>1 DEF TaskRunRecord
<1> HIDE DEF run
<1>3. RunPlanned(run)
  BY <1>1, <1>2 DEF RunPlanned, RunKept
<1> QED BY <1>3 DEF run

\* The task enters a stage and keeps what it refers to.
LEMMA TaskStage ==
    ASSUME RecordsInv, NEW stage \in {"implementing", "implemented"}
    PROVE  TaskKept([disk.task EXCEPT !.status_stage = stage])
<1> DEFINE task == [disk.task EXCEPT !.status_stage = stage]
<1>1. TaskKept(disk.task) /\ disk.task \in TaskRecord
  BY WhatIsFound DEF TaskKept
<1>2. /\ task \in TaskRecord /\ task.code_change_log_refs = disk.task.code_change_log_refs
      /\ task.latest_implementation_run = disk.task.latest_implementation_run
  BY <1>1 DEF TaskRecord
<1> HIDE DEF task
<1>3. TaskKept(task)
  BY <1>1, <1>2 DEF TaskKept
<1> QED BY <1>3 DEF task

\* A write of the lock or of the stage alone.
LEMMA SoundMark ==
    ASSUME NEW m \in {"write_lock", "remove_lock", "enter"}, m = "write_lock" => ~disk.lock
    PROVE  /\ Sound(<<[do |-> m]>>) /\ Len(<<[do |-> m]>>) = 1
           /\ <<[do |-> m]>>[1] = [do |-> m] /\ [do |-> m].do = m
<1> DEFINE w == [do |-> m]
<1>1. w \in Writes /\ w.do = m
  <2>1. w \in Writes
    BY WritesAre DEF Marks
  <2> QED BY <2>1
<1> HIDE DEF w
<1>2. w.do \in Quiet /\ RefersTo(<<w>>, 1, disk) /\ Extends(w, disk)
  BY <1>1 DEF Quiet, RefersTo, Extends, IsPut, IsRecord
<1>3. Sound(<<w>>)
  BY <1>1, <1>2, SoundOne
<1> QED BY <1>1, <1>3 DEF w

\* A lock is broken.
LEMMA PlanBreak ==
    ASSUME NEW s \in Sessions, break_lock(s)
    PROVE  \E S : Plan(S) /\ Begin(s, S)
<1>1. Sound(remove_lock)
  BY SoundMark DEF remove_lock
<1> QED BY <1>1, SoundThenRebuild DEF break_lock

\* The indexes are rebuilt.
LEMMA PlanReindex ==
    ASSUME NEW s \in Sessions, reindex(s)
    PROVE  \E S : Plan(S) /\ Begin(s, S)
<1>1. Sound(<<>>)
  BY EmptySeq DEF Sound, Referenced, Harmless
<1>2. <<>> \o rebuild_v2_indexes = rebuild_v2_indexes
  BY PiecesAre, ConcatEmptySeq
<1>3. Plan(<<>> \o rebuild_v2_indexes)
  BY <1>1, SoundThenRebuild
<1> QED BY <1>2, <1>3 DEF reindex

\* An interrupted run is resumed.
LEMMA PlanResume ==
    ASSUME RecordsInv, NEW s \in Sessions, resume_implementation(s)
    PROVE  \E S : Plan(S) /\ Begin(s, S)
<1> DEFINE task == [disk.task EXCEPT !.status_stage = "implementing"]
<1>1. TaskKept(task)
  BY TaskStage
<1>2. Begin(s, (write_lock \o save_task(task)) \o rebuild_v2_indexes) /\ ~disk.lock
  BY DEF resume_implementation
<1> HIDE DEF task
<1>3. /\ Sound(write_lock)
      /\ \A j \in 1..Len(write_lock) : write_lock[j].do # "enter"
  BY <1>2, SoundMark DEF write_lock
<1>4. Sound(write_lock \o save_task(task))
  BY <1>1, <1>3, SoundThenSaveTask
<1> QED BY <1>2, <1>4, SoundThenRebuild

\* A run is started.
LEMMA PlanStart ==
    ASSUME RecordsInv, NEW s \in Sessions, start_implementation(s)
    PROVE  \E S : Plan(S) /\ Begin(s, S)
<1> DEFINE run == [disk.run EXCEPT !.status = "running"]
           a == save_run(run)
           e == [do |-> "enter"]
           r == Reindex({"task"})
           b == <<e, r>>
<1>1. RunPlanned(run)
  BY RunStatus
<1>2. Begin(s, ((a \o write_lock) \o b) \o rebuild_v2_indexes) /\ ~disk.lock
  BY DEF start_implementation
<1>3. run \in TaskRunRecord /\ Put("run", run) \in Writes
  BY <1>1, WritesAre DEF RunPlanned
<1> HIDE DEF run
<1>4. /\ Len(a) = 2 /\ a[1].do = "put" /\ a[1].part = "run" /\ a[2].do = "reindex"
  <2>1. Len(a) = 2 /\ a[1] = Put("run", run) /\ a[2] = Reindex({"run"})
    BY <1>1, PlanSaveRun
  <2> HIDE DEF a
  <2> QED BY <2>1 DEF Put, Reindex
<1>5. Sound(a)
  <2>1. Put("run", run).do \in Quiet
    BY DEF Put, Quiet
  <2>2. Plan(<<Put("run", run), Reindex({"run"})>>)
    BY <1>1, PlanSaveRun DEF save_run
  <2> QED BY <1>3, <2>1, <2>2, SoundSave DEF save_run
<1>6. Sound(write_lock) /\ Len(write_lock) = 1 /\ write_lock[1].do = "write_lock"
  BY <1>2, SoundMark DEF write_lock
<1>7. \A j \in 1..Len(a), k \in 1..Len(write_lock) : ~Clash(a[j], write_lock[k])
  BY <1>4, <1>6 DEF Clash, IsPut
<1>8. Sound(a \o write_lock)
  BY <1>5, <1>6, <1>7, SoundJoin
<1>9. /\ b \in Seq(Writes) /\ Len(b) = 2 /\ b[1].do = "enter" /\ b[2].do = "reindex"
  <2>1. e \in Writes /\ r \in Writes
    BY WritesAre DEF Marks, Fields
  <2>2. e.do = "enter" /\ r.do = "reindex"
    BY DEF Reindex
  <2> HIDE DEF e, r
  <2> QED BY <2>1, <2>2
<1> HIDE DEF b
<1>10. \A k \in 1..Len(b) : b[k].do \in {"enter", "reindex"}
  BY <1>9
<1>11. \A v : \A k \in 1..Len(b) : ~Clash(v, b[k])
  BY <1>10 DEF Clash, IsPut
<1>12. Sound(b)
  <2>1. \A k \in 1..Len(b) : /\ RefersTo(b, k, disk) /\ Extends(b[k], disk) /\ b[k].do \in Quiet
    BY <1>10 DEF RefersTo, Extends, IsPut, IsRecord, Quiet
  <2> QED BY <1>9, <1>11, <2>1 DEF Sound, Referenced, Harmless
<1>13. Sound((a \o write_lock) \o b)
  BY <1>8, <1>11, <1>12, SoundJoin
<1> QED BY <1>2, <1>13, SoundThenRebuild

\* A run is finished: at release_lock, which fails when there is no lock, the
\* run and the task are saved and their indexes up to date.
LEMMA PlanFinish ==
    ASSUME RecordsInv, NEW s \in Sessions, finish_implementation(s)
    PROVE  \E S : Plan(S) /\ Begin(s, S)
<1> DEFINE run == [disk.run EXCEPT !.status = "finished"]
           task == [disk.task EXCEPT !.status_stage = "implemented"]
           a == save_run(run) \o save_task(task)
           m == [do |-> "release_lock"]
           t == <<Put("task", task), Reindex({"task"})>>
           b == <<m>> \o t
           c == <<m, Put("task", task), Reindex({"task"})>>
           S == a \o b
<1>1. RunPlanned(run) /\ TaskKept(task)
  BY RunStatus, TaskStage
<1>2. Begin(s, ((a \o release_lock) \o save_task(task)) \o rebuild_v2_indexes)
  BY DEF finish_implementation
<1> HIDE DEF run, task
<1>3. Plan(save_run(run)) /\ \A j \in 1..Len(save_run(run)) : save_run(run)[j].do # "enter"
  <2>1. /\ Plan(save_run(run)) /\ Len(save_run(run)) = 2
        /\ save_run(run)[1] = Put("run", run) /\ save_run(run)[2] = Reindex({"run"})
    BY <1>1, PlanSaveRun
  <2> QED BY <2>1 DEF Put, Reindex
<1>4. Plan(a)
  BY <1>1, <1>3, ThenSaveTask
<1>5. Sound(save_run(run)) /\ Sound(save_task(task))
  <2>1. Put("run", run) \in Writes /\ Put("run", run).do \in Quiet
    <3>1. Put("run", run) \in Writes
      BY <1>1, WritesAre DEF RunPlanned
    <3> QED BY <3>1 DEF Put, Quiet
  <2>2. Plan(<<Put("run", run), Reindex({"run"})>>)
    BY <1>3 DEF save_run
  <2> QED BY <1>1, <2>1, <2>2, SoundSave, SoundSaveTask DEF save_run
<1>6. Sound(a) /\ \A j \in 1..Len(a) : a[j].do # "enter"
  <2> DEFINE x == save_run(run)
             y == save_task(task)
  <2>1. Sound(x \o y)
    BY <1>1, <1>3, <1>5, SoundThenSaveTask
  <2>2. x \in Seq(Writes) /\ y \in Seq(Writes)
    BY <1>5 DEF Sound
  <2>3. \A j \in 1..Len(y) : y[j].do # "enter"
    BY DEF save_task, Put, Reindex
  <2>4. \A j \in 1..Len(x) : x[j].do # "enter"
    BY <1>3
  <2> HIDE DEF x, y
  <2>5. \A j \in 1..Len(x \o y) : (x \o y)[j].do # "enter"
    <3>1. /\ Len(x) \in Nat /\ Len(y) \in Nat /\ Len(x \o y) = Len(x) + Len(y)
          /\ \A j \in 1..Len(x) : (x \o y)[j] = x[j]
          /\ \A j \in (Len(x) + 1)..Len(x \o y) :
                 j - Len(x) \in 1..Len(y) /\ (x \o y)[j] = y[j - Len(x)]
      BY <2>2, Joined
    <3> TAKE j \in 1..Len(x \o y)
    <3>2. j \in 1..Len(x) \/ j \in (Len(x) + 1)..Len(x \o y)
      BY <3>1
    <3> QED BY <2>3, <2>4, <3>1, <3>2
  <2> QED BY <2>1, <2>5 DEF x, y
<1>7. /\ m \in Writes /\ m.do = "release_lock"
      /\ Put("task", task) \in Writes /\ Put("task", task).do = "put"
      /\ Put("task", task).part = "task" /\ Put("task", task).value = task
      /\ Reindex({"task"}) \in Writes /\ Reindex({"task"}).do = "reindex"
  <2>1. /\ m \in Writes /\ Put("task", task) \in Writes /\ Reindex({"task"}) \in Writes
    BY <1>1, WritesAre DEF Marks, Fields, TaskKept
  <2> QED BY <2>1 DEF Put, Reindex
<1>8. b = c
  BY WrittenOut
<1>9. ((a \o release_lock) \o save_task(task)) = S
  <2>1. a \in Seq(Writes) /\ <<m>> \in Seq(Writes) /\ t \in Seq(Writes)
    BY <1>4, <1>7 DEF Plan
  <2>2. (a \o <<m>>) \o t = a \o (<<m>> \o t)
    <3> HIDE DEF a, m, t
    <3> QED BY <2>1, ConcatAssociative
  <2> QED BY <2>2, Zenon DEF release_lock, save_task
<1>10. /\ c \in Seq(Writes) /\ Len(c) = 3 /\ c[1].do = "release_lock" /\ c[3].do = "reindex"
       /\ c[2].do = "put" /\ c[2].part = "task" /\ c[2].value = task
  <2> HIDE DEF m
  <2> QED BY <1>7
<1> HIDE DEF a, b, c
<1>11. \A j \in 1..3 : j = 1 \/ j = 2 \/ j = 3
  OBVIOUS
<1>12. Referenced(b, disk) /\ Harmless(b, disk)
  <2>1. \A k \in 1..3 : RefersTo(c, k, disk)
    BY <1>1, <1>10, <1>11 DEF RefersTo, Covered, IsPut, TaskKept
  <2>2. \A k \in 1..3 : Extends(c[k], disk)
    BY <1>1, <1>10, <1>11 DEF Extends, IsPut, IsRecord, TaskKept
  <2>3. \A j, k \in 1..3 : ~Clash(c[j], c[k])
    BY <1>10, <1>11 DEF Clash, IsPut
  <2> QED BY <1>8, <1>10, <2>1, <2>2, <2>3 DEF Referenced, Harmless
<1>13. a \in Seq(Writes) /\ b \in Seq(Writes) /\ Len(b) = 3 /\ Len(a) \in Nat
  BY <1>4, <1>8, <1>10, LenProperties DEF Plan
<1>14. \A j \in 1..Len(a), k \in 1..Len(b) : ~Clash(a[j], b[k])
  <2> TAKE j \in 1..Len(a), k \in 1..Len(b)
  <2>1. a[j].do # "enter"
    BY <1>6
  <2>2. /\ \A part \in {"run", "todos", "links"} : ~IsPut(b[k], part)
        /\ b[k].do # "write_lock"
    BY <1>8, <1>10, <1>11, <1>13 DEF IsPut
  <2> QED BY <2>1, <2>2 DEF Clash
<1>15. S \in Seq(Writes) /\ Referenced(S, disk) /\ (~overlapped => Harmless(S, disk))
  BY <1>4, <1>12, <1>13, <1>14, Joined, JoinReferenced, JoinHarmless DEF Plan
<1>16. ASSUME NEW k \in 1..Len(S), IsCheckpoint(S[k])
       PROVE  SettledAt(S, k) /\ S[k].do # "rebuilt"
  <2> DEFINE n == Len(a)
  <2>1. /\ Len(S) = n + 3
        /\ \A j \in (n + 1)..Len(S) : j - n \in 1..Len(b) /\ S[j] = b[j - n]
    <3>1. /\ Len(S) = n + Len(b)
          /\ \A j \in (n + 1)..Len(S) : j - n \in 1..Len(b) /\ S[j] = b[j - n]
      BY <1>13, Joined
    <3> QED BY <1>13, <3>1
  <2>2. k \in 1..(Len(S) + 1) /\ Checkpoint(S, k)
    BY <1>13, <1>16, <2>1 DEF Checkpoint
  <2>3. k > n
    <3>1. k <= n => k \in 1..n /\ IsCheckpoint(a[k])
      BY <1>13, <2>2, JoinSettledAt
    <3>2. \A j \in 1..n : ~IsCheckpoint(a[j])
      BY <1>6 DEF Sound, Quiet, IsCheckpoint
    <3> QED BY <1>13, <2>1, <3>1, <3>2
  <2>4. k - n \in 1..3 /\ S[k] = b[k - n]
    BY <1>13, <2>1, <2>3
  <2>5. k - n = 1 /\ S[k].do = "release_lock" /\ k = n + 1
    <3>1. b[1].do = "release_lock" /\ ~IsCheckpoint(b[2]) /\ ~IsCheckpoint(b[3])
      BY <1>8, <1>10 DEF IsCheckpoint
    <3>2. k - n = 1
      BY <1>11, <1>16, <2>4, <3>1
    <3> QED BY <1>13, <2>4, <3>1, <3>2
  <2>6. SettledAt(b, k - n)
    BY <2>5 DEF SettledAt
  <2>7. \A f \in Fields, j \in 1..n : Touches(a[j], f) => Reindexed(S, f, j, k)
    <3> TAKE f \in Fields, j \in 1..n
    <3>1. Touches(a[j], f) => Reindexed(a, f, j, n + 1)
      BY <1>4, <1>13 DEF Plan, Settled, SettledAt, Checkpoint
    <3>2. j \in Nat /\ n + 1 \in 1..(n + 1)
      BY <1>13
    <3>3. Reindexed(a, f, j, n + 1) => Reindexed(S, f, j, n + 1)
      BY <1>13, <3>2, JoinReindexed
    <3> QED BY <2>5, <3>1, <3>3
  <2>8. SettledAt(S, k)
    BY <1>13, <2>2, <2>3, <2>6, <2>7, JoinSettledAt
  <2> QED BY <2>5, <2>8
<1>17. Plan(S \o rebuild_v2_indexes)
  BY <1>15, <1>16, ThenRebuild
<1> QED BY <1>2, <1>9, <1>17

-----------------------------------------------------------------------------
(* Invariance *)

\* Every command begins with a plan.
LEMMA CommandStep ==
    ASSUME RecordsInv, NEW s \in Sessions, Command(s)
    PROVE  RecordsInv' /\ (~overlapped => DiskKept(disk, disk'))
<1>1. \E S : Plan(S) /\ Begin(s, S)
  <2>1. CASE start_implementation(s)
    BY <2>1, PlanStart
  <2>2. CASE resume_implementation(s)
    BY <2>2, PlanResume
  <2>3. CASE finish_implementation(s)
    BY <2>3, PlanFinish
  <2>4. CASE break_lock(s)
    BY <2>4, PlanBreak
  <2>5. CASE log_implementation(s)
    BY <2>5, PlanLog
  <2>6. CASE add_change(s)
    BY <2>6, PlanAddChange
  <2>7. CASE add_check(s)
    BY <2>7, PlanAddCheck
  <2>8. CASE record_code_review(s)
    BY <2>8, PlanReview
  <2>9. CASE add_todo(s)
    BY <2>9, PlanAddTodo
  <2>10. CASE set_todo_done(s)
    BY <2>10, PlanToggle
  <2>11. CASE add_requirement(s) \/ remove_requirement(s) \/ waive_requirement(s)
    BY <2>11, PlanRequirements
  <2>12. CASE add_file_link(s) \/ remove_file_link(s) \/ refresh_file_baseline(s)
    BY <2>12, PlanLinks
  <2>13. CASE create_handoff(s) \/ claim_handoff(s) \/ close_handoff(s) \/ cancel_handoff(s)
    BY <2>13, PlanHandoffs
  <2>14. CASE reindex(s)
    BY <2>14, PlanReindex
  <2> QED BY <2>1, <2>2, <2>3, <2>4, <2>5, <2>6, <2>7, <2>8, <2>9, <2>10, <2>11, <2>12,
             <2>13, <2>14 DEF Command
<1>2. PICK S : Plan(S) /\ Begin(s, S)
  BY <1>1
<1> QED BY <1>2, BeginStep

\* A write that is no index and no end of a rebuild.
LEMMA DiskStep ==
    ASSUME RecordsInv, NEW s \in Sessions, ~Idle(s), Done(s),
           AppliedTo(Head(work[s]), disk, disk'), UNCHANGED <<index, overlapped, stale>>,
           Head(work[s]).do # "reindex", Head(work[s]).do # "rebuilt"
    PROVE  RecordsInv' /\ (~overlapped => DiskKept(disk, disk'))
<1>1. index = [f \in Fields |-> index[f]] /\ stale \in BOOLEAN
  BY DEF RecordsInv, RecordsTypes
<1>2. \A f \in Fields : ~IsReindex(Head(work[s]), f)
  BY DEF IsReindex
<1>3. index' = [f \in Fields |->
          IF IsReindex(Head(work[s]), f) THEN Summary(f, disk') ELSE index[f]]
  <2>1. \A f \in Fields :
            (IF IsReindex(Head(work[s]), f) THEN Summary(f, disk') ELSE index[f]) = index[f]
    BY <1>2
  <2> QED BY <1>1, <2>1, Zenon
<1>4. stale' \in BOOLEAN /\ (stale' <=> stale /\ Head(work[s]).do # "rebuilt")
  BY <1>1
<1> QED BY <1>3, <1>4, WriteStep

\* A command that is under way: its first write is one of the writes.
LEMMA FirstWrite ==
    ASSUME RecordsInv, NEW s \in Sessions, ~Idle(s)
    PROVE  Head(work[s]) = work[s][1] /\ Head(work[s]) \in Writes /\ disk \in Store
<1>1. work[s] \in Seq(Writes) /\ work[s] # <<>> /\ disk \in Store
  BY DEF RecordsInv, RecordsTypes, Idle
<1> QED BY <1>1, Shifted

\* A file is written.
LEMMA WriteFileStep ==
    ASSUME RecordsInv, NEW s \in Sessions, WriteFile(s)
    PROVE  RecordsInv' /\ (~overlapped => DiskKept(disk, disk'))
<1> DEFINE w == Head(work[s])
<1>1. ~Idle(s) /\ Done(s) /\ UNCHANGED <<index, overlapped, stale>> /\ w.do \in {"put", "record"}
  BY DEF WriteFile, Doing
<1>2. w \in Writes
  BY <1>1, FirstWrite
<1>3. \/ w.do = "put" /\ disk' = [disk EXCEPT ![w.part] = w.value]
      \/ /\ w.do = "record"
         /\ disk' = [disk EXCEPT ![w.part] =
                IF w.part = "handoffs" THEN With(@, w.value.id, w.value.handoff)
                ELSE @ \cup w.value]
  BY DEF WriteFile, Doing
<1> HIDE DEF w
<1>4. AppliedTo(w, disk, disk')
  <2>1. CASE w.do = "put"
    BY <1>2, <1>3, <2>1, WriteCases DEF AppliedTo, IsPut, IsRecord, Marks
  <2>2. CASE w.do = "record"
    <3>1. w.part \in {"changes", "checks", "reviews", "handoffs"}
      BY <1>2, <2>2, WriteCases DEF IsPut, IsRecord, Marks
    <3> QED BY <1>3, <2>2, <3>1 DEF AppliedTo, IsRecord
  <2> QED BY <1>1, <2>1, <2>2
<1> QED BY <1>1, <1>4, DiskStep DEF w

\* The task enters its stage.
LEMMA EnterStep ==
    ASSUME RecordsInv, NEW s \in Sessions, EnterStage(s)
    PROVE  RecordsInv' /\ (~overlapped => DiskKept(disk, disk'))
<1> DEFINE w == Head(work[s])
<1>1. ~Idle(s) /\ Done(s) /\ UNCHANGED <<index, overlapped, stale>> /\ w.do = "enter"
  BY DEF EnterStage, Doing
<1>2. \E latest \in {TRUE} : disk' = [disk EXCEPT !.task.status_stage = "implementing",
                                                  !.task.latest_implementation_run = latest]
  BY Zenon DEF EnterStage
<1> HIDE DEF w
<1>3. AppliedTo(w, disk, disk')
  BY <1>1, <1>2 DEF AppliedTo
<1> QED BY <1>1, <1>3, DiskStep DEF w

\* A lock is written: alone, a command finds none.
LEMMA WriteLockStep ==
    ASSUME RecordsInv, NEW s \in Sessions, WriteLock(s)
    PROVE  RecordsInv' /\ (~overlapped => DiskKept(disk, disk'))
<1> DEFINE w == Head(work[s])
<1>1. ~Idle(s) /\ UNCHANGED <<index, overlapped, stale>> /\ w.do = "write_lock"
  BY DEF WriteLock, Doing
<1>2. \E lock \in BOOLEAN :
          (lock <=> w.do = "write_lock") /\ disk' = [disk EXCEPT !.lock = lock]
  BY <1>1, Zenon DEF WriteLock
<1>3. w = work[s][1] /\ disk \in Store
  BY <1>1, FirstWrite
<1>4. CASE Done(s)
  <2> HIDE DEF w
  <2>1. AppliedTo(w, disk, disk')
    BY <1>1, <1>2 DEF AppliedTo
  <2> QED BY <1>1, <1>4, <2>1, DiskStep DEF w
<1>5. CASE disk.lock /\ Fail(s)
  <2>1. disk' = disk
    <3>1. PICK lock \in BOOLEAN : lock /\ disk' = [disk EXCEPT !.lock = lock]
      BY <1>1, <1>2
    <3>2. disk.lock \in BOOLEAN /\ disk.lock = lock
      BY <1>3, <1>5, <3>1 DEF Store
    <3>3. [disk EXCEPT !.lock = disk.lock] = disk
      BY <1>3 DEF Store
    <3> QED BY <3>1, <3>2, <3>3
  <2>2. overlapped
    <3>1. SUFFICES ASSUME ~overlapped PROVE FALSE
      BY Zenon
    <3>2. Harmless(work[s], disk) /\ work[s] \in Seq(Writes) /\ work[s] # <<>>
      BY <1>1, <3>1 DEF RecordsInv, RecordsTypes, AloneInv, Idle
    <3>3. Len(work[s]) \in Nat \ {0}
      BY <3>2, EmptySeq
    <3>4. Extends(work[s][1], disk)
      BY <3>2, <3>3 DEF Harmless
    <3> QED BY <1>1, <1>3, <1>5, <3>4 DEF Extends
  <2>3. stale' \in BOOLEAN
    BY <1>1 DEF RecordsInv, RecordsTypes
  <2> QED BY <1>1, <1>5, <2>1, <2>2, <2>3, FailStep
<1> QED BY <1>4, <1>5 DEF WriteLock

\* A lock is removed, or there is none to release.
LEMMA RemoveLockStep ==
    ASSUME RecordsInv, NEW s \in Sessions, RemoveLock(s)
    PROVE  RecordsInv' /\ (~overlapped => DiskKept(disk, disk'))
<1> DEFINE w == Head(work[s])
<1>1. /\ ~Idle(s) /\ UNCHANGED <<index, overlapped, stale>>
      /\ w.do \in {"remove_lock", "release_lock"}
  BY DEF RemoveLock, Doing
<1>2. \E lock \in BOOLEAN :
          (lock <=> w.do = "write_lock") /\ disk' = [disk EXCEPT !.lock = lock]
  <2>1. w.do # "write_lock"
    BY <1>1
  <2>2. disk' = [disk EXCEPT !.lock = FALSE]
    BY Zenon DEF RemoveLock
  <2> QED BY <2>1, <2>2, Zenon
<1>3. w = work[s][1] /\ disk \in Store
  BY <1>1, FirstWrite
<1>4. CASE Done(s)
  <2> HIDE DEF w
  <2>1. AppliedTo(w, disk, disk')
    BY <1>1, <1>2 DEF AppliedTo
  <2> QED BY <1>1, <1>4, <2>1, DiskStep DEF w
<1>5. CASE w.do = "release_lock" /\ ~disk.lock /\ Fail(s)
  <2>1. disk' = disk
    <3>1. PICK lock \in BOOLEAN : ~lock /\ disk' = [disk EXCEPT !.lock = lock]
      BY <1>1, <1>2
    <3>2. disk.lock \in BOOLEAN /\ disk.lock = lock
      BY <1>3, <1>5, <3>1 DEF Store
    <3>3. [disk EXCEPT !.lock = disk.lock] = disk
      BY <1>3 DEF Store
    <3> QED BY <3>1, <3>2, <3>3
  <2>2. ASSUME ~overlapped, ~stale PROVE Fresh(disk, index)
    <3>1. /\ FreshBy(work[s], disk, index, stale)
          /\ work[s] \in Seq(Writes) /\ work[s] # <<>>
      BY <1>1, <2>2 DEF RecordsInv, RecordsTypes, AloneInv, Idle
    <3>2. Len(work[s]) \in Nat \ {0}
      BY <3>1, EmptySeq
    <3>3. 1 \in 1..(Len(work[s]) + 1) /\ Checkpoint(work[s], 1)
      BY <1>3, <1>5, <3>2 DEF Checkpoint, IsCheckpoint
    <3>4. FreshAt(work[s], 1, disk, index, stale)
      BY <3>1, <3>3 DEF FreshBy
    <3> QED BY <2>2, <3>4 DEF FreshAt, Fresh, Reindexed
  <2>3. stale' \in BOOLEAN
    BY <1>1 DEF RecordsInv, RecordsTypes
  <2> QED BY <1>1, <1>5, <2>1, <2>2, <2>3, FailStep
<1> QED BY <1>4, <1>5 DEF RemoveLock, Doing

\* Sections of the index are brought up to date.
LEMMA WriteIndexStep ==
    ASSUME RecordsInv, NEW s \in Sessions, WriteIndex(s)
    PROVE  RecordsInv' /\ (~overlapped => DiskKept(disk, disk'))
<1> DEFINE w == Head(work[s])
<1>1. /\ ~Idle(s) /\ Done(s) /\ UNCHANGED <<disk, overlapped, stale>> /\ w.do = "reindex"
      /\ index' = [f \in Fields |-> IF f \in w.part THEN Summary(f, disk) ELSE index[f]]
  BY DEF WriteIndex, Doing
<1> HIDE DEF w
<1>2. index' = [f \in Fields |-> IF IsReindex(w, f) THEN Summary(f, disk') ELSE index[f]]
  BY <1>1 DEF IsReindex
<1>3. AppliedTo(w, disk, disk')
  BY <1>1 DEF AppliedTo
<1>4. stale' \in BOOLEAN /\ (stale' <=> stale /\ w.do # "rebuilt")
  BY <1>1 DEF RecordsInv, RecordsTypes
<1> QED BY <1>1, <1>2, <1>3, <1>4, WriteStep DEF w

\* A rebuild ends.
LEMMA RebuiltStep ==
    ASSUME RecordsInv, NEW s \in Sessions, Rebuilt(s)
    PROVE  RecordsInv' /\ (~overlapped => DiskKept(disk, disk'))
<1> DEFINE w == Head(work[s])
<1>1. /\ ~Idle(s) /\ Done(s) /\ UNCHANGED <<disk, index, overlapped>> /\ w.do = "rebuilt"
      /\ ~stale' /\ stale' \in BOOLEAN
  BY DEF Rebuilt, Doing
<1>2. index = [f \in Fields |-> index[f]]
  BY DEF RecordsInv, RecordsTypes
<1> HIDE DEF w
<1>3. \A f \in Fields : ~IsReindex(w, f)
  BY <1>1 DEF IsReindex
<1>4. index' = [f \in Fields |-> IF IsReindex(w, f) THEN Summary(f, disk') ELSE index[f]]
  <2>1. \A f \in Fields : (IF IsReindex(w, f) THEN Summary(f, disk') ELSE index[f]) = index[f]
    BY <1>3
  <2> QED BY <1>1, <1>2, <2>1, Zenon
<1>5. AppliedTo(w, disk, disk')
  BY <1>1 DEF AppliedTo
<1>6. stale' <=> stale /\ w.do # "rebuilt"
  BY <1>1
<1> QED BY <1>1, <1>4, <1>5, <1>6, WriteStep DEF w

\* A command dies.
LEMMA CrashStep ==
    ASSUME RecordsInv, NEW s \in Sessions, Crash(s)
    PROVE  RecordsInv' /\ (~overlapped => DiskKept(disk, disk'))
<1>1. /\ ~Idle(s) /\ Fail(s) /\ UNCHANGED <<disk, index, overlapped>>
      /\ stale' /\ stale' \in BOOLEAN
  BY DEF Crash
<1> QED BY <1>1, FailStep

\* The initial files.
LEMMA RecordsInit ==
    ASSUME Init
    PROVE  RecordsInv
<1>1. /\ disk.run.change_refs = {} /\ disk.run.check_refs = {}
      /\ disk.task.code_change_log_refs = {} /\ disk.handoffs = <<>>
  BY DEF Init
<1>2. disk \in Store
  <2>1. 0 \in 0..MaxRecords /\ {} \in SUBSET Ids
    BY RecordsAssumption
  <2>2. disk.run \in TaskRunRecord
    BY <2>1 DEF Init, TaskRunRecord
  <2>3. disk.task \in TaskRecord
    <3>1. \A b \in BOOLEAN : [status_stage |-> "approved", latest_implementation_run |-> b,
                              code_change_log_refs |-> {}] \in TaskRecord
      BY <2>1 DEF TaskRecord
    <3> QED BY <3>1, Zenon DEF Init
  <2>4. \A D, R : <<>> \in Partial(D, R)
    <3> TAKE D, R
    <3>1. <<>> \in [{} -> R] /\ {} \in SUBSET D
      OBVIOUS
    <3> QED BY <3>1 DEF Partial
  <2>5. disk.lock \in BOOLEAN
    BY DEF Init
  <2> QED BY <2>1, <2>2, <2>3, <2>4, <2>5 DEF Init, Store
<1>3. Fresh(disk, index) /\ index = [f \in Fields |-> index[f]]
  BY DEF Init, Summaries, Fresh
<1>4. work = [s \in Sessions |-> <<>>] /\ overlapped \in BOOLEAN /\ stale \in BOOLEAN
  BY DEF Init
<1>5. RecordsTypes
  BY <1>2, <1>3, <1>4, EmptySeq DEF RecordsTypes
<1>6. RefsOnDisk(disk) /\ HandoffsFocus(disk)
  BY <1>1 DEF RefsOnDisk, HandoffsFocus
<1>7. \A s \in Sessions : Idle(s) /\ Referenced(work[s], disk) /\ Harmless(work[s], disk)
  BY <1>4 DEF Idle, Referenced, Harmless
<1> QED BY <1>3, <1>5, <1>6, <1>7 DEF RecordsInv, AloneInv

\* Every step keeps the invariant, and with one writer what was there.
LEMMA RecordsStep ==
    ASSUME RecordsInv, [Next]_vars
    PROVE  RecordsInv' /\ (~overlapped => DiskKept(disk, disk'))
<1>1. CASE Next
  <2>1. PICK s \in Sessions :
            \/ Command(s)
            \/ WriteFile(s) \/ EnterStage(s) \/ WriteLock(s) \/ RemoveLock(s)
            \/ WriteIndex(s) \/ Rebuilt(s)
            \/ Crash(s)
    BY <1>1 DEF Next
  <2> QED BY <2>1, CommandStep, WriteFileStep, EnterStep, WriteLockStep, RemoveLockStep,
             WriteIndexStep, RebuiltStep, CrashStep
<1>2. CASE UNCHANGED vars
  <2>1. RecordsInv'
    BY <1>2 DEF vars, RecordsInv, RecordsTypes, AloneInv, Idle
  <2>2. disk \in Store /\ disk' = disk
    BY <1>2 DEF vars, RecordsInv, RecordsTypes
  <2> QED BY <2>1, <2>2, KeptSame
<1> QED BY <1>1, <1>2

\* RecordsInv is an invariant of Records.
THEOREM RecordsInvariance == Spec => []RecordsInv
<1>1. Init => RecordsInv
  BY RecordsInit
<1>2. RecordsInv /\ [Next]_vars => RecordsInv'
  BY RecordsStep
<1> QED BY <1>1, <1>2, PTL DEF Spec

\* Type correctness: the files are well-formed, with every record in its bounds.
THEOREM RecordsTypeOK == Spec => []TypeOK
<1>1. RecordsInv => TypeOK
  BY DEF RecordsInv, RecordsTypes, TypeOK
<1> QED BY <1>1, RecordsInvariance, PTL

\* However commands of any number of sessions overlap, and wherever they die,
\* the change and check records that the run and the task refer to are on disk;
\* with one writer the todo that a handoff focuses on is there too.
THEOREM RefsTheorem == Spec => []RefsResolve
<1>1. RecordsInv => RefsResolve
  BY DEF RecordsInv, RefsOnDisk, AloneInv, HandoffsFocus, FocusOK, RefsResolve
<1> QED BY <1>1, RecordsInvariance, PTL

\* With one writer the indexes agree with the store whenever no command runs,
\* unless one died since the last rebuild.
THEOREM IndexTheorem == Spec => []IndexFresh
<1>1. RecordsInv => IndexFresh
  <2> SUFFICES ASSUME RecordsInv, \A s \in Sessions : Idle(s), ~overlapped, ~stale
               PROVE  index = Summaries(disk)
    BY DEF IndexFresh
  <2>1. index = [f \in Fields |-> index[f]] /\ Fresh(disk, index)
    BY DEF RecordsInv, RecordsTypes, AloneInv
  <2>2. \A f \in Fields : index[f] = Summary(f, disk)
    BY <2>1 DEF Fresh
  <2>3. [f \in Fields |-> index[f]] = [f \in Fields |-> Summary(f, disk)]
    BY <2>2
  <2> QED BY <2>1, <2>3, Zenon DEF Summaries
<1> QED BY <1>1, RecordsInvariance, PTL

\* With one writer no write loses a todo, its evidence, what the run refers to,
\* a baseline, or more than one link.
THEOREM NothingLostTheorem == Spec => NothingLostAlone
<1>1. RecordsInv /\ [Next]_vars => [~overlapped => Kept]_vars
  <2> SUFFICES ASSUME RecordsInv, [Next]_vars, ~overlapped PROVE Kept
    OBVIOUS
  <2>1. DiskKept(disk, disk')
    BY RecordsStep
  <2> QED BY <2>1 DEF DiskKept, RunKept, TodosKept, LinksKept, Kept
<1> QED BY <1>1, RecordsInvariance, PTL DEF Spec, NothingLostAlone
=============================================================================
