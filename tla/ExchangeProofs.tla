--------------------------- MODULE ExchangeProofs ----------------------------
(***************************************************************************)
(* Theorems about Exchange, for any ledgers, versions and bounds: a task   *)
(* id never comes to mean another task, a new task finds a fresh number,   *)
(* slugs of a ledger's own tasks are distinct, pointers resolve, and the   *)
(* tree shows every task.                                                  *)
(***************************************************************************)
EXTENDS Exchange, FiniteSetTheorems, WellFoundedInduction, TLAPS

BundleRecord == [task: TaskRecord \cup {NoTask}, reqs: SUBSET Ids, todos: BOOLEAN]

PayloadRecord ==
    [scope: {"ledger", "tasks"}, tasks: UNION {[D -> TaskRecord] : D \in SUBSET Ids},
     reqs: SUBSET [owner: Ids, task_id: Ids], todos: SUBSET Ids,
     active: 0..MaxId, releases: [Versions -> 0..MaxId]]

\* An active task that was archived is not done, and a boundary is done.
ActiveOK(task) == task.archived => task.status_stage = "open"

Pointers(L) ==
    /\ L.active # 0 => L.active \in list_tasks(L) /\ ActiveOK(Task(L, L.active))
    /\ \A v \in Versions :
           L.release[v] # 0 => /\ L.release[v] \in list_tasks(L)
                               /\ Task(L, L.release[v]).status_stage = "done"

\* Nothing is said of a ledger whose clear was cut short.
Resolved(L) == config.ref \in torn.ledgers \/ Pointers(L)

\* The tasks that ledger l made itself are there and bear distinct slugs.
NativeOK(l, L, N) ==
    /\ \A i \in Ids : <<l, i>> \in N => i \in list_tasks(L)
    /\ \A i, k \in visible_tasks(L) :
           <<l, i>> \in N /\ <<l, k>> \in N /\ i # k => Task(L, i).slug # Task(L, k).slug

\* A directory without a task.md lies below the counter.
DirsOK(L, next) == \A i \in task_dirs(L) \ list_tasks(L) : i < next

ParentsOK(L) == \A i \in list_tasks(L) : Task(L, i).parent_task_id < i

LedgerInv(l, L, N, next, int, ren, cut) ==
    /\ L \in LedgerRecord
    /\ l \in cut \/ Pointers(L)
    /\ NativeOK(l, L, N)
    /\ int \/ DirsOK(L, next)
    /\ ren \/ ParentsOK(L)

\* What an archive holds could be a ledger.
PayloadPointers(a) ==
    /\ a.active # 0 => a.active \in DOMAIN a.tasks /\ ActiveOK(a.tasks[a.active])
    /\ \A v \in Versions :
           a.releases[v] # 0 => /\ a.releases[v] \in DOMAIN a.tasks
                                /\ a.tasks[a.releases[v]].status_stage = "done"

PayloadOK(a, ren, cut) ==
    /\ cut \/ PayloadPointers(a)
    /\ ren \/ \A i \in DOMAIN a.tasks : a.tasks[i].parent_task_id < i

ArchiveInv ==
    /\ archive \in PayloadRecord \cup {NoArchive, Truncated}
    /\ archive \in PayloadRecord => PayloadOK(archive, renumbered, torn.archive)

ConfigTypes ==
    /\ config \in [ref: Ledgers, parent_ref: Ledgers, next: 1..MaxId + 1]
    /\ births \in 0..MaxBirths
    /\ interrupted \in BOOLEAN /\ renumbered \in BOOLEAN
    /\ torn \in [ledgers: SUBSET Ledgers, archive: BOOLEAN]
    /\ native \subseteq Ledgers \X Ids

LedgersInv ==
    /\ ledgers \in [DOMAIN ledgers -> LedgerRecord]
    /\ DOMAIN ledgers \subseteq Ledgers /\ config.ref \in DOMAIN ledgers
    /\ \A p \in native : p[1] \in DOMAIN ledgers
    /\ \A l \in DOMAIN ledgers :
           LedgerInv(l, ledgers[l], native, config.next, interrupted, renumbered, torn.ledgers)

ExchangeInv == ConfigTypes /\ LedgersInv /\ ArchiveInv

-----------------------------------------------------------------------------
(* Numbers *)

\* A nonempty set of ids has a least element, and Min returns it.
LEMMA MinElement ==
    ASSUME NEW S, S \subseteq Nat, S # {}
    PROVE  Min(S) \in S /\ \A y \in S : Min(S) <= y
<1>1. PICK x \in S : \A y \in S : ~(<<y, x>> \in OpToRel(<, Nat))
  BY NatLessThanWellFounded, WFMin
<1>2. \A y \in S : x <= y
  <2> SUFFICES ASSUME NEW y \in S PROVE x <= y
    OBVIOUS
  <2>1. x \in Nat /\ y \in Nat
    OBVIOUS
  <2>2. ~(y < x)
    BY <1>1, <2>1, Zenon DEF OpToRel
  <2> QED BY <2>1, <2>2
<1> QED BY <1>2 DEF Min

\* A bounded one has a greatest element, and Max returns it.
LEMMA MaxElement ==
    ASSUME NEW N \in Nat, NEW S, S \subseteq 0..N, S # {}
    PROVE  Max(S) \in S /\ \A y \in S : y <= Max(S)
<1> DEFINE T == {n \in Nat : \E y \in S : n = N - y}
<1>1. T # {} /\ T \subseteq Nat
  <2>1. PICK y \in S : TRUE
    OBVIOUS
  <2>2. y \in 0..N /\ N - y \in Nat
    OBVIOUS
  <2> QED BY <2>2
<1>2. Min(T) \in T /\ \A n \in T : Min(T) <= n
  BY <1>1, MinElement
<1>3. PICK x \in S : Min(T) = N - x
  BY <1>2
<1>4. \A y \in S : x >= y
  <2> SUFFICES ASSUME NEW y \in S PROVE x >= y
    OBVIOUS
  <2>1. N - y \in T /\ x \in 0..N /\ y \in 0..N
    OBVIOUS
  <2>2. N - x <= N - y
    BY <1>2, <1>3, <2>1
  <2> QED BY <2>1, <2>2
<1>5. Max(S) \in S /\ \A y \in S : Max(S) >= y
  BY <1>4 DEF Max
<1> QED
  <2>1. \A y \in S : y \in Nat
    <3> TAKE y \in S
    <3> QED BY SMTT(20)
  <2>2. Max(S) \in Nat
    BY <1>5, <2>1
  <2> QED BY <1>5, <2>1, <2>2

\* The id that is allocated is above every id there is and not below the
\* counter.
LEMMA AllocatedAbove ==
    ASSUME NEW existing, existing \subseteq Ids, NEW next \in Nat
    PROVE  LET id == allocate_ledger_task_id(existing, next)
           IN  /\ id \in Nat /\ id >= next /\ id >= 1 /\ \A k \in existing : k < id
               /\ next <= MaxId + 1 => id <= MaxId + 1
<1> DEFINE S == existing \cup {0}
<1>1. S \subseteq 0..MaxId /\ S # {} /\ MaxId \in Nat /\ 0 \in S
  BY LedgerAssumption DEF Ids
<1> HIDE DEF S
<1>2. Max(S) \in S /\ \A y \in S : y <= Max(S)
  BY <1>1, MaxElement
<1>3. Max(S) \in 0..MaxId
  BY <1>1, <1>2
<1>4. \A k \in existing : k <= Max(S) /\ k \in Nat
  BY <1>2 DEF S, Ids
<1>5. allocate_ledger_task_id(existing, next) = IF next > Max(S) + 1 THEN next ELSE Max(S) + 1
  BY DEF allocate_ledger_task_id, Larger, S
<1> QED BY <1>1, <1>3, <1>4, <1>5

\* A slug is left for one task more.
LEMMA SlugLeft ==
    ASSUME NEW L, NEW id \in Ids, id \notin visible_tasks(L)
    PROVE  /\ unique_slug(L) \in 1..MaxId
           /\ \A i \in visible_tasks(L) : Task(L, i).slug # unique_slug(L)
<1> DEFINE V == visible_tasks(L)
           slugs == {Task(L, i).slug : i \in V}
           S == (1..MaxId) \ slugs
           f == [n \in 1..MaxId |-> CHOOSE i \in V : Task(L, i).slug = n]
<1>1. V \subseteq Ids \ {id}
  BY DEF visible_tasks, list_tasks
<1>2. S # {}
  <2> SUFFICES ASSUME S = {} PROVE FALSE
    OBVIOUS
  <2>1. \A n \in 1..MaxId : \E i \in V : Task(L, i).slug = n
    OBVIOUS
  <2>2. \A n \in 1..MaxId : f[n] \in V /\ Task(L, f[n]).slug = n
    BY <2>1
  <2> HIDE DEF f
  <2>3. IsFiniteSet(1..MaxId) /\ IsFiniteSet(Ids)
    BY FS_Interval, LedgerAssumption DEF Ids
  <2>4. /\ IsFiniteSet(Ids \ {id}) /\ Cardinality(Ids \ {id}) = Cardinality(Ids) - 1
        /\ Cardinality(Ids) \in Nat
    BY <2>3, FS_RemoveElement, FS_CardinalityType
  <2>5. IsFiniteSet(V) /\ Cardinality(V) <= Cardinality(Ids \ {id}) /\ Cardinality(V) \in Nat
    BY <1>1, <2>4, FS_Subset, FS_CardinalityType
  <2>6. Cardinality(V) < Cardinality(1..MaxId)
    BY <2>4, <2>5 DEF Ids
  <2>7. f \in [1..MaxId -> V]
    BY <2>2 DEF f
  <2> HIDE DEF V, S
  <2>8. \E x, y \in 1..MaxId : x # y /\ f[x] = f[y]
    BY <2>3, <2>5, <2>6, <2>7, FS_PigeonHole
  <2> QED BY <2>2, <2>8
<1>3. S \subseteq Nat
  OBVIOUS
<1>4. Min(S) \in S
  <2> HIDE DEF S
  <2> QED BY <1>2, <1>3, MinElement
<1>5. unique_slug(L) = Min(S)
  BY DEF unique_slug
<1> QED BY <1>4, <1>5

-----------------------------------------------------------------------------
(* Ledgers *)

\* A task.md is told from none by its identity.
LEMMA TasksAreTasks == NoTask \notin TaskRecord
<1> SUFFICES ASSUME NoTask \in TaskRecord PROVE FALSE
  OBVIOUS
<1>1. NoTask.uid \in 1..MaxBirths + 1
  BY DEF TaskRecord
<1>2. NoTask.uid = 0
  BY DEF NoTask
<1> QED BY <1>1, <1>2, LedgerAssumption

\* What one finds in a ledger.
LEMMA LedgerFields ==
    ASSUME NEW L \in LedgerRecord
    PROVE  /\ L.bundle \in [Ids -> BundleRecord] /\ L.active \in 0..MaxId
           /\ L.release \in [Versions -> 0..MaxId]
           /\ list_tasks(L) \subseteq Ids /\ visible_tasks(L) \subseteq list_tasks(L)
           /\ task_dirs(L) \subseteq Ids
           /\ \A i \in Ids : L.bundle[i] \in BundleRecord /\ Task(L, i) = L.bundle[i].task
           /\ \A i \in Ids : i \in list_tasks(L) <=> Task(L, i) \in TaskRecord
           /\ \A i \in Ids : Task(L, i) \in TaskRecord \cup {NoTask}
<1>1. L.bundle \in [Ids -> BundleRecord] /\ L.active \in 0..MaxId /\ L.release \in [Versions -> 0..MaxId]
  BY DEF LedgerRecord, BundleRecord
<1>2. \A b \in BundleRecord : b.task \in TaskRecord \cup {NoTask}
  BY DEF BundleRecord
<1>3. \A i \in Ids : L.bundle[i] \in BundleRecord
  BY <1>1
<1>4. \A i \in Ids : i \in list_tasks(L) <=> Task(L, i) \in TaskRecord
  BY <1>2, <1>3, TasksAreTasks DEF list_tasks, Task
<1>5. list_tasks(L) \subseteq Ids /\ visible_tasks(L) \subseteq list_tasks(L) /\ task_dirs(L) \subseteq Ids
  BY DEF list_tasks, visible_tasks, task_dirs
<1> QED BY <1>1, <1>2, <1>3, <1>4, <1>5 DEF Task

\* SetBundle changes one directory.
LEMMA SetBundleFields ==
    ASSUME NEW L \in LedgerRecord, NEW i \in Ids, NEW b \in BundleRecord
    PROVE  LET M == SetBundle(L, i, b)
           IN  /\ M \in LedgerRecord /\ M.active = L.active /\ M.release = L.release
               /\ M.bundle[i] = b /\ \A k \in Ids \ {i} : M.bundle[k] = L.bundle[k]
<1> DEFINE M == SetBundle(L, i, b)
<1>1. L.bundle \in [Ids -> BundleRecord]
  BY LedgerFields
<1>2. M = [L EXCEPT !.bundle = [L.bundle EXCEPT ![i] = b]]
  BY DEF SetBundle
<1>3. [L.bundle EXCEPT ![i] = b] \in [Ids -> BundleRecord]
  BY <1>1
<1>4. M \in LedgerRecord /\ M.active = L.active /\ M.release = L.release
      /\ M.bundle = [L.bundle EXCEPT ![i] = b]
  BY <1>2, <1>3 DEF LedgerRecord, BundleRecord
<1> QED BY <1>1, <1>4

\* The tasks of a ledger that differs from another in one directory.
LEMMA SetBundleTasks ==
    ASSUME NEW L \in LedgerRecord, NEW M \in LedgerRecord, NEW i \in Ids, NEW b \in BundleRecord,
           M.bundle[i] = b, \A k \in Ids \ {i} : M.bundle[k] = L.bundle[k]
    PROVE  /\ Task(M, i) = b.task
           /\ \A k \in Ids \ {i} : /\ Task(M, k) = Task(L, k)
                                   /\ k \in list_tasks(M) <=> k \in list_tasks(L)
                                   /\ k \in visible_tasks(M) <=> k \in visible_tasks(L)
                                   /\ k \in task_dirs(M) <=> k \in task_dirs(L)
           /\ i \in list_tasks(M) <=> b.task \in TaskRecord
           /\ i \in visible_tasks(M) <=> b.task \in TaskRecord /\ ~b.task.archived
           /\ i \in task_dirs(M) <=> b # NoBundle
<1>1. Task(M, i) = b.task /\ \A k \in Ids \ {i} : Task(M, k) = Task(L, k)
  BY DEF Task
<1>2. \A k \in Ids : (k \in list_tasks(M) <=> Task(M, k) \in TaskRecord)
                     /\ (k \in list_tasks(L) <=> Task(L, k) \in TaskRecord)
  BY LedgerFields
<1>3. \A k \in Ids \ {i} : k \in list_tasks(M) <=> k \in list_tasks(L)
  BY <1>1, <1>2
<1>4. \A k \in Ids \ {i} : /\ k \in visible_tasks(M) <=> k \in visible_tasks(L)
                           /\ k \in task_dirs(M) <=> k \in task_dirs(L)
  BY <1>1, <1>3 DEF visible_tasks, task_dirs
<1>5. i \in list_tasks(M) <=> b.task \in TaskRecord
  BY <1>1, <1>2
<1>6. i \in visible_tasks(M) <=> b.task \in TaskRecord /\ ~b.task.archived
  BY <1>1, <1>5 DEF visible_tasks
<1>7. i \in task_dirs(M) <=> b # NoBundle
  BY DEF task_dirs
<1> QED BY <1>1, <1>3, <1>4, <1>5, <1>6, <1>7

\* A directory with a task.md.
LEMMA NoBundleFacts ==
    /\ NoBundle \in BundleRecord /\ NoBundle.task = NoTask
    /\ \A L \in LedgerRecord : list_tasks(L) \subseteq task_dirs(L)
<1>1. \A t \in BOOLEAN : [task |-> NoTask, reqs |-> {}, todos |-> t] \in BundleRecord
  BY DEF BundleRecord
<1>2. NoBundle \in BundleRecord
  BY <1>1, Zenon DEF NoBundle
<1>3. NoBundle.task = NoTask
  BY DEF NoBundle
<1> QED BY <1>2, <1>3 DEF list_tasks, task_dirs

\* A new ledger holds nothing.
LEMMA EmptyLedgerFacts ==
    /\ EmptyLedger \in LedgerRecord /\ list_tasks(EmptyLedger) = {} /\ task_dirs(EmptyLedger) = {}
    /\ EmptyLedger.active = 0 /\ \A v \in Versions : EmptyLedger.release[v] = 0
    /\ Pointers(EmptyLedger) /\ \A next : DirsOK(EmptyLedger, next)
    /\ ParentsOK(EmptyLedger)
<1> DEFINE bundle == [i \in Ids |-> NoBundle]
           release == [v \in Versions |-> 0]
<1>1. bundle \in [Ids -> BundleRecord] /\ release \in [Versions -> 0..MaxId] /\ 0 \in 0..MaxId
  BY NoBundleFacts, LedgerAssumption
<1>2. EmptyLedger = [bundle |-> bundle, active |-> 0, release |-> release]
  BY DEF EmptyLedger
<1>3. \A i \in Ids : bundle[i] = NoBundle
  OBVIOUS
<1>4. \A v \in Versions : release[v] = 0
  OBVIOUS
<1> HIDE DEF bundle, release
<1>5. EmptyLedger \in LedgerRecord /\ EmptyLedger.bundle = bundle /\ EmptyLedger.active = 0
      /\ EmptyLedger.release = release
  BY <1>1, <1>2 DEF LedgerRecord, BundleRecord
<1>6. list_tasks(EmptyLedger) = {} /\ task_dirs(EmptyLedger) = {}
  BY <1>3, <1>5, NoBundleFacts DEF list_tasks, task_dirs
<1> QED BY <1>4, <1>5, <1>6 DEF Pointers, DirsOK, ParentsOK

-----------------------------------------------------------------------------
(* Steps on the current ledger *)

\* The current ledger, as the invariant has it.
LEMMA CurrentFacts ==
    ASSUME ExchangeInv
    PROVE  /\ LedgerInv(config.ref, Current, native, config.next, interrupted, renumbered, torn.ledgers)
           /\ Current \in LedgerRecord /\ Resolved(Current) /\ NativeOK(config.ref, Current, native)
           /\ interrupted \/ DirsOK(Current, config.next)
           /\ renumbered \/ ParentsOK(Current)
           /\ config.ref \in Ledgers /\ config.next \in Nat /\ config.next \in 1..MaxId + 1
<1>1. config.ref \in DOMAIN ledgers
  BY DEF ExchangeInv, LedgersInv
<1>2. LedgerInv(config.ref, Current, native, config.next, interrupted, renumbered, torn.ledgers)
  BY <1>1 DEF ExchangeInv, LedgersInv, Current
<1>3. config.ref \in Ledgers /\ config.next \in 1..MaxId + 1 /\ config.next \in Nat
  BY DEF ExchangeInv, ConfigTypes
<1> QED BY <1>2, <1>3 DEF LedgerInv, Resolved

\* An archive that is left alone stays what it was.
LEMMA ArchiveKept ==
    ASSUME ExchangeInv, archive' = archive, renumbered => renumbered',
           torn'.archive = torn.archive
    PROVE  ArchiveInv'
BY DEF ExchangeInv, ArchiveInv, PayloadOK

\* A step after which every id that was a task's is still that task's.
TasksKept ==
    \A l \in DOMAIN ledgers : \A i \in list_tasks(ledgers[l]) :
        Task(ledgers'[l], i).uid = Task(ledgers[l], i).uid

\* A change to the current ledger touches no other.
LEMMA CurrentKeepsTasks ==
    ASSUME ExchangeInv, NEW L, SetCurrent(L),
           \A i \in list_tasks(Current) : Task(L, i).uid = Task(Current, i).uid
    PROVE  TasksKept
<1>1. ledgers \in [DOMAIN ledgers -> LedgerRecord] /\ config.ref \in DOMAIN ledgers
  BY DEF ExchangeInv, LedgersInv
<1>2. /\ ledgers'[config.ref] = L
      /\ \A l \in DOMAIN ledgers \ {config.ref} : ledgers'[l] = ledgers[l]
  BY <1>1 DEF SetCurrent
<1> QED BY <1>1, <1>2 DEF TasksKept, Current

\* So does the record of the clears that were cut short.
LEMMA TornKept ==
    ASSUME ExchangeInv, torn' = torn
    PROVE  /\ torn' \in [ledgers: SUBSET Ledgers, archive: BOOLEAN] /\ torn'.archive = torn.archive
           /\ torn.ledgers \subseteq torn'.ledgers \cup {config.ref}
BY DEF ExchangeInv, ConfigTypes

\* A step that changes the current ledger.
LEMMA CurrentStep ==
    ASSUME ExchangeInv, NEW L, SetCurrent(L),
           config' \in [ref: Ledgers, parent_ref: Ledgers, next: 1..MaxId + 1],
           config'.ref = config.ref, config.next <= config'.next,
           births' \in 0..MaxBirths,
           interrupted' \in BOOLEAN, interrupted => interrupted',
           renumbered' \in BOOLEAN, renumbered => renumbered',
           native' \subseteq Ledgers \X Ids, \A p \in native' : p \in native \/ p[1] = config.ref,
           LedgerInv(config.ref, L, native', config'.next, interrupted', renumbered', torn'.ledgers),
           archive' = archive,
           torn' \in [ledgers: SUBSET Ledgers, archive: BOOLEAN], torn'.archive = torn.archive,
           torn.ledgers \subseteq torn'.ledgers \cup {config.ref}
    PROVE  ExchangeInv'
<1>1. /\ ledgers \in [DOMAIN ledgers -> LedgerRecord] /\ DOMAIN ledgers \subseteq Ledgers
      /\ config.ref \in DOMAIN ledgers /\ \A p \in native : p[1] \in DOMAIN ledgers
      /\ \A l \in DOMAIN ledgers :
            LedgerInv(l, ledgers[l], native, config.next, interrupted, renumbered, torn.ledgers)
  BY DEF ExchangeInv, LedgersInv
<1>2. L \in LedgerRecord
  BY DEF LedgerInv
<1>3. /\ ledgers' \in [DOMAIN ledgers -> LedgerRecord] /\ DOMAIN ledgers' = DOMAIN ledgers
      /\ ledgers'[config.ref] = L
      /\ \A l \in DOMAIN ledgers \ {config.ref} : ledgers'[l] = ledgers[l]
  BY <1>1, <1>2 DEF SetCurrent
<1>4. ASSUME NEW l \in DOMAIN ledgers \ {config.ref}
      PROVE  LedgerInv(l, ledgers[l], native', config'.next, interrupted', renumbered', torn'.ledgers)
  <2> DEFINE M == ledgers[l]
  <2>1. LedgerInv(l, M, native, config.next, interrupted, renumbered, torn.ledgers) /\ M \in LedgerRecord
    BY <1>1, <1>4 DEF LedgerInv
  <2> HIDE DEF M
  <2>2. \A i : <<l, i>> \in native' => <<l, i>> \in native
    BY <1>4
  <2>3. NativeOK(l, M, native')
    BY <2>1, <2>2 DEF LedgerInv, NativeOK
  <2>4. interrupted' \/ DirsOK(M, config'.next)
    <3>1. config.next \in Nat /\ config'.next \in Nat
      BY DEF ExchangeInv, ConfigTypes
    <3>2. \A i \in task_dirs(M) : i \in Nat
      BY <2>1, LedgerFields DEF Ids
    <3> QED BY <2>1, <3>1, <3>2 DEF LedgerInv, DirsOK
  <2> QED BY <2>1, <2>3, <2>4 DEF LedgerInv, M
<1>5. \A l \in DOMAIN ledgers' :
         LedgerInv(l, ledgers'[l], native', config'.next, interrupted', renumbered', torn'.ledgers)
  BY <1>1, <1>3, <1>4
<1>6. LedgersInv'
  BY <1>1, <1>3, <1>5 DEF LedgersInv
<1>7. ConfigTypes'
  BY DEF ConfigTypes
<1> QED BY <1>6, <1>7, ArchiveKept DEF ExchangeInv

\* A change to the tasks there are, under the condition that pointers resolve
\* afterwards and that slugs are kept or new.
LEMMA EditStep ==
    ASSUME ExchangeInv, NEW L \in LedgerRecord, EditCurrent(L),
           UNCHANGED <<archive, interrupted, renumbered, torn>>,
           list_tasks(L) = list_tasks(Current),
           task_dirs(L) \subseteq task_dirs(Current),
           \A i \in list_tasks(L) : /\ Task(L, i).parent_task_id = Task(Current, i).parent_task_id
                                    /\ Task(L, i).uid = Task(Current, i).uid,
           Resolved(L),
           \A i \in visible_tasks(L) :
               \/ i \in visible_tasks(Current) /\ Task(L, i).slug = Task(Current, i).slug
               \/ \A k \in visible_tasks(L) \ {i} : Task(L, k).slug # Task(L, i).slug
    PROVE  ExchangeInv' /\ TasksKept /\ births' = births
<1>1. /\ SetCurrent(L) /\ config' = config /\ births' = births /\ native' = native
      /\ archive' = archive /\ interrupted' = interrupted /\ renumbered' = renumbered /\ torn' = torn
  BY DEF EditCurrent
<1>2. /\ NativeOK(config.ref, Current, native)
      /\ interrupted \/ DirsOK(Current, config.next)
      /\ renumbered \/ ParentsOK(Current)
      /\ config.next \in Nat
  BY CurrentFacts
<1>3. NativeOK(config.ref, L, native)
  <2>1. \A i \in Ids : <<config.ref, i>> \in native => i \in list_tasks(L)
    BY <1>2 DEF NativeOK
  <2>2. ASSUME NEW i \in visible_tasks(L), NEW k \in visible_tasks(L),
               <<config.ref, i>> \in native, <<config.ref, k>> \in native, i # k
        PROVE  Task(L, i).slug # Task(L, k).slug
    BY <1>2, <2>2 DEF NativeOK
  <2> QED BY <2>1, <2>2 DEF NativeOK
<1>4. interrupted \/ DirsOK(L, config.next)
  BY <1>2 DEF DirsOK
<1>5. renumbered \/ ParentsOK(L)
  BY <1>2 DEF ParentsOK
<1>6. LedgerInv(config.ref, L, native', config'.next, interrupted', renumbered', torn'.ledgers)
  BY <1>1, <1>3, <1>4, <1>5 DEF LedgerInv, Resolved
<1>7. ConfigTypes
  BY DEF ExchangeInv
<1>8. /\ config' \in [ref: Ledgers, parent_ref: Ledgers, next: 1..MaxId + 1]
      /\ births' \in 0..MaxBirths /\ interrupted' \in BOOLEAN /\ renumbered' \in BOOLEAN
      /\ native' \subseteq Ledgers \X Ids
      /\ config.next <= config'.next
  BY <1>1, <1>2, <1>7 DEF ConfigTypes
<1>9. ExchangeInv'
  BY <1>1, <1>6, <1>8, TornKept, CurrentStep
<1> QED BY <1>1, <1>9, CurrentKeepsTasks

\* A change to one task there is.
LEMMA OneTaskEdit ==
    ASSUME ExchangeInv, NEW M \in LedgerRecord, EditCurrent(M),
           UNCHANGED <<archive, interrupted, renumbered, torn>>,
           NEW i \in list_tasks(Current), NEW b \in BundleRecord, b.task \in TaskRecord,
           M.bundle[i] = b, \A k \in Ids \ {i} : M.bundle[k] = Current.bundle[k],
           b.task.parent_task_id = Task(Current, i).parent_task_id, b.task.uid = Task(Current, i).uid,
           \/ b.task.archived
           \/ ~Task(Current, i).archived /\ b.task.slug = Task(Current, i).slug
           \/ \A k \in visible_tasks(Current) : Task(Current, k).slug # b.task.slug,
           M.release = Current.release, M.active \in {0, Current.active},
           Task(Current, i).status_stage = "done" => b.task.status_stage = "done",
           M.active = i => ActiveOK(b.task)
    PROVE  ExchangeInv' /\ TasksKept /\ births' = births
<1> DEFINE L == Current
<1>1. L \in LedgerRecord /\ Resolved(L)
  BY CurrentFacts
<1> HIDE DEF L
<1>2. /\ i \in Ids /\ list_tasks(L) \subseteq Ids /\ list_tasks(M) \subseteq Ids
      /\ visible_tasks(L) \subseteq Ids /\ visible_tasks(M) \subseteq Ids
      /\ task_dirs(M) \subseteq Ids /\ list_tasks(L) \subseteq task_dirs(L)
  BY <1>1, LedgerFields, NoBundleFacts DEF L
<1>3. /\ Task(M, i) = b.task
      /\ \A k \in Ids \ {i} : /\ Task(M, k) = Task(L, k)
                              /\ k \in list_tasks(M) <=> k \in list_tasks(L)
                              /\ k \in visible_tasks(M) <=> k \in visible_tasks(L)
                              /\ k \in task_dirs(M) <=> k \in task_dirs(L)
      /\ i \in list_tasks(M)
      /\ i \in visible_tasks(M) <=> ~b.task.archived
  BY <1>1, <1>2, SetBundleTasks DEF L
<1>4. i \in visible_tasks(L) <=> ~Task(L, i).archived
  BY DEF visible_tasks, L
<1>5. list_tasks(M) = list_tasks(L) /\ task_dirs(M) \subseteq task_dirs(L)
  BY <1>2, <1>3 DEF L
<1>6. \A k \in list_tasks(M) : /\ Task(M, k).parent_task_id = Task(L, k).parent_task_id
                               /\ Task(M, k).uid = Task(L, k).uid
  BY <1>2, <1>3 DEF L
<1>7. Resolved(M)
  <2> SUFFICES ASSUME Pointers(L) PROVE Pointers(M)
    BY <1>1 DEF Resolved
  <2>1. M.active # 0 => M.active \in list_tasks(M) /\ ActiveOK(Task(M, M.active))
    <3> SUFFICES ASSUME M.active # 0 PROVE M.active \in list_tasks(M) /\ ActiveOK(Task(M, M.active))
      OBVIOUS
    <3>1. M.active = L.active /\ L.active \in list_tasks(L) /\ ActiveOK(Task(L, L.active))
      BY DEF Pointers, L
    <3> QED BY <1>2, <1>3, <1>5, <3>1
  <2>2. ASSUME NEW v \in Versions, M.release[v] # 0
        PROVE  M.release[v] \in list_tasks(M) /\ Task(M, M.release[v]).status_stage = "done"
    <3>1. /\ M.release[v] = L.release[v] /\ L.release[v] \in list_tasks(L)
          /\ Task(L, L.release[v]).status_stage = "done"
      BY <2>2 DEF Pointers, L
    <3>2. CASE L.release[v] = i
      BY <1>3, <3>1, <3>2 DEF L
    <3>3. CASE L.release[v] # i
      BY <1>2, <1>3, <3>1, <3>3
    <3> QED BY <3>2, <3>3
  <2> QED BY <2>1, <2>2 DEF Pointers
<1>8. ASSUME NEW k \in visible_tasks(M)
      PROVE  \/ k \in visible_tasks(L) /\ Task(M, k).slug = Task(L, k).slug
             \/ \A j \in visible_tasks(M) \ {k} : Task(M, j).slug # Task(M, k).slug
  <2>1. CASE k # i
    BY <1>2, <1>3, <1>8, <2>1
  <2>2. CASE k = i
    <3>1. ~b.task.archived
      BY <1>3, <1>8, <2>2
    <3>2. CASE ~Task(L, i).archived /\ b.task.slug = Task(L, i).slug
      BY <1>3, <1>4, <2>2, <3>2
    <3>3. CASE \A j \in visible_tasks(L) : Task(L, j).slug # b.task.slug
      BY <1>2, <1>3, <2>2, <3>3
    <3> QED BY <3>1, <3>2, <3>3 DEF L
  <2> QED BY <2>1, <2>2
<1> QED BY <1>5, <1>6, <1>7, <1>8, EditStep DEF L

\* What the record of a task and its directory hold.
LEMMA TaskFields ==
    ASSUME NEW L \in LedgerRecord, NEW i \in list_tasks(L)
    PROVE  /\ i \in Ids /\ i \in Nat /\ i # 0 /\ L.bundle[i] \in BundleRecord /\ Task(L, i) = L.bundle[i].task
           /\ Task(L, i) \in TaskRecord
           /\ Task(L, i).status_stage \in {"open", "done"} /\ Task(L, i).archived \in BOOLEAN
           /\ Task(L, i).slug \in 1..MaxId /\ Task(L, i).parent_task_id \in 0..MaxId
           /\ L.bundle[i].reqs \in SUBSET Ids
<1>1. i \in Ids /\ L.bundle[i] \in BundleRecord /\ Task(L, i) = L.bundle[i].task /\ Task(L, i) \in TaskRecord
  BY LedgerFields
<1>2. L.bundle[i].reqs \in SUBSET Ids
  BY <1>1 DEF BundleRecord
<1>3. i \in Nat /\ i # 0
  BY <1>1 DEF Ids
<1> QED BY <1>1, <1>2, <1>3 DEF TaskRecord

\* The commands that change one task: finish_task, add_todo, add_requirement.
LEMMA TaskEdits ==
    ASSUME ExchangeInv, UNCHANGED <<archive, interrupted, renumbered, torn>>,
           finish_task \/ add_todo \/ add_requirement
    PROVE  ExchangeInv' /\ TasksKept /\ births' = births
<1> DEFINE L == Current
<1>1. L \in LedgerRecord /\ Resolved(L)
  BY CurrentFacts
<1>2. CASE finish_task
  <2>1. PICK i \in visible_tasks(L) : EditCurrent([L EXCEPT !.bundle[i].task.status_stage = "done"])
    BY <1>2 DEF finish_task
  <2> DEFINE t == [Task(L, i) EXCEPT !.status_stage = "done"]
             b == [L.bundle[i] EXCEPT !.task = t]
             M == SetBundle(L, i, b)
  <2>2. i \in list_tasks(L) /\ ~Task(L, i).archived
    BY <2>1 DEF visible_tasks
  <2> HIDE DEF L
  <2>3. i \in Ids /\ L.bundle[i] \in BundleRecord /\ Task(L, i) = L.bundle[i].task /\ Task(L, i) \in TaskRecord
    BY <1>1, <2>2, TaskFields
  <2>4. /\ t \in TaskRecord /\ t.parent_task_id = Task(L, i).parent_task_id /\ t.uid = Task(L, i).uid
        /\ t.slug = Task(L, i).slug /\ t.status_stage = "done"
    BY <2>3 DEF TaskRecord
  <2>5. t.archived = Task(L, i).archived
    BY <2>3 DEF TaskRecord
  <2> HIDE DEF t
  <2>6. b \in BundleRecord /\ b.task = t
    BY <2>3, <2>4 DEF BundleRecord
  <2>7. M = [L EXCEPT !.bundle[i].task.status_stage = "done"]
    BY <2>3 DEF SetBundle, t
  <2> HIDE DEF b
  <2>8. /\ M \in LedgerRecord /\ M.active = L.active /\ M.release = L.release
        /\ M.bundle[i] = b /\ \A k \in Ids \ {i} : M.bundle[k] = L.bundle[k]
    BY <1>1, <2>3, <2>6, SetBundleFields
  <2>9. EditCurrent(M)
    BY <2>1, <2>7
  <2> HIDE DEF M
  <2>10. ActiveOK(b.task)
    BY <2>2, <2>5, <2>6 DEF ActiveOK
  <2> QED BY <2>2, <2>4, <2>6, <2>8, <2>9, <2>10, OneTaskEdit DEF L
<1>3. ASSUME NEW i \in visible_tasks(L), NEW M, NEW b \in BundleRecord, b.task = Task(L, i),
             M = SetBundle(L, i, b), EditCurrent(M)
      PROVE  ExchangeInv' /\ TasksKept /\ births' = births
  <2>1. i \in list_tasks(L) /\ ~Task(L, i).archived
    BY DEF visible_tasks
  <2>2. i \in Ids /\ Task(L, i) \in TaskRecord
    BY <1>1, <2>1, TaskFields
  <2> HIDE DEF L
  <2>3. /\ M \in LedgerRecord /\ M.active = L.active /\ M.release = L.release
        /\ M.bundle[i] = b /\ \A k \in Ids \ {i} : M.bundle[k] = L.bundle[k]
    BY <1>1, <1>3, <2>2, SetBundleFields
  <2>4. ActiveOK(b.task)
    BY <1>3, <2>1 DEF ActiveOK
  <2> QED BY <1>3, <2>1, <2>2, <2>3, <2>4, OneTaskEdit DEF L
<1>4. CASE add_todo
  <2>1. PICK i \in visible_tasks(L) : EditCurrent([L EXCEPT !.bundle[i].todos = TRUE])
    BY <1>4 DEF add_todo
  <2> DEFINE b == [L.bundle[i] EXCEPT !.todos = TRUE]
  <2>2. i \in list_tasks(L)
    BY <2>1 DEF visible_tasks
  <2>3. /\ L.bundle[i] \in BundleRecord /\ Task(L, i) = L.bundle[i].task /\ i \in Ids
    BY <1>1, <2>2, TaskFields
  <2>4. \A c \in BundleRecord, t \in BOOLEAN :
           [c EXCEPT !.todos = t] \in BundleRecord /\ [c EXCEPT !.todos = t].task = c.task
    BY DEF BundleRecord
  <2>5. b \in BundleRecord /\ b.task = Task(L, i)
    BY <2>3, <2>4, Zenon
  <2>6. SetBundle(L, i, b) = [L EXCEPT !.bundle[i].todos = TRUE]
    BY Zenon DEF SetBundle
  <2>7. EditCurrent(SetBundle(L, i, b))
    BY <2>1, <2>6, Zenon
  <2> HIDE DEF b
  <2> QED BY <1>3, <2>1, <2>5, <2>7
<1>5. CASE add_requirement
  <2>1. PICK i \in visible_tasks(L), r \in list_tasks(L) :
           EditCurrent([L EXCEPT !.bundle[i].reqs = @ \cup {r}])
    BY <1>5 DEF add_requirement
  <2> DEFINE b == [L.bundle[i] EXCEPT !.reqs = @ \cup {r}]
  <2>2. i \in list_tasks(L)
    BY <2>1 DEF visible_tasks
  <2>3. /\ L.bundle[i] \in BundleRecord /\ Task(L, i) = L.bundle[i].task /\ i \in Ids
        /\ L.bundle[i].reqs \in SUBSET Ids /\ r \in Ids
    BY <1>1, <2>2, TaskFields
  <2> HIDE DEF L
  <2>4. b \in BundleRecord /\ b.task = Task(L, i)
    BY <2>3 DEF BundleRecord
  <2>5. SetBundle(L, i, b) = [L EXCEPT !.bundle[i].reqs = @ \cup {r}]
    BY DEF SetBundle
  <2>6. EditCurrent(SetBundle(L, i, b))
    BY <2>1, <2>5
  <2> HIDE DEF b
  <2> QED BY <1>3, <2>1, <2>4, <2>6
<1> QED BY <1>2, <1>4, <1>5

\* Archiving, and bringing back under a slug that no visible task bears.
LEMMA ArchiveEdits ==
    ASSUME ExchangeInv, UNCHANGED <<archive, interrupted, renumbered, torn>>,
           archive_task \/ unarchive_task
    PROVE  ExchangeInv' /\ TasksKept /\ births' = births
<1> DEFINE L == Current
<1>1. L \in LedgerRecord /\ Resolved(L) /\ L.active \in 0..MaxId
  BY CurrentFacts, LedgerFields
<1>2. \A task \in TaskRecord, archived \in BOOLEAN, slug \in 1..MaxId :
         LET t == [task EXCEPT !.archived = archived, !.slug = slug]
         IN  /\ t \in TaskRecord /\ t.parent_task_id = task.parent_task_id /\ t.uid = task.uid
             /\ t.status_stage = task.status_stage /\ t.archived = archived /\ t.slug = slug
  BY DEF TaskRecord
<1>3. \A task \in TaskRecord, archived \in BOOLEAN :
         LET t == [task EXCEPT !.archived = archived]
         IN  /\ t \in TaskRecord /\ t.parent_task_id = task.parent_task_id /\ t.uid = task.uid
             /\ t.status_stage = task.status_stage /\ t.archived = archived
  BY DEF TaskRecord
<1>4. \A b \in BundleRecord, t \in TaskRecord :
         [b EXCEPT !.task = t] \in BundleRecord /\ [b EXCEPT !.task = t].task = t
  BY DEF BundleRecord
<1>5. CASE archive_task
  <2>1. PICK i \in visible_tasks(L) :
           EditCurrent([L EXCEPT !.bundle[i].task.archived = TRUE,
                                 !.active = IF Task(L, i).status_stage = "done" /\ @ = i THEN 0 ELSE @])
    BY <1>5, Zenon DEF archive_task
  <2> DEFINE t == [Task(L, i) EXCEPT !.archived = TRUE]
             b == [L.bundle[i] EXCEPT !.task = t]
             a == IF Task(L, i).status_stage = "done" /\ L.active = i THEN 0 ELSE L.active
             K == SetBundle(L, i, b)
             M == [K EXCEPT !.active = a]
  <2>2. i \in list_tasks(L)
    BY <2>1 DEF visible_tasks
  <2>3. i \in Ids /\ L.bundle[i] \in BundleRecord /\ Task(L, i) = L.bundle[i].task /\ Task(L, i) \in TaskRecord
        /\ i # 0 /\ Task(L, i).status_stage \in {"open", "done"}
    BY <1>1, <2>2, TaskFields
  <2>4. /\ t \in TaskRecord /\ t.parent_task_id = Task(L, i).parent_task_id /\ t.uid = Task(L, i).uid
        /\ t.status_stage = Task(L, i).status_stage /\ t.archived = TRUE
    BY <1>3, <2>3, Zenon
  <2>5. M = [L EXCEPT !.bundle[i].task.archived = TRUE,
                      !.active = IF Task(L, i).status_stage = "done" /\ @ = i THEN 0 ELSE @]
    <3>1. K = [L EXCEPT !.bundle[i].task.archived = TRUE]
      BY Zenon DEF SetBundle, Task
    <3>2. K.active = L.active
      BY DEF SetBundle
    <3> QED BY <3>1, <3>2, Zenon
  <2> HIDE DEF L, t
  <2>6. b \in BundleRecord /\ b.task = t
    BY <1>4, <2>3, <2>4
  <2> HIDE DEF b
  <2>7. /\ K \in LedgerRecord /\ K.active = L.active /\ K.release = L.release
        /\ K.bundle[i] = b /\ \A k \in Ids \ {i} : K.bundle[k] = L.bundle[k]
    BY <1>1, <2>3, <2>6, SetBundleFields
  <2>8. a \in 0..MaxId /\ a \in {0, L.active}
    BY <1>1, LedgerAssumption
  <2> HIDE DEF K, a
  <2>9. M \in LedgerRecord /\ M.active = a /\ M.release = K.release /\ M.bundle = K.bundle
    BY <2>7, <2>8 DEF LedgerRecord
  <2>10. EditCurrent(M)
    BY <2>1, <2>5 DEF L
  <2> HIDE DEF M
  <2>11. M.active = i => ActiveOK(b.task)
    BY <2>3, <2>4, <2>6, <2>9 DEF ActiveOK, a
  <2>12. b.task.archived
    BY <2>4, <2>6
  <2> QED BY <2>2, <2>4, <2>6, <2>7, <2>8, <2>9, <2>10, <2>11, <2>12, OneTaskEdit DEF L
<1>6. CASE unarchive_task
  <2>1. PICK i \in list_tasks(L) \ visible_tasks(L), slug \in 1..MaxId :
           /\ slug_free(L, slug)
           /\ EditCurrent([L EXCEPT !.bundle[i].task.archived = FALSE, !.bundle[i].task.slug = slug])
    BY <1>6, Zenon DEF unarchive_task
  <2> DEFINE t == [Task(L, i) EXCEPT !.archived = FALSE, !.slug = slug]
             b == [L.bundle[i] EXCEPT !.task = t]
             M == SetBundle(L, i, b)
  <2>2. i \in list_tasks(L) /\ i \in Ids
    BY <2>1 DEF list_tasks
  <2>3. L.bundle[i] \in BundleRecord /\ Task(L, i) = L.bundle[i].task /\ Task(L, i) \in TaskRecord
    BY <1>1, <2>2, TaskFields
  <2>4. /\ t \in TaskRecord /\ t.parent_task_id = Task(L, i).parent_task_id /\ t.uid = Task(L, i).uid
        /\ t.status_stage = Task(L, i).status_stage /\ t.archived = FALSE /\ t.slug = slug
    BY <1>2, <2>1, <2>3, Zenon
  <2>5. M = [L EXCEPT !.bundle[i].task.archived = FALSE, !.bundle[i].task.slug = slug]
    BY <1>1, <2>2, <2>3 DEF SetBundle, LedgerRecord, BundleRecord
  <2> HIDE DEF L, t
  <2>6. b \in BundleRecord /\ b.task = t
    BY <1>4, <2>3, <2>4
  <2> HIDE DEF b
  <2>7. /\ M \in LedgerRecord /\ M.active = L.active /\ M.release = L.release
        /\ M.bundle[i] = b /\ \A k \in Ids \ {i} : M.bundle[k] = L.bundle[k]
    BY <1>1, <2>2, <2>6, SetBundleFields
  <2>8. EditCurrent(M)
    BY <2>1, <2>5 DEF L
  <2> HIDE DEF M
  <2>9. ActiveOK(b.task)
    BY <2>4, <2>6 DEF ActiveOK
  <2>10. \A k \in visible_tasks(L) : Task(L, k).slug # b.task.slug
    BY <2>1, <2>4, <2>6 DEF slug_free
  <2> QED BY <2>2, <2>4, <2>6, <2>7, <2>8, <2>9, <2>10, OneTaskEdit DEF L
<1> QED BY <1>5, <1>6

\* The commands that set a pointer.
LEMMA PointerEdits ==
    ASSUME ExchangeInv, UNCHANGED <<archive, interrupted, renumbered, torn>>,
           activate_task \/ clear_active_task \/ tag_release
    PROVE  ExchangeInv' /\ TasksKept /\ births' = births
<1> DEFINE L == Current
<1>1. L \in LedgerRecord /\ Resolved(L) /\ L.active \in 0..MaxId /\ L.release \in [Versions -> 0..MaxId]
  BY CurrentFacts, LedgerFields
<1>2. ASSUME NEW M \in LedgerRecord, EditCurrent(M), M.bundle = L.bundle, Resolved(M)
      PROVE  ExchangeInv' /\ TasksKept /\ births' = births
  <2>1. /\ list_tasks(M) = list_tasks(L) /\ task_dirs(M) = task_dirs(L)
        /\ visible_tasks(M) = visible_tasks(L) /\ \A i : Task(M, i) = Task(L, i)
    BY <1>2 DEF list_tasks, task_dirs, visible_tasks, Task
  <2> QED BY <1>2, <2>1, EditStep
<1>3. ASSUME NEW a \in 0..MaxId, EditCurrent([L EXCEPT !.active = a]),
             a # 0 => a \in visible_tasks(L)
      PROVE  ExchangeInv' /\ TasksKept /\ births' = births
  <2> DEFINE M == [L EXCEPT !.active = a]
  <2> HIDE DEF L
  <2>1. M \in LedgerRecord /\ M.bundle = L.bundle /\ M.active = a /\ M.release = L.release
    BY <1>1 DEF LedgerRecord
  <2>2. EditCurrent(M)
    BY <1>3
  <2> HIDE DEF M
  <2>3. list_tasks(M) = list_tasks(L) /\ \A i : Task(M, i) = Task(L, i)
    BY <2>1 DEF list_tasks, Task
  <2>4. Resolved(M)
    BY <1>1, <1>3, <2>1, <2>3 DEF Resolved, Pointers, ActiveOK, visible_tasks
  <2> QED BY <1>2, <2>1, <2>2, <2>4
<1>4. CASE activate_task
  <2>1. PICK i \in visible_tasks(L) : EditCurrent([L EXCEPT !.active = i])
    BY <1>4 DEF activate_task
  <2>2. i \in 0..MaxId
    BY <2>1 DEF visible_tasks, list_tasks, Ids
  <2> QED BY <1>3, <2>1, <2>2
<1>5. CASE clear_active_task
  BY <1>3, <1>5, LedgerAssumption DEF clear_active_task
<1>6. CASE tag_release
  <2>1. PICK v \in Versions, i \in list_tasks(L) :
           /\ Task(L, i).status_stage = "done"
           /\ EditCurrent([L EXCEPT !.release[v] = i])
    BY <1>6 DEF tag_release
  <2> DEFINE M == [L EXCEPT !.release[v] = i]
  <2>2. i \in 0..MaxId
    BY <2>1 DEF list_tasks, Ids
  <2> HIDE DEF L
  <2>3. /\ M \in LedgerRecord /\ M.bundle = L.bundle /\ M.active = L.active
        /\ M.release = [L.release EXCEPT ![v] = i]
    BY <1>1, <2>2 DEF LedgerRecord
  <2>4. EditCurrent(M)
    BY <2>1
  <2> HIDE DEF M
  <2>5. list_tasks(M) = list_tasks(L) /\ \A k : Task(M, k) = Task(L, k)
    BY <2>3 DEF list_tasks, Task
  <2>6. Resolved(M)
    BY <1>1, <2>1, <2>3, <2>5 DEF Resolved, Pointers
  <2> QED BY <1>2, <2>3, <2>4, <2>6
<1> QED BY <1>4, <1>5, <1>6

-----------------------------------------------------------------------------
(* New tasks, other ledgers and archives *)

\* What create_task, create_follow_up_task and record_completed_task do: a
\* task.md under a number above every task's, in the directory of that number.
NewTaskShape(id, t, parent) ==
    LET L == Current
        b == [L.bundle[id] EXCEPT !.task = t]
    IN  /\ id \in Ids /\ id \notin list_tasks(L) /\ \A k \in list_tasks(L) : k < id
        /\ config.next <= id
        /\ t \in TaskRecord /\ t.uid = births + 1 /\ t.parent_task_id = parent
        /\ \A i \in visible_tasks(L) : Task(L, i).slug # t.slug
        /\ b \in BundleRecord /\ b.task = t
        /\ SetCurrent(SetBundle(L, id, b))
        /\ config' = [config EXCEPT !.next = id + 1]
        /\ births' = births + 1 /\ births' \in 0..MaxBirths
        /\ native' = native \cup {<<config.ref, id>>}

\* NewTask has that shape.
LEMMA NewTaskHasShape ==
    ASSUME ExchangeInv, NEW stage \in {"open", "done"}, NEW parent \in 0..MaxId, NewTask(stage, parent)
    PROVE  \E id, t : NewTaskShape(id, t, parent)
<1> DEFINE L == Current
           id == allocate_ledger_task_id(list_tasks(L), config.next)
           task(archived) == [uid |-> births + 1, slug |-> unique_slug(L), status_stage |-> stage,
                              archived |-> archived, parent_task_id |-> parent]
           t == task(FALSE)
           b == [L.bundle[id] EXCEPT !.task = t]
<1>1. L \in LedgerRecord /\ config.next \in Nat /\ list_tasks(L) \subseteq Ids
  BY CurrentFacts, LedgerFields
<1>2. births \in 0..MaxBirths
  BY DEF ExchangeInv, ConfigTypes
<1>3. /\ births < MaxBirths /\ id <= MaxId /\ births' = births + 1
      /\ native' = native \cup {<<config.ref, id>>}
      /\ config' = [config EXCEPT !.next = id + 1]
      /\ SetCurrent(SetTask(L, id, t))
  BY Zenon DEF NewTask
<1>4. id \in Nat /\ id >= config.next /\ id >= 1 /\ \A k \in list_tasks(L) : k < id
  BY <1>1, AllocatedAbove
<1> HIDE DEF L, id
<1>5. id \in Ids /\ id \notin list_tasks(L)
  BY <1>3, <1>4, LedgerAssumption DEF Ids
<1>6. id \notin visible_tasks(L)
  BY <1>5 DEF visible_tasks
<1>7. /\ unique_slug(L) \in 1..MaxId
      /\ \A i \in visible_tasks(L) : Task(L, i).slug # unique_slug(L)
  BY <1>5, <1>6, SlugLeft
<1>8. births + 1 \in 1..MaxBirths + 1 /\ births + 1 \in 0..MaxBirths
  BY <1>2, <1>3, LedgerAssumption
<1>9. \A archived \in BOOLEAN :
         task(archived) \in TaskRecord
  BY <1>7, <1>8 DEF TaskRecord
<1>10. t \in TaskRecord
  BY <1>9, Zenon
<1>11. t.uid = births + 1 /\ t.slug = unique_slug(L) /\ t.parent_task_id = parent
  OBVIOUS
<1> HIDE DEF t
<1>12. L.bundle[id] \in BundleRecord
  BY <1>1, <1>5, LedgerFields
<1>13. b \in BundleRecord /\ b.task = t
  BY <1>10, <1>12 DEF BundleRecord
<1>14. SetTask(L, id, t) = SetBundle(L, id, b)
  BY DEF SetTask, SetBundle
<1>15. SetCurrent(SetBundle(L, id, b))
  BY <1>3, <1>14
<1>16. config.next <= id
  BY <1>1, <1>4
<1>17. \A i \in visible_tasks(L) : Task(L, i).slug # t.slug
  BY <1>7, <1>11
<1>18. births' \in 0..MaxBirths
  BY <1>3, <1>8
<1>19. NewTaskShape(id, t, parent)
  BY <1>3, <1>4, <1>5, <1>10, <1>11, <1>13, <1>15, <1>16, <1>17, <1>18 DEF NewTaskShape, L
<1> QED BY <1>19

\* The invariant is kept by what has that shape.
LEMMA NewTaskKeeps ==
    ASSUME ExchangeInv, NEW id, NEW t, NEW parent \in 0..MaxId, NewTaskShape(id, t, parent),
           parent = 0 \/ parent \in list_tasks(Current),
           UNCHANGED <<archive, interrupted, renumbered, torn>>
    PROVE  ExchangeInv'
<1> DEFINE L == Current
           b == [L.bundle[id] EXCEPT !.task = t]
           M == SetBundle(L, id, b)
           N == native \cup {<<config.ref, id>>}
<1>1. /\ L \in LedgerRecord /\ Resolved(L) /\ NativeOK(config.ref, L, native)
      /\ config.ref \in Ledgers /\ config.next \in Nat
  BY CurrentFacts
<1>2. interrupted \/ DirsOK(L, config.next)
  BY CurrentFacts
<1>3. renumbered \/ ParentsOK(L)
  BY CurrentFacts
<1>4. /\ id \in Ids /\ id \notin list_tasks(L) /\ \A k \in list_tasks(L) : k < id
      /\ config.next <= id
      /\ t \in TaskRecord /\ t.parent_task_id = parent
      /\ \A i \in visible_tasks(L) : Task(L, i).slug # t.slug
      /\ b \in BundleRecord /\ b.task = t
      /\ SetCurrent(M)
      /\ config' = [config EXCEPT !.next = id + 1]
      /\ births' \in 0..MaxBirths
      /\ native' = N
  BY DEF NewTaskShape
<1> HIDE DEF L, b
<1>5. /\ M \in LedgerRecord /\ M.active = L.active /\ M.release = L.release
      /\ M.bundle[id] = b /\ \A k \in Ids \ {id} : M.bundle[k] = L.bundle[k]
  BY <1>1, <1>4, SetBundleFields
<1> HIDE DEF M
<1>6. /\ Task(M, id) = t
      /\ \A k \in Ids \ {id} : /\ Task(M, k) = Task(L, k)
                               /\ k \in list_tasks(M) <=> k \in list_tasks(L)
                               /\ k \in visible_tasks(M) <=> k \in visible_tasks(L)
                               /\ k \in task_dirs(M) <=> k \in task_dirs(L)
      /\ id \in list_tasks(M)
  BY <1>1, <1>4, <1>5, SetBundleTasks
<1>7. /\ list_tasks(L) \subseteq Ids \ {id} /\ list_tasks(M) \subseteq Ids /\ visible_tasks(M) \subseteq Ids
      /\ task_dirs(M) \subseteq Ids
  BY <1>1, <1>4, <1>5, LedgerFields
<1>8. Resolved(M)
  BY <1>1, <1>5, <1>6, <1>7 DEF Resolved, Pointers
<1>9. NativeOK(config.ref, M, N)
  <2>1. ASSUME NEW i \in Ids, <<config.ref, i>> \in N PROVE i \in list_tasks(M)
    <3>1. CASE i = id
      BY <1>6, <3>1
    <3>2. CASE i # id
      BY <1>1, <1>6, <2>1, <3>2 DEF NativeOK
    <3> QED BY <3>1, <3>2
  <2>2. ASSUME NEW i \in visible_tasks(M), NEW k \in visible_tasks(M),
               <<config.ref, i>> \in N, <<config.ref, k>> \in N, i # k
        PROVE  Task(M, i).slug # Task(M, k).slug
    <3>1. CASE i # id /\ k # id
      <4>1. i \in visible_tasks(L) /\ k \in visible_tasks(L) /\ Task(M, i) = Task(L, i) /\ Task(M, k) = Task(L, k)
        BY <1>6, <1>7, <3>1
      <4>2. <<config.ref, i>> \in native /\ <<config.ref, k>> \in native
        BY <2>2, <3>1
      <4> QED BY <1>1, <2>2, <4>1, <4>2 DEF NativeOK
    <3>2. CASE i = id
      BY <1>4, <1>6, <1>7, <2>2, <3>2
    <3>3. CASE k = id
      BY <1>4, <1>6, <1>7, <2>2, <3>3
    <3> QED BY <3>1, <3>2, <3>3
  <2> QED BY <2>1, <2>2 DEF NativeOK
<1>10. /\ id \in Nat /\ id + 1 \in 1..MaxId + 1 /\ config.next <= id + 1 /\ id # 0
  BY <1>1, <1>4, LedgerAssumption DEF Ids
<1>11. interrupted \/ DirsOK(M, id + 1)
  <2> SUFFICES ASSUME ~interrupted PROVE DirsOK(M, id + 1)
    OBVIOUS
  <2>1. ASSUME NEW i \in task_dirs(M) \ list_tasks(M) PROVE i < id + 1
    <3>1. i # id /\ i \in Ids
      BY <1>6, <1>7, <2>1
    <3>2. i \in task_dirs(L) \ list_tasks(L)
      BY <1>6, <2>1, <3>1
    <3>3. i < config.next
      BY <1>2, <3>2 DEF DirsOK
    <3>4. i \in Nat
      BY <3>1 DEF Ids
    <3> QED BY <1>1, <1>10, <3>3, <3>4
  <2> QED BY <2>1 DEF DirsOK
<1>12. renumbered \/ ParentsOK(M)
  <2> SUFFICES ASSUME ~renumbered PROVE ParentsOK(M)
    OBVIOUS
  <2>1. ASSUME NEW i \in list_tasks(M) PROVE Task(M, i).parent_task_id < i
    <3>1. CASE i = id
      <4>1. parent < id
        BY <1>4, <1>10 DEF L
      <4> QED BY <1>4, <1>6, <3>1, <4>1
    <3>2. CASE i # id
      BY <1>3, <1>6, <1>7, <2>1, <3>2 DEF ParentsOK
    <3> QED BY <3>1, <3>2
  <2> QED BY <2>1 DEF ParentsOK
<1>13. config \in [ref: Ledgers, parent_ref: Ledgers, next: 1..MaxId + 1] /\ native \subseteq Ledgers \X Ids
       /\ interrupted \in BOOLEAN /\ renumbered \in BOOLEAN
  BY DEF ExchangeInv, ConfigTypes
<1>14. /\ config' \in [ref: Ledgers, parent_ref: Ledgers, next: 1..MaxId + 1]
       /\ config'.ref = config.ref /\ config'.next = id + 1
  BY <1>4, <1>10, <1>13
<1>15. N \subseteq Ledgers \X Ids /\ \A p \in N : p \in native \/ p[1] = config.ref
  BY <1>1, <1>4, <1>13
<1>16. LedgerInv(config.ref, M, N, id + 1, interrupted, renumbered, torn.ledgers)
  BY <1>5, <1>8, <1>9, <1>11, <1>12 DEF LedgerInv, Resolved
<1> HIDE DEF N
<1> QED BY <1>4, <1>10, <1>13, <1>14, <1>15, <1>16, TornKept, CurrentStep

\* One task more.
LEMMA NewTasks ==
    ASSUME ExchangeInv, UNCHANGED <<archive, interrupted, renumbered, torn>>,
           create_task \/ create_follow_up_task \/ record_completed_task
    PROVE  \E id, t, parent : NewTaskShape(id, t, parent) /\ ExchangeInv'
<1>1. 0 \in 0..MaxId
  BY LedgerAssumption
<1>2. PICK stage \in {"open", "done"}, parent \in 0..MaxId :
         NewTask(stage, parent) /\ (parent = 0 \/ parent \in list_tasks(Current))
  <2>1. CASE create_task \/ record_completed_task
    BY <1>1, <2>1 DEF create_task, record_completed_task
  <2>2. CASE create_follow_up_task
    <3>1. PICK p \in visible_tasks(Current) : NewTask("open", p)
      BY <2>2 DEF create_follow_up_task
    <3>2. p \in list_tasks(Current) /\ p \in 0..MaxId
      BY <3>1 DEF visible_tasks, list_tasks, Ids
    <3> QED BY <3>1, <3>2
  <2> QED BY <2>1, <2>2
<1>3. PICK id, t : NewTaskShape(id, t, parent)
  BY <1>2, NewTaskHasShape
<1>4. ExchangeInv'
  BY <1>2, <1>3, NewTaskKeeps
<1> QED BY <1>3, <1>4

\* What ledger_adopt does: a directory of ledger l is copied to one that is
\* not there.
AdoptShape(l, i, id) ==
    /\ l \in DOMAIN ledgers /\ i \in task_dirs(ledgers[l])
    /\ id \in Ids /\ id \notin task_dirs(Current) /\ i <= id
    /\ SetCurrent(SetBundle(Current, id, ledgers[l].bundle[i]))
    /\ \/ id = i /\ config' = config
       \/ id >= config.next /\ config' = [config EXCEPT !.next = id + 1]
    /\ UNCHANGED <<births, native>>

\* ledger_adopt has that shape.
LEMMA AdoptHasShape ==
    ASSUME ExchangeInv, ledger_adopt
    PROVE  \E l, i, id : AdoptShape(l, i, id)
<1>0. PICK l \in DOMAIN ledgers :
         \E i \in task_dirs(ledgers[l]) :
             LET id == AdoptedId(i)
             IN  /\ id <= MaxId /\ id \notin task_dirs(Current)
                 /\ SetCurrent(SetBundle(Current, id, ledgers[l].bundle[i]))
                 /\ config' = IF id = i THEN config ELSE [config EXCEPT !.next = id + 1]
                 /\ UNCHANGED <<births, native>>
  BY DEF ledger_adopt
<1>1. PICK i \in task_dirs(ledgers[l]) :
         LET id == AdoptedId(i)
         IN  /\ id <= MaxId /\ id \notin task_dirs(Current)
             /\ SetCurrent(SetBundle(Current, id, ledgers[l].bundle[i]))
             /\ config' = IF id = i THEN config ELSE [config EXCEPT !.next = id + 1]
             /\ UNCHANGED <<births, native>>
  BY <1>0
<1> DEFINE id == AdoptedId(i)
<1>2. i \in Ids /\ i \in Nat
  BY DEF task_dirs, Ids
<1>3. Current \in LedgerRecord /\ config.next \in Nat /\ list_tasks(Current) \subseteq Ids
  BY CurrentFacts, LedgerFields
<1>4. CASE i \notin list_tasks(Current)
  <2>1. id = i
    BY <1>4 DEF AdoptedId
  <2> QED BY <1>1, <1>2, <2>1 DEF AdoptShape
<1>5. CASE i \in list_tasks(Current)
  <2>1. id = allocate_ledger_task_id(list_tasks(Current), config.next)
    BY <1>5 DEF AdoptedId
  <2>2. id \in Nat /\ id >= config.next /\ id >= 1 /\ i < id
    BY <1>3, <1>5, <2>1, AllocatedAbove
  <2> HIDE DEF id
  <2>3. /\ id <= MaxId /\ id \notin task_dirs(Current)
        /\ SetCurrent(SetBundle(Current, id, ledgers[l].bundle[i]))
        /\ config' = IF id = i THEN config ELSE [config EXCEPT !.next = id + 1]
        /\ UNCHANGED <<births, native>>
    BY <1>1 DEF id
  <2>4. id \in Ids /\ i <= id /\ id # i
    BY <1>2, <2>2, <2>3, LedgerAssumption DEF Ids
  <2> QED BY <1>1, <2>2, <2>3, <2>4 DEF AdoptShape
<1> QED BY <1>4, <1>5

\* The invariant is kept by what has that shape.
LEMMA AdoptKeeps ==
    ASSUME ExchangeInv, NEW l, NEW i, NEW id, AdoptShape(l, i, id),
           UNCHANGED <<archive, interrupted, renumbered, torn>>
    PROVE  ExchangeInv'
<1> DEFINE L == Current
           b == ledgers[l].bundle[i]
           M == SetBundle(L, id, b)
<1>1. /\ L \in LedgerRecord /\ Resolved(L) /\ NativeOK(config.ref, L, native)
      /\ config.next \in Nat /\ config.next \in 1..MaxId + 1
  BY CurrentFacts
<1>2. interrupted \/ DirsOK(L, config.next)
  BY CurrentFacts
<1>3. renumbered \/ ParentsOK(L)
  BY CurrentFacts
<1>4. /\ l \in DOMAIN ledgers /\ i \in task_dirs(ledgers[l])
      /\ id \in Ids /\ id \notin task_dirs(L) /\ i <= id
      /\ SetCurrent(M) /\ births' = births /\ native' = native
      /\ \/ id = i /\ config' = config
         \/ id >= config.next /\ config' = [config EXCEPT !.next = id + 1]
  BY DEF AdoptShape
<1>5. /\ ledgers[l] \in LedgerRecord
      /\ interrupted \/ DirsOK(ledgers[l], config.next)
      /\ renumbered \/ ParentsOK(ledgers[l])
  BY <1>4 DEF ExchangeInv, LedgersInv, LedgerInv
<1> HIDE DEF L
<1>6. /\ i \in Ids /\ b \in BundleRecord /\ b.task = Task(ledgers[l], i)
      /\ b.task \in TaskRecord <=> i \in list_tasks(ledgers[l])
  BY <1>4, <1>5, LedgerFields
<1> HIDE DEF b
<1>7. /\ M \in LedgerRecord /\ M.active = L.active /\ M.release = L.release
      /\ M.bundle[id] = b /\ \A k \in Ids \ {id} : M.bundle[k] = L.bundle[k]
  BY <1>1, <1>4, <1>6, SetBundleFields
<1>8. SetCurrent(M)
  BY <1>4
<1> HIDE DEF M
<1>9. /\ Task(M, id) = b.task
      /\ \A k \in Ids \ {id} : /\ Task(M, k) = Task(L, k)
                               /\ k \in list_tasks(M) <=> k \in list_tasks(L)
                               /\ k \in visible_tasks(M) <=> k \in visible_tasks(L)
                               /\ k \in task_dirs(M) <=> k \in task_dirs(L)
      /\ id \in list_tasks(M) <=> b.task \in TaskRecord
  BY <1>1, <1>4, <1>6, <1>7, SetBundleTasks
<1>10. /\ list_tasks(L) \subseteq Ids \ {id} /\ list_tasks(M) \subseteq Ids /\ visible_tasks(M) \subseteq Ids
       /\ task_dirs(M) \subseteq Ids /\ id \notin list_tasks(L)
  BY <1>1, <1>4, <1>7, LedgerFields, NoBundleFacts
<1>11. Resolved(M)
  BY <1>1, <1>7, <1>9, <1>10 DEF Resolved, Pointers
<1>12. NativeOK(config.ref, M, native)
  <2>1. <<config.ref, id>> \notin native
    BY <1>1, <1>4, <1>10 DEF NativeOK
  <2>2. ASSUME NEW k \in Ids, <<config.ref, k>> \in native
        PROVE  k # id /\ k \in list_tasks(M)
    BY <1>1, <1>9, <2>1, <2>2 DEF NativeOK
  <2>3. ASSUME NEW j \in visible_tasks(M), NEW k \in visible_tasks(M),
               <<config.ref, j>> \in native, <<config.ref, k>> \in native, j # k
        PROVE  Task(M, j).slug # Task(M, k).slug
    <3>1. j # id /\ k # id /\ j \in Ids /\ k \in Ids
      BY <1>10, <2>1, <2>3
    <3>2. j \in visible_tasks(L) /\ k \in visible_tasks(L) /\ Task(M, j) = Task(L, j) /\ Task(M, k) = Task(L, k)
      BY <1>9, <2>3, <3>1
    <3> QED BY <1>1, <2>3, <3>2 DEF NativeOK
  <2> QED BY <2>2, <2>3 DEF NativeOK
<1>13. id \in Nat /\ id + 1 \in 1..MaxId + 1 /\ i \in Nat /\ MaxId \in Nat
  BY <1>4, <1>6, LedgerAssumption DEF Ids
<1>14. config \in [ref: Ledgers, parent_ref: Ledgers, next: 1..MaxId + 1] /\ births \in 0..MaxBirths
       /\ native \subseteq Ledgers \X Ids /\ interrupted \in BOOLEAN /\ renumbered \in BOOLEAN
  BY DEF ExchangeInv, ConfigTypes
<1>15. /\ config' \in [ref: Ledgers, parent_ref: Ledgers, next: 1..MaxId + 1]
       /\ config'.ref = config.ref /\ config.next <= config'.next
       /\ id # i => config'.next = id + 1
  BY <1>1, <1>4, <1>13, <1>14
<1>16. interrupted \/ DirsOK(M, config'.next)
  <2> SUFFICES ASSUME ~interrupted PROVE DirsOK(M, config'.next)
    OBVIOUS
  <2>1. config'.next \in Nat
    BY <1>15
  <2>2. ASSUME NEW k \in task_dirs(M) \ list_tasks(M) PROVE k < config'.next
    <3>1. CASE k # id
      <4>1. k \in task_dirs(L) \ list_tasks(L) /\ k \in Nat
        BY <1>9, <1>10, <2>2, <3>1 DEF Ids
      <4>2. k < config.next
        BY <1>2, <4>1 DEF DirsOK
      <4> QED BY <1>1, <1>15, <2>1, <4>1, <4>2
    <3>2. CASE k = id /\ id = i
      <4>1. i \in task_dirs(ledgers[l]) \ list_tasks(ledgers[l])
        BY <1>4, <1>6, <1>9, <2>2, <3>2
      <4>2. i < config.next
        BY <1>5, <4>1 DEF DirsOK
      <4> QED BY <1>1, <1>13, <1>15, <2>1, <3>2, <4>2
    <3>3. CASE k = id /\ id # i
      BY <1>13, <1>15, <3>3
    <3> QED BY <3>1, <3>2, <3>3
  <2> QED BY <2>2 DEF DirsOK
<1>17. renumbered \/ ParentsOK(M)
  <2> SUFFICES ASSUME ~renumbered PROVE ParentsOK(M)
    OBVIOUS
  <2>1. ASSUME NEW k \in list_tasks(M) PROVE Task(M, k).parent_task_id < k
    <3>1. CASE k = id
      <4>1. i \in list_tasks(ledgers[l])
        BY <1>6, <1>9, <2>1, <3>1
      <4>2. Task(ledgers[l], i).parent_task_id < i /\ Task(ledgers[l], i).parent_task_id \in 0..MaxId
        BY <1>5, <4>1, TaskFields DEF ParentsOK
      <4>3. Task(ledgers[l], i).parent_task_id < id
        BY <1>4, <1>13, <4>2
      <4> QED BY <1>6, <1>9, <3>1, <4>3
    <3>2. CASE k # id
      BY <1>3, <1>9, <1>10, <2>1, <3>2 DEF ParentsOK
    <3> QED BY <3>1, <3>2
  <2> QED BY <2>1 DEF ParentsOK
<1>18. LedgerInv(config.ref, M, native, config'.next, interrupted, renumbered, torn.ledgers)
  BY <1>7, <1>11, <1>12, <1>16, <1>17 DEF LedgerInv, Resolved
<1> QED BY <1>4, <1>8, <1>14, <1>15, <1>18, TornKept, CurrentStep

\* The ledger directories after fork and switch: the others are as they were.
LEMMA OtherLedger ==
    ASSUME ExchangeInv, UNCHANGED <<archive, interrupted, renumbered, torn>>,
           ledger_fork \/ ledger_switch
    PROVE  /\ ExchangeInv' /\ \A l \in DOMAIN ledgers : ledgers'[l] = ledgers[l]
           /\ births' = births
<1>1. PICK l \in Ledgers : /\ \/ ledgers' = ledgers /\ l \in DOMAIN ledgers
                              \/ l \notin DOMAIN ledgers /\ WithLedger(l)
                           /\ \/ config' = [config EXCEPT !.ref = l, !.parent_ref = config.ref]
                              \/ config' = [config EXCEPT !.ref = l]
                           /\ births' = births /\ native' = native
  <2>1. CASE ledger_fork
    BY <2>1 DEF ledger_fork
  <2>2. CASE ledger_switch
    BY <2>2 DEF ledger_switch
  <2> QED BY <2>1, <2>2
<1>2. /\ config \in [ref: Ledgers, parent_ref: Ledgers, next: 1..MaxId + 1]
      /\ births \in 0..MaxBirths /\ native \subseteq Ledgers \X Ids
      /\ interrupted \in BOOLEAN /\ renumbered \in BOOLEAN
  BY DEF ExchangeInv, ConfigTypes
<1>3. /\ config' \in [ref: Ledgers, parent_ref: Ledgers, next: 1..MaxId + 1]
      /\ config'.ref = l /\ config'.next = config.next
  BY <1>1, <1>2
<1>4. ConfigTypes'
  BY <1>1, <1>2, <1>3, TornKept DEF ConfigTypes
<1>5. /\ ledgers \in [DOMAIN ledgers -> LedgerRecord] /\ DOMAIN ledgers \subseteq Ledgers
      /\ \A p \in native : p[1] \in DOMAIN ledgers
      /\ \A k \in DOMAIN ledgers :
            LedgerInv(k, ledgers[k], native, config.next, interrupted, renumbered, torn.ledgers)
  BY DEF ExchangeInv, LedgersInv
<1>6. CASE ledgers' = ledgers /\ l \in DOMAIN ledgers
  <2>1. LedgersInv'
    BY <1>1, <1>3, <1>5, <1>6 DEF LedgersInv
  <2> QED BY <1>1, <1>4, <1>6, <2>1, ArchiveKept DEF ExchangeInv
<1>7. CASE l \notin DOMAIN ledgers /\ WithLedger(l)
  <2>1. /\ DOMAIN ledgers' = DOMAIN ledgers \cup {l} /\ ledgers'[l] = EmptyLedger
        /\ \A k \in DOMAIN ledgers : ledgers'[k] = ledgers[k]
        /\ ledgers' \in [DOMAIN ledgers \cup {l} -> LedgerRecord]
    BY <1>5, <1>7, EmptyLedgerFacts DEF WithLedger
  <2>2. LedgerInv(l, EmptyLedger, native, config.next, interrupted, renumbered, torn.ledgers)
    <3>1. \A i : <<l, i>> \notin native
      BY <1>5, <1>7
    <3>2. NativeOK(l, EmptyLedger, native)
      BY <3>1 DEF NativeOK
    <3> QED BY <3>2, EmptyLedgerFacts DEF LedgerInv
  <2>3. \A k \in DOMAIN ledgers' :
           LedgerInv(k, ledgers'[k], native, config.next, interrupted, renumbered, torn.ledgers)
    BY <1>5, <2>1, <2>2
  <2>4. LedgersInv'
    BY <1>1, <1>3, <1>5, <2>1, <2>3 DEF LedgersInv
  <2> QED BY <1>1, <1>4, <2>1, <2>4, ArchiveKept DEF ExchangeInv
<1> QED BY <1>1, <1>6, <1>7

\* An archive that holds nothing is none that can be imported.
LEMMA NoPayload == NoArchive \notin PayloadRecord /\ Truncated \notin PayloadRecord
<1>1. \A a \in PayloadRecord : a.scope \in {"ledger", "tasks"}
  BY DEF PayloadRecord
<1>2. NoArchive.scope = "none" /\ Truncated.scope = "truncated"
  BY DEF NoArchive, Truncated
<1> QED BY <1>1, <1>2

\* An export holds what the ledger holds.
LEMMA ExportKeeps ==
    ASSUME ExchangeInv, write_project_archive
    PROVE  ExchangeInv'
<1> DEFINE L == Current
<1>1. PICK selection \in resolve_export_selection(L) :
         archive' \in {export_v2_payload(L, selection[1], selection[2]), Truncated}
  BY DEF write_project_archive
<1>2. /\ config' = config /\ ledgers' = ledgers /\ births' = births /\ native' = native
      /\ interrupted' = interrupted /\ renumbered' = renumbered
      /\ torn' = [torn EXCEPT !.archive = config.ref \in torn.ledgers]
  BY DEF write_project_archive
<1>3. L \in LedgerRecord /\ Resolved(L) /\ L.active \in 0..MaxId /\ L.release \in [Versions -> 0..MaxId]
      /\ list_tasks(L) \subseteq Ids
  BY CurrentFacts, LedgerFields
<1>4. renumbered \/ ParentsOK(L)
  BY CurrentFacts
<1> HIDE DEF L
<1> DEFINE scope == selection[1]
           ids == selection[2]
           a == export_v2_payload(L, scope, ids)
<1>5. /\ scope \in {"ledger", "tasks"} /\ ids \subseteq list_tasks(L)
      /\ scope = "ledger" => ids = list_tasks(L)
  BY DEF resolve_export_selection
<1> HIDE DEF scope, ids
<1> DEFINE tasks == [i \in ids |-> Task(L, i)]
           reqs == {e \in RequirementEntries(L, ids) : e.task_id \in L.bundle[e.owner].reqs}
           todos == {i \in ids : L.bundle[i].todos}
           active == IF scope = "ledger" THEN L.active ELSE 0
           releases == IF scope = "ledger" THEN L.release ELSE [v \in Versions |-> 0]
<1>6. a = [scope |-> scope, tasks |-> tasks, reqs |-> reqs, todos |-> todos, active |-> active,
           releases |-> releases]
  BY DEF export_v2_payload
<1>7. ids \in SUBSET Ids /\ tasks \in [ids -> TaskRecord] /\ DOMAIN tasks = ids
      /\ \A i \in ids : tasks[i] = Task(L, i)
  BY <1>3, <1>5, TaskFields
<1>8. reqs \subseteq [owner: Ids, task_id: Ids]
  BY <1>7 DEF RequirementEntries
<1>9. todos \subseteq Ids
  BY <1>7
<1>10. active \in 0..MaxId /\ (active # 0 => scope = "ledger" /\ active = L.active)
  BY <1>3, LedgerAssumption
<1>11. /\ releases \in [Versions -> 0..MaxId]
       /\ \A v \in Versions : releases[v] # 0 => scope = "ledger" /\ releases[v] = L.release[v]
  BY <1>3, LedgerAssumption
<1> HIDE DEF tasks, reqs, todos, active, releases
<1>12. tasks \in UNION {[D -> TaskRecord] : D \in SUBSET Ids}
  BY <1>7
<1>13. /\ a \in PayloadRecord /\ a.tasks = tasks /\ a.active = active /\ a.releases = releases
  BY <1>5, <1>6, <1>8, <1>9, <1>10, <1>11, <1>12 DEF PayloadRecord
<1> HIDE DEF a
<1>14. PayloadOK(a, renumbered, config.ref \in torn.ledgers)
  <2>1. Pointers(L) => PayloadPointers(a)
    <3> SUFFICES ASSUME Pointers(L) PROVE PayloadPointers(a)
      OBVIOUS
    <3>1. a.active # 0 => a.active \in DOMAIN a.tasks /\ ActiveOK(a.tasks[a.active])
      BY <1>5, <1>7, <1>10, <1>13 DEF Pointers
    <3>2. ASSUME NEW v \in Versions, a.releases[v] # 0
          PROVE  /\ a.releases[v] \in DOMAIN a.tasks
                 /\ a.tasks[a.releases[v]].status_stage = "done"
      BY <1>5, <1>7, <1>11, <1>13, <3>2 DEF Pointers
    <3> QED BY <3>1, <3>2 DEF PayloadPointers
  <2>2. renumbered \/ \A i \in DOMAIN a.tasks : a.tasks[i].parent_task_id < i
    BY <1>4, <1>5, <1>7, <1>13 DEF ParentsOK
  <2> QED BY <1>3, <2>1, <2>2 DEF PayloadOK, Resolved
<1>15. archive' \in {a, Truncated}
  BY <1>1 DEF a, scope, ids
<1>16. /\ torn' \in [ledgers: SUBSET Ledgers, archive: BOOLEAN]
       /\ torn'.ledgers = torn.ledgers /\ torn'.archive = (config.ref \in torn.ledgers)
  <2> DEFINE cut == config.ref \in torn.ledgers
  <2>1. cut \in BOOLEAN /\ torn \in [ledgers: SUBSET Ledgers, archive: BOOLEAN]
    BY DEF ExchangeInv, ConfigTypes
  <2>2. torn' = [torn EXCEPT !.archive = cut]
    BY <1>2
  <2> HIDE DEF cut
  <2>3. /\ torn' \in [ledgers: SUBSET Ledgers, archive: BOOLEAN]
        /\ torn'.ledgers = torn.ledgers /\ torn'.archive = cut
    BY <2>1, <2>2
  <2> QED BY <2>3 DEF cut
<1>17. ArchiveInv'
  BY <1>2, <1>13, <1>14, <1>15, <1>16, NoPayload DEF ArchiveInv
<1>18. ConfigTypes' /\ LedgersInv'
  BY <1>2, <1>16 DEF ExchangeInv, ConfigTypes, LedgersInv
<1> QED BY <1>17, <1>18 DEF ExchangeInv

-----------------------------------------------------------------------------
(* Import *)

\* The map gives every task that comes an id that no task has, neither in the
\* ledger nor among those that come with it.
MapOK(map, incoming, existing) ==
    /\ map \in [incoming -> Ids]
    /\ \A i \in incoming : map[i] \notin existing
    /\ \A i, k \in incoming : map[i] = map[k] => i = k

\* The maps of build_import_task_id_map are such.
LEMMA MapFacts ==
    ASSUME NEW incoming, incoming \subseteq Ids, NEW existing, existing \subseteq Ids,
           NEW next, next \in Nat,
           NEW map, map \in build_import_task_id_map(incoming, existing, next)
    PROVE  MapOK(map, incoming, existing)
<1>1. map \in [incoming -> Ids]
  BY DEF build_import_task_id_map
<1>2. ASSUME NEW id \in incoming
      PROVE  map[id] \notin existing \cup {map[k] : k \in {k \in incoming : k < id}}
  <2> DEFINE allocated == existing \cup {map[k] : k \in {k \in incoming : k < id}}
  <2>1. map[id] = IF id \notin allocated THEN id ELSE allocate_ledger_task_id(allocated, next)
    BY <1>2 DEF build_import_task_id_map
  <2>2. allocated \subseteq Ids
    BY <1>1
  <2> HIDE DEF allocated
  <2> DEFINE fresh == allocate_ledger_task_id(allocated, next)
  <2>3. fresh \in Nat /\ \A k \in allocated : k < fresh
    BY <2>2, AllocatedAbove
  <2> HIDE DEF fresh
  <2>4. fresh \notin allocated
    BY <2>3
  <2>5. map[id] \notin allocated
    BY <2>1, <2>4 DEF fresh
  <2> QED BY <2>5 DEF allocated
<1>3. ASSUME NEW i \in incoming, NEW k \in incoming, i < k PROVE map[i] # map[k]
  BY <1>2, <1>3
<1>4. \A i, k \in incoming : i \in Nat /\ k \in Nat
  BY DEF Ids
<1>5. ASSUME NEW i \in incoming, NEW k \in incoming, map[i] = map[k] PROVE i = k
  BY <1>3, <1>4, <1>5
<1> QED BY <1>1, <1>2, <1>5 DEF MapOK

\* What the ids are rewritten to.
LEMMA RewriteFacts ==
    ASSUME NEW a \in PayloadRecord, NEW map \in [DOMAIN a.tasks -> Ids],
           \A i, k \in DOMAIN a.tasks : map[i] = map[k] => i = k
    PROVE  LET P == rewrite_task_ids(a, map)
           IN  /\ DOMAIN P.tasks = Range(map)
               /\ \A k \in DOMAIN a.tasks :
                     /\ P.tasks[map[k]] \in TaskRecord
                     /\ P.tasks[map[k]].status_stage = a.tasks[k].status_stage
                     /\ P.tasks[map[k]].archived = a.tasks[k].archived
                     /\ P.tasks[map[k]].parent_task_id = Mapped(map, a.tasks[k].parent_task_id)
               /\ P.reqs \subseteq [owner: Ids, task_id: Ids]
               /\ P.active = Mapped(map, a.active) /\ P.active \in 0..MaxId
               /\ P.releases \in [Versions -> 0..MaxId]
               /\ \A v \in Versions : P.releases[v] = Mapped(map, a.releases[v])
<1> DEFINE source(i) == CHOOSE k \in DOMAIN map : map[k] = i
           new(i) == [a.tasks[source(i)] EXCEPT !.parent_task_id = Mapped(map, @)]
           tasks == [i \in Range(map) |-> new(i)]
           reqs == {[e EXCEPT !.task_id = Mapped(map, @)] : e \in a.reqs}
           releases == [v \in Versions |-> Mapped(map, a.releases[v])]
           P == rewrite_task_ids(a, map)
<1>1. P = [a EXCEPT !.tasks = tasks, !.reqs = reqs, !.active = Mapped(map, @), !.releases = releases]
  BY DEF rewrite_task_ids
<1>2. PICK D \in SUBSET Ids : a.tasks \in [D -> TaskRecord]
  BY DEF PayloadRecord
<1>3. DOMAIN a.tasks = D /\ DOMAIN map = D
  BY <1>2
<1>4. \A id \in 0..MaxId : Mapped(map, id) \in 0..MaxId
  BY <1>3 DEF Mapped, Ids
<1>5. \A id \in Ids : Mapped(map, id) \in Ids
  BY <1>3 DEF Mapped
<1>6. \A k \in D : source(map[k]) = k
  BY <1>3
<1> HIDE DEF source
<1>7. ASSUME NEW k \in D
      PROVE  /\ new(map[k]) \in TaskRecord
             /\ new(map[k]).status_stage = a.tasks[k].status_stage
             /\ new(map[k]).archived = a.tasks[k].archived
             /\ new(map[k]).parent_task_id = Mapped(map, a.tasks[k].parent_task_id)
  <2> DEFINE t == a.tasks[k]
             q == Mapped(map, t.parent_task_id)
  <2>1. t \in TaskRecord
    BY <1>2
  <2>2. t.parent_task_id \in 0..MaxId
    BY <2>1 DEF TaskRecord
  <2>3. q \in 0..MaxId
    BY <1>4, <2>2
  <2>4. new(map[k]) = [t EXCEPT !.parent_task_id = q]
    BY <1>6
  <2> HIDE DEF t, q
  <2>5. [t EXCEPT !.parent_task_id = q] \in TaskRecord
    BY <2>1, <2>3 DEF TaskRecord
  <2>6. [t EXCEPT !.parent_task_id = q].status_stage = t.status_stage
        /\ [t EXCEPT !.parent_task_id = q].parent_task_id = q
    BY <2>1 DEF TaskRecord
  <2>7. [t EXCEPT !.parent_task_id = q].archived = t.archived
    BY <2>1 DEF TaskRecord
  <2> HIDE DEF new
  <2> QED BY <2>4, <2>5, <2>6, <2>7 DEF t, q
<1> HIDE DEF new
<1>8. DOMAIN tasks = Range(map) /\ \A k \in D : tasks[map[k]] = new(map[k])
  BY <1>3 DEF Range
<1>9. reqs \subseteq [owner: Ids, task_id: Ids]
  <2>1. a.reqs \subseteq [owner: Ids, task_id: Ids]
    BY DEF PayloadRecord
  <2> QED BY <1>5, <2>1
<1>10. a.active \in 0..MaxId /\ a.releases \in [Versions -> 0..MaxId]
  BY DEF PayloadRecord
<1>11. releases \in [Versions -> 0..MaxId] /\ \A v \in Versions : releases[v] = Mapped(map, a.releases[v])
  BY <1>4, <1>10
<1> HIDE DEF tasks, reqs, releases
<1>12. P.tasks = tasks /\ P.reqs = reqs /\ P.active = Mapped(map, a.active) /\ P.releases = releases
  BY <1>1 DEF PayloadRecord
<1> HIDE DEF P
<1> QED BY <1>3, <1>4, <1>7, <1>8, <1>9, <1>10, <1>11, <1>12 DEF P

\* What an import may write.
PayloadShape(P) ==
    /\ DOMAIN P.tasks \subseteq Ids /\ \A i \in DOMAIN P.tasks : P.tasks[i] \in TaskRecord
    /\ P.reqs \subseteq [owner: Ids, task_id: Ids]
    /\ P.active \in 0..MaxId /\ P.releases \in [Versions -> 0..MaxId]

\* What an import has made of ledger S once it has written the tasks.
ImportView(S, P, X) ==
    /\ X \in LedgerRecord
    /\ \A i \in Ids : Task(X, i) = IF i \in DOMAIN P.tasks THEN P.tasks[i] ELSE Task(S, i)
    /\ X.active = S.active \/ (P.active # 0 /\ X.active = P.active)
    /\ \A v \in Versions : X.release[v] \in {S.release[v], P.releases[v]}

\* The first stage writes the tasks.
LEMMA TasksStage ==
    ASSUME NEW S \in LedgerRecord, NEW P, PayloadShape(P)
    PROVE  LET X == import_tasks(S, P)
           IN  ImportView(S, P, X) /\ X.active = S.active /\ X.release = S.release
<1> DEFINE bundle == [i \in Ids |-> IF i \in DOMAIN P.tasks THEN [S.bundle[i] EXCEPT !.task = P.tasks[i]]
                                    ELSE S.bundle[i]]
           X == import_tasks(S, P)
<1>1. X = [S EXCEPT !.bundle = bundle]
  BY DEF import_tasks
<1>2. \A i \in Ids : S.bundle[i] \in BundleRecord /\ Task(S, i) = S.bundle[i].task
  BY LedgerFields
<1>3. \A b \in BundleRecord, t \in TaskRecord :
         [b EXCEPT !.task = t] \in BundleRecord /\ [b EXCEPT !.task = t].task = t
  BY DEF BundleRecord
<1>4. ASSUME NEW i \in Ids
      PROVE  /\ bundle[i] \in BundleRecord
             /\ bundle[i].task = IF i \in DOMAIN P.tasks THEN P.tasks[i] ELSE Task(S, i)
  <2>1. CASE i \in DOMAIN P.tasks
    <3>1. P.tasks[i] \in TaskRecord
      BY <2>1 DEF PayloadShape
    <3>2. bundle[i] = [S.bundle[i] EXCEPT !.task = P.tasks[i]]
      BY <2>1
    <3> HIDE DEF bundle
    <3> QED BY <1>2, <1>3, <2>1, <3>1, <3>2
  <2>2. CASE i \notin DOMAIN P.tasks
    BY <1>2, <2>2
  <2> QED BY <2>1, <2>2
<1>5. bundle \in [Ids -> BundleRecord]
  <2>1. bundle = [i \in Ids |-> bundle[i]]
    OBVIOUS
  <2> HIDE DEF bundle
  <2> QED BY <1>4, <2>1
<1> HIDE DEF bundle
<1>6. X \in LedgerRecord /\ X.bundle = bundle /\ X.active = S.active /\ X.release = S.release
  BY <1>1, <1>5 DEF LedgerRecord, BundleRecord
<1> QED BY <1>4, <1>6 DEF ImportView, Task

\* The second stage leaves the tasks alone.
LEMMA CollectionsStage ==
    ASSUME NEW S \in LedgerRecord, NEW P, PayloadShape(P)
    PROVE  LET X == import_standalone_collections(S, P)
           IN  /\ X \in LedgerRecord /\ X.active = S.active /\ X.release = S.release
               /\ \A i \in Ids : Task(X, i) = Task(S, i)
<1> DEFINE group(i) == {e \in P.reqs : e.task_id = i}
           needed(i) == {e.task_id : e \in group(i)}
           bundle == [i \in Ids |-> IF group(i) = {} THEN S.bundle[i]
                                    ELSE [S.bundle[i] EXCEPT !.reqs = needed(i)]]
           X == import_standalone_collections(S, P)
<1>1. X = [S EXCEPT !.bundle = bundle]
  BY DEF import_standalone_collections
<1>2. \A i \in Ids : S.bundle[i] \in BundleRecord /\ Task(S, i) = S.bundle[i].task
  BY LedgerFields
<1>3. \A b \in BundleRecord, r \in SUBSET Ids :
         [b EXCEPT !.reqs = r] \in BundleRecord /\ [b EXCEPT !.reqs = r].task = b.task
  BY DEF BundleRecord
<1>4. \A i \in Ids : needed(i) \in SUBSET Ids
  BY DEF PayloadShape
<1> HIDE DEF group, needed
<1>5. \A i \in Ids : bundle[i] \in BundleRecord /\ bundle[i].task = Task(S, i)
  BY <1>2, <1>3, <1>4
<1>6. bundle \in [Ids -> BundleRecord]
  <2>1. bundle = [i \in Ids |-> bundle[i]]
    OBVIOUS
  <2> HIDE DEF bundle
  <2> QED BY <1>5, <2>1
<1> HIDE DEF bundle
<1>7. X \in LedgerRecord /\ X.bundle = bundle /\ X.active = S.active /\ X.release = S.release
  BY <1>1, <1>6 DEF LedgerRecord, BundleRecord
<1> QED BY <1>5, <1>7 DEF Task

\* The ledger after any number of stages.
LEMMA StagesFacts ==
    ASSUME NEW S \in LedgerRecord, NEW P, PayloadShape(P), NEW stage \in 0..ImportStages
    PROVE  LET X == ImportedThrough(S, P, stage)
           IN  X \in LedgerRecord /\ (X = S \/ ImportView(S, P, X))
<1> DEFINE tasks == import_tasks(S, P)
           collections == import_standalone_collections(tasks, P)
           active == import_active_task(collections, P)
           releases == import_releases(active, P)
           X == ImportedThrough(S, P, stage)
<1>1. ImportView(S, P, tasks) /\ tasks.active = S.active /\ tasks.release = S.release
  BY TasksStage
<1>2. tasks \in LedgerRecord
  BY <1>1 DEF ImportView
<1>3. /\ collections \in LedgerRecord /\ collections.active = tasks.active
      /\ collections.release = tasks.release /\ \A i \in Ids : Task(collections, i) = Task(tasks, i)
  <2> HIDE DEF tasks
  <2> QED BY <1>2, CollectionsStage
<1>4. ImportView(S, P, collections)
  <2> HIDE DEF tasks, collections
  <2> QED BY <1>1, <1>3 DEF ImportView
<1>5. /\ active \in LedgerRecord /\ active.bundle = collections.bundle
      /\ active.release = collections.release
      /\ active.active = collections.active \/ (P.active # 0 /\ active.active = P.active)
  <2> HIDE DEF collections
  <2> QED BY <1>3 DEF import_active_task, LedgerRecord, PayloadShape
<1>6. ImportView(S, P, active)
  <2> HIDE DEF tasks, collections, active
  <2> QED BY <1>1, <1>3, <1>4, <1>5 DEF ImportView, Task
<1>7. /\ releases \in LedgerRecord /\ releases.bundle = active.bundle /\ releases.active = active.active
      /\ \A v \in Versions : releases.release[v] \in {active.release[v], P.releases[v]}
  <2> DEFINE R == [v \in Versions |-> IF active.release[v] = 0 THEN P.releases[v] ELSE active.release[v]]
  <2> HIDE DEF active
  <2>1. active.release \in [Versions -> 0..MaxId]
    BY <1>5, LedgerFields
  <2>2. /\ R \in [Versions -> 0..MaxId]
        /\ \A v \in Versions : R[v] \in {active.release[v], P.releases[v]}
    BY <2>1 DEF PayloadShape
  <2>3. releases = [active EXCEPT !.release = R]
    BY DEF import_releases
  <2> HIDE DEF R
  <2> QED BY <1>5, <2>2, <2>3 DEF LedgerRecord
<1>8. ImportView(S, P, releases)
  <2> HIDE DEF tasks, collections, active, releases
  <2> QED BY <1>1, <1>3, <1>5, <1>6, <1>7 DEF ImportView, Task
<1>9. X = S \/ X = tasks \/ X = collections \/ X = active \/ X = releases
  BY DEF ImportedThrough, ImportStages
<1> HIDE DEF tasks, collections, active, releases, X
<1> QED BY <1>1, <1>4, <1>6, <1>8, <1>9 DEF ImportView, X

\* A ledger that was cleared in part: it holds no task that it did not hold.
Thinned(S, L) ==
    /\ S \in LedgerRecord /\ list_tasks(S) \subseteq list_tasks(L)
    /\ \A i \in list_tasks(S) : Task(S, i) = Task(L, i)

\* A clear that dies leaves a part of the ledger.
LEMMA ClearFacts ==
    ASSUME NEW L \in LedgerRecord, NEW S \in ClearCutShort(L) \cup {clear_v2_state(L)}
    PROVE  Thinned(S, L)
<1>1. /\ L.bundle \in [Ids -> BundleRecord] /\ L.active \in 0..MaxId
      /\ L.release \in [Versions -> 0..MaxId] /\ task_dirs(L) \subseteq Ids
      /\ \A i \in Ids : L.bundle[i] \in BundleRecord
  BY LedgerFields
<1>2. CASE S = clear_v2_state(L)
  BY <1>2, EmptyLedgerFacts DEF clear_v2_state, Thinned
<1>3. ASSUME NEW last \in task_dirs(L), NEW gone \in SUBSET task_dirs(L),
             NEW left \in Remains(L.bundle[last]),
             S = [L EXCEPT !.bundle = [i \in Ids |-> IF i \in gone THEN NoBundle
                                                     ELSE IF i = last THEN left ELSE L.bundle[i]]]
      PROVE  Thinned(S, L)
  <2> DEFINE bundle == [i \in Ids |-> IF i \in gone THEN NoBundle
                                      ELSE IF i = last THEN left ELSE L.bundle[i]]
  <2>1. last \in Ids /\ L.bundle[last] \in BundleRecord
    BY <1>1
  <2>2. left \in BundleRecord /\ left.task \in {L.bundle[last].task, NoTask}
    <3>1. ASSUME NEW b \in BundleRecord, NEW r \in Remains(b)
          PROVE  r \in BundleRecord /\ r.task \in {b.task, NoTask}
      BY <3>1 DEF Remains, BundleRecord
    <3> QED BY <2>1, <3>1
  <2>3. \A i \in Ids : bundle[i] \in BundleRecord /\ bundle[i].task \in {L.bundle[i].task, NoTask}
    BY <1>1, <2>2, NoBundleFacts
  <2>4. bundle \in [Ids -> BundleRecord]
    <3>1. bundle = [i \in Ids |-> bundle[i]]
      OBVIOUS
    <3> HIDE DEF bundle
    <3> QED BY <2>3, <3>1
  <2>5. S = [L EXCEPT !.bundle = bundle]
    BY <1>3
  <2> HIDE DEF bundle
  <2>6. S \in LedgerRecord /\ S.bundle = bundle
    BY <2>4, <2>5 DEF LedgerRecord, BundleRecord
  <2> QED BY <2>3, <2>6 DEF Thinned, list_tasks, Task
<1>4. ASSUME NEW kept \in SUBSET Versions,
             S = [EmptyLedger EXCEPT !.active = L.active,
                                     !.release = [v \in Versions |->
                                                     IF v \in kept THEN L.release[v] ELSE 0]]
      PROVE  Thinned(S, L)
  <2> DEFINE release == [v \in Versions |-> IF v \in kept THEN L.release[v] ELSE 0]
  <2>1. release \in [Versions -> 0..MaxId]
    BY <1>1, LedgerAssumption
  <2>2. S = [EmptyLedger EXCEPT !.active = L.active, !.release = release]
    BY <1>4
  <2> HIDE DEF release
  <2>3. S \in LedgerRecord /\ S.bundle = EmptyLedger.bundle
    BY <1>1, <2>1, <2>2, EmptyLedgerFacts DEF LedgerRecord
  <2>4. list_tasks(S) = {}
    BY <2>3, EmptyLedgerFacts DEF list_tasks
  <2> QED BY <2>3, <2>4 DEF Thinned
<1>5. CASE S \in TasksCutShort(L)
  BY <1>3, <1>5 DEF TasksCutShort
<1>6. CASE S \in ReleasesCutShort(L)
  BY <1>4, <1>6 DEF ReleasesCutShort
<1> QED BY <1>2, <1>5, <1>6 DEF ClearCutShort

\* The ledger an import leaves, given the map and the ledger it started from:
\* the tasks of both are there, and the pointers of each resolve in its own.
ImportShape(replace, stage, map, S, P, X) ==
    /\ map \in [DOMAIN archive.tasks -> Ids]
    /\ \A i \in DOMAIN archive.tasks : map[i] \notin list_tasks(Current)
    /\ Thinned(S, Current) /\ (~replace => S = Current)
    /\ config.ref \in torn'.ledgers \/ (Pointers(S) /\ ~torn.archive)
    /\ DOMAIN P.tasks = Range(map)
    /\ \A k \in DOMAIN archive.tasks :
           /\ P.tasks[map[k]] \in TaskRecord
           /\ P.tasks[map[k]].status_stage = archive.tasks[k].status_stage
           /\ P.tasks[map[k]].archived = archive.tasks[k].archived
           /\ P.tasks[map[k]].parent_task_id = Mapped(map, archive.tasks[k].parent_task_id)
    /\ P.active = Mapped(map, archive.active)
    /\ \A v \in Versions : P.releases[v] = Mapped(map, archive.releases[v])
    /\ X \in LedgerRecord
    /\ X = S \/ ImportView(S, P, X)
    /\ SetCurrent(X)
    /\ config' = IF stage < ImportStages THEN config
                 ELSE [config EXCEPT !.next = repair_ledger_next_task_number(X, @)]
    /\ native' = {p \in native : p[1] = config.ref =>
                                    p[2] \in list_tasks(S) /\ p[2] \notin Range(map)}
    /\ renumbered' = (renumbered \/ \E i \in DOMAIN map : map[i] # i)
    /\ interrupted' = (interrupted \/ stage < ImportStages)
    /\ births' = births /\ archive' = archive
    /\ torn' \in [ledgers: SUBSET Ledgers, archive: BOOLEAN] /\ torn'.archive = torn.archive
    /\ torn.ledgers \subseteq torn'.ledgers \cup {config.ref}

\* An archive that is imported holds tasks.
LEMMA ReadArchive ==
    ASSUME ExchangeInv, read_project_archive
    PROVE  archive \in PayloadRecord /\ PayloadOK(archive, renumbered, torn.archive) /\ DOMAIN archive.tasks \subseteq Ids
<1>1. archive \in PayloadRecord \cup {NoArchive, Truncated}
  BY DEF ExchangeInv, ArchiveInv
<1>2. archive # NoArchive /\ archive # Truncated
  BY DEF read_project_archive, NoArchive, Truncated
<1>3. archive \in PayloadRecord
  BY <1>1, <1>2
<1>4. DOMAIN archive.tasks \subseteq Ids
  BY <1>3 DEF PayloadRecord
<1> QED BY <1>3, <1>4 DEF ExchangeInv, ArchiveInv

\* Every import has that shape.
LEMMA ImportHasShape ==
    ASSUME ExchangeInv, NEW replace \in BOOLEAN, NEW policy, NEW stage \in 0..ImportStages,
           import_project_archive(replace, policy, stage)
    PROVE  \E map, S, P, X : ImportShape(replace, stage, map, S, P, X)
<1> DEFINE starts == IF replace
                     THEN {clear_v2_state(Current)} \cup
                          (IF stage = 0 THEN ClearCutShort(Current) ELSE {})
                     ELSE {Current}
<1>1. /\ read_project_archive /\ interrupted' = (interrupted \/ stage < ImportStages)
      /\ births' = births /\ archive' = archive
      /\ torn' = [torn EXCEPT
                     !.ledgers = IF torn.archive \/ (replace /\ stage = 0) THEN @ \cup {config.ref}
                                 ELSE IF replace THEN @ \ {config.ref} ELSE @]
  BY DEF import_project_archive
<1>2. archive \in PayloadRecord /\ DOMAIN archive.tasks \subseteq Ids
  BY <1>1, ReadArchive
<1>3. PICK map \in ImportMaps, start \in starts :
         LET payload == rewrite_task_ids(archive, map)
             ledger == ImportedThrough(start, payload, stage)
         IN  /\ SetCurrent(ledger)
             /\ config' = IF stage < ImportStages THEN config
                          ELSE [config EXCEPT !.next = repair_ledger_next_task_number(ledger, @)]
             /\ native' = {p \in native : p[1] = config.ref =>
                                             p[2] \in list_tasks(start) /\ p[2] \notin Range(map)}
             /\ renumbered' = (renumbered \/ \E i \in DOMAIN map : map[i] # i)
  BY Zenon DEF import_project_archive
<1> DEFINE P == rewrite_task_ids(archive, map)
           X == ImportedThrough(start, P, stage)
<1>4. /\ Current \in LedgerRecord /\ Resolved(Current) /\ config.next \in Nat
      /\ list_tasks(Current) \subseteq Ids
  BY CurrentFacts, LedgerFields
<1>5. /\ map \in [DOMAIN archive.tasks -> Ids]
      /\ \A i \in DOMAIN archive.tasks : map[i] \notin list_tasks(Current)
      /\ \A i, k \in DOMAIN archive.tasks : map[i] = map[k] => i = k
  <2>1. map \in build_import_task_id_map(DOMAIN archive.tasks, list_tasks(Current), config.next)
    BY Zenon DEF ImportMaps
  <2>2. MapOK(map, DOMAIN archive.tasks, list_tasks(Current))
    BY <1>2, <1>4, <2>1, MapFacts
  <2> QED BY <2>2 DEF MapOK
<1>6. /\ DOMAIN P.tasks = Range(map)
      /\ \A k \in DOMAIN archive.tasks :
            /\ P.tasks[map[k]] \in TaskRecord
            /\ P.tasks[map[k]].status_stage = archive.tasks[k].status_stage
            /\ P.tasks[map[k]].archived = archive.tasks[k].archived
            /\ P.tasks[map[k]].parent_task_id = Mapped(map, archive.tasks[k].parent_task_id)
      /\ P.reqs \subseteq [owner: Ids, task_id: Ids]
      /\ P.active = Mapped(map, archive.active) /\ P.active \in 0..MaxId
      /\ P.releases \in [Versions -> 0..MaxId]
      /\ \A v \in Versions : P.releases[v] = Mapped(map, archive.releases[v])
  BY <1>2, <1>5, RewriteFacts
<1> HIDE DEF P
<1>7. PayloadShape(P)
  BY <1>5, <1>6 DEF PayloadShape, Range
<1>8. Thinned(start, Current) /\ (~replace => start = Current)
  <2>1. replace => start \in ClearCutShort(Current) \cup {clear_v2_state(Current)}
    OBVIOUS
  <2>2. Thinned(Current, Current)
    BY <1>4 DEF Thinned
  <2> HIDE DEF starts
  <2> QED BY <1>3, <1>4, <2>1, <2>2, ClearFacts DEF starts
<1>9. X \in LedgerRecord /\ (X = start \/ ImportView(start, P, X))
  BY <1>7, <1>8, StagesFacts DEF Thinned
<1>10. /\ SetCurrent(X)
       /\ config' = IF stage < ImportStages THEN config
                    ELSE [config EXCEPT !.next = repair_ledger_next_task_number(X, @)]
       /\ native' = {p \in native : p[1] = config.ref =>
                                       p[2] \in list_tasks(start) /\ p[2] \notin Range(map)}
       /\ renumbered' = (renumbered \/ \E i \in DOMAIN map : map[i] # i)
  BY <1>3, Zenon DEF P
<1> HIDE DEF X
<1>11. /\ torn' \in [ledgers: SUBSET Ledgers, archive: BOOLEAN] /\ torn'.archive = torn.archive
       /\ torn'.ledgers = IF torn.archive \/ (replace /\ stage = 0)
                          THEN torn.ledgers \cup {config.ref}
                          ELSE IF replace THEN torn.ledgers \ {config.ref} ELSE torn.ledgers
  BY <1>1 DEF ExchangeInv, ConfigTypes
<1>12. torn.ledgers \subseteq torn'.ledgers \cup {config.ref}
  BY <1>11
<1>13. config.ref \in torn'.ledgers \/ (Pointers(start) /\ ~torn.archive)
  <2>1. CASE torn.archive \/ (replace /\ stage = 0)
    BY <1>11, <2>1
  <2>2. CASE ~torn.archive /\ replace /\ stage # 0
    BY <2>2, EmptyLedgerFacts DEF clear_v2_state
  <2>3. CASE ~torn.archive /\ ~replace
    BY <1>4, <1>8, <1>11, <2>3 DEF Resolved
  <2> QED BY <2>1, <2>2, <2>3
<1>14. ImportShape(replace, stage, map, start, P, X)
  <2> HIDE DEF starts
  <2> QED BY <1>1, <1>5, <1>6, <1>8, <1>9, <1>10, <1>11, <1>12, <1>13, Zenon DEF ImportShape
<1> QED BY <1>14

\* Import keeps the invariant, at whatever stage it stops.
LEMMA ImportKeeps ==
    ASSUME ExchangeInv, NEW replace \in BOOLEAN, NEW stage \in 0..ImportStages,
           NEW map, NEW S, NEW P, NEW X, ImportShape(replace, stage, map, S, P, X),
           archive \in PayloadRecord, PayloadOK(archive, renumbered, torn.archive), DOMAIN archive.tasks \subseteq Ids
    PROVE  ExchangeInv'
<1> DEFINE D == DOMAIN archive.tasks
<1>1. /\ map \in [D -> Ids] /\ \A i \in D : map[i] \notin list_tasks(Current)
      /\ Thinned(S, Current)
      /\ config.ref \in torn'.ledgers \/ (Pointers(S) /\ ~torn.archive)
      /\ DOMAIN P.tasks = Range(map)
      /\ \A k \in D :
            /\ P.tasks[map[k]] \in TaskRecord
            /\ P.tasks[map[k]].status_stage = archive.tasks[k].status_stage
            /\ P.tasks[map[k]].archived = archive.tasks[k].archived
            /\ P.tasks[map[k]].parent_task_id = Mapped(map, archive.tasks[k].parent_task_id)
      /\ P.active = Mapped(map, archive.active)
      /\ \A v \in Versions : P.releases[v] = Mapped(map, archive.releases[v])
      /\ X \in LedgerRecord
      /\ X = S \/ ImportView(S, P, X)
      /\ SetCurrent(X)
      /\ births' = births /\ archive' = archive
      /\ torn' \in [ledgers: SUBSET Ledgers, archive: BOOLEAN] /\ torn'.archive = torn.archive
      /\ torn.ledgers \subseteq torn'.ledgers \cup {config.ref}
  BY DEF ImportShape
<1>2. /\ config' = IF stage < ImportStages THEN config
                   ELSE [config EXCEPT !.next = repair_ledger_next_task_number(X, @)]
      /\ native' = {p \in native : p[1] = config.ref =>
                                      p[2] \in list_tasks(S) /\ p[2] \notin Range(map)}
      /\ renumbered' = (renumbered \/ \E i \in DOMAIN map : map[i] # i)
      /\ interrupted' = (interrupted \/ stage < ImportStages)
  BY DEF ImportShape
<1>3. /\ Current \in LedgerRecord /\ Resolved(Current) /\ NativeOK(config.ref, Current, native)
      /\ renumbered \/ ParentsOK(Current)
      /\ config.next \in Nat /\ config.next \in 1..MaxId + 1
  BY CurrentFacts
<1>4. /\ S \in LedgerRecord /\ (renumbered \/ ParentsOK(S))
      /\ list_tasks(S) \subseteq list_tasks(Current)
      /\ \A i \in list_tasks(S) : Task(S, i) = Task(Current, i)
  BY <1>1, <1>3 DEF Thinned, ParentsOK
<1>5. Range(map) = {map[k] : k \in D} /\ DOMAIN map = D /\ Range(map) \subseteq Ids
      /\ Range(map) \cap list_tasks(S) = {}
  BY <1>1, <1>4 DEF Range
<1>6. Mapped(map, 0) = 0 /\ \A k \in D : Mapped(map, k) = map[k]
  BY <1>5 DEF Mapped, Ids
<1> HIDE DEF D
<1>7. ASSUME ImportView(S, P, X)
      PROVE  /\ \A i \in Ids : Task(X, i) = IF i \in Range(map) THEN P.tasks[i] ELSE Task(S, i)
             /\ Range(map) \subseteq list_tasks(X) /\ list_tasks(S) \subseteq list_tasks(X)
             /\ list_tasks(X) \subseteq Range(map) \cup list_tasks(S)
             /\ \A i \in list_tasks(S) : Task(X, i) = Task(S, i)
  <2>1. \A i \in Ids : Task(X, i) = IF i \in Range(map) THEN P.tasks[i] ELSE Task(S, i)
    BY <1>1, <1>7 DEF ImportView
  <2>2. \A i \in Ids : /\ i \in list_tasks(X) <=> Task(X, i) \in TaskRecord
                       /\ i \in list_tasks(S) <=> Task(S, i) \in TaskRecord
    BY <1>1, <1>4, LedgerFields
  <2>3. list_tasks(S) \subseteq Ids /\ list_tasks(X) \subseteq Ids
    BY <1>1, <1>4, LedgerFields
  <2>4. \A i \in Range(map) : P.tasks[i] \in TaskRecord
    BY <1>1, <1>5 DEF D
  <2> QED BY <1>5, <2>1, <2>2, <2>3, <2>4
<1>8. config.ref \in torn'.ledgers \/ Pointers(X)
  <2> SUFFICES ASSUME ImportView(S, P, X), Pointers(S), ~torn.archive PROVE Pointers(X)
    BY <1>1
  <2>1. ASSUME X.active # 0 PROVE X.active \in list_tasks(X) /\ ActiveOK(Task(X, X.active))
    <3>1. CASE X.active = S.active
      <4>1. S.active \in list_tasks(S) /\ ActiveOK(Task(S, S.active))
        BY <2>1, <3>1 DEF Pointers
      <4> QED BY <1>7, <3>1, <4>1
    <3>2. CASE P.active # 0 /\ X.active = P.active
      <4> DEFINE k == archive.active
      <4>1. k \in D /\ ActiveOK(archive.tasks[k])
        BY <1>1, <1>6, <3>2 DEF PayloadOK, PayloadPointers, D
      <4>2. X.active = map[k] /\ map[k] \in Range(map) /\ map[k] \in Ids
        BY <1>1, <1>5, <1>6, <3>2, <4>1
      <4>3. Task(X, map[k]) = P.tasks[map[k]]
        BY <1>7, <4>2
      <4> HIDE DEF k
      <4>4. ActiveOK(P.tasks[map[k]])
        BY <1>1, <4>1 DEF ActiveOK
      <4> QED BY <1>7, <4>2, <4>3, <4>4
    <3> QED BY <3>1, <3>2 DEF ImportView
  <2>2. ASSUME NEW v \in Versions, X.release[v] # 0
        PROVE  X.release[v] \in list_tasks(X) /\ Task(X, X.release[v]).status_stage = "done"
    <3>1. CASE X.release[v] = S.release[v]
      <4>1. S.release[v] \in list_tasks(S) /\ Task(S, S.release[v]).status_stage = "done"
        BY <2>2, <3>1 DEF Pointers
      <4> QED BY <1>7, <3>1, <4>1
    <3>2. CASE X.release[v] = P.releases[v]
      <4> DEFINE k == archive.releases[v]
      <4>1. k # 0
        BY <1>1, <1>6, <2>2, <3>2
      <4>2. k \in D /\ archive.tasks[k].status_stage = "done"
        BY <4>1 DEF PayloadOK, PayloadPointers, D
      <4>3. X.release[v] = map[k] /\ map[k] \in Range(map) /\ map[k] \in Ids
        BY <1>1, <1>5, <1>6, <3>2, <4>2
      <4> HIDE DEF k
      <4> QED BY <1>1, <1>7, <4>2, <4>3
    <3> QED BY <3>1, <3>2 DEF ImportView
  <2> QED BY <2>1, <2>2 DEF Pointers
<1>9. NativeOK(config.ref, X, native')
  <2>1. ASSUME NEW i \in Ids, <<config.ref, i>> \in native'
        PROVE  /\ <<config.ref, i>> \in native /\ i \in list_tasks(X)
               /\ Task(X, i) = Task(Current, i) /\ i \in list_tasks(Current)
    <3>1. <<config.ref, i>> \in native /\ i \in list_tasks(S) /\ i \notin Range(map)
      BY <1>2, <2>1
    <3>2. i \in list_tasks(X) /\ Task(X, i) = Task(S, i)
      BY <1>1, <1>7, <3>1
    <3> QED BY <1>4, <3>1, <3>2
  <2>2. ASSUME NEW i \in visible_tasks(X), NEW k \in visible_tasks(X),
               <<config.ref, i>> \in native', <<config.ref, k>> \in native', i # k
        PROVE  Task(X, i).slug # Task(X, k).slug
    <3>1. i \in Ids /\ k \in Ids /\ ~Task(X, i).archived /\ ~Task(X, k).archived
      BY <2>2 DEF visible_tasks, list_tasks
    <3>2. i \in visible_tasks(Current) /\ k \in visible_tasks(Current)
      BY <2>1, <2>2, <3>1 DEF visible_tasks
    <3> QED BY <1>3, <2>1, <2>2, <3>1, <3>2 DEF NativeOK
  <2> QED BY <2>1, <2>2 DEF NativeOK
<1>10. config \in [ref: Ledgers, parent_ref: Ledgers, next: 1..MaxId + 1] /\ births \in 0..MaxBirths
       /\ native \subseteq Ledgers \X Ids /\ interrupted \in BOOLEAN /\ renumbered \in BOOLEAN
  BY DEF ExchangeInv, ConfigTypes
<1>11. LET next == repair_ledger_next_task_number(X, config.next)
       IN  next \in 1..MaxId + 1 /\ config.next <= next /\ \A i \in task_dirs(X) : i < next
  <2>1. task_dirs(X) \subseteq Ids
    BY <1>1, LedgerFields
  <2>2. repair_ledger_next_task_number(X, config.next) = allocate_ledger_task_id(task_dirs(X), config.next)
    BY DEF repair_ledger_next_task_number, allocate_ledger_task_id
  <2> DEFINE next == allocate_ledger_task_id(task_dirs(X), config.next)
  <2>3. /\ next \in Nat /\ next >= config.next /\ next >= 1 /\ \A k \in task_dirs(X) : k < next
        /\ config.next <= MaxId + 1 => next <= MaxId + 1
    BY <1>3, <2>1, AllocatedAbove
  <2> HIDE DEF next
  <2>4. MaxId \in Nat
    BY LedgerAssumption
  <2>5. next \in 1..MaxId + 1 /\ config.next <= next
    BY <1>3, <2>3, <2>4
  <2> QED BY <2>2, <2>3, <2>5 DEF next
<1>12. /\ config' \in [ref: Ledgers, parent_ref: Ledgers, next: 1..MaxId + 1]
       /\ config'.ref = config.ref /\ config.next <= config'.next
       /\ ~(stage < ImportStages) => config'.next = repair_ledger_next_task_number(X, config.next)
  <2>1. CASE stage < ImportStages
    BY <1>2, <1>3, <1>10, <2>1
  <2>2. CASE ~(stage < ImportStages)
    <3> DEFINE next == repair_ledger_next_task_number(X, config.next)
    <3>1. next \in 1..MaxId + 1 /\ config.next <= next
      BY <1>11
    <3>2. config' = [config EXCEPT !.next = next]
      BY <1>2, <2>2
    <3> HIDE DEF next
    <3>3. config'.next = next
      BY <1>10, <3>2
    <3> QED BY <1>10, <3>1, <3>2, <3>3 DEF next
  <2> QED BY <2>1, <2>2
<1>13. interrupted' \/ DirsOK(X, config'.next)
  BY <1>2, <1>11, <1>12 DEF DirsOK
<1>14. renumbered' \/ ParentsOK(X)
  <2> SUFFICES ASSUME ~renumbered' PROVE ParentsOK(X)
    OBVIOUS
  <2>1. ~renumbered /\ \A k \in D : map[k] = k
    BY <1>2, <1>5
  <2>2. CASE X = S
    BY <1>4, <2>1, <2>2
  <2>3. CASE ImportView(S, P, X)
    <3>1. ASSUME NEW i \in list_tasks(X) PROVE Task(X, i).parent_task_id < i
      <4>1. CASE i \in list_tasks(S)
        BY <1>4, <1>7, <2>1, <2>3, <4>1 DEF ParentsOK
      <4>2. CASE i \in Range(map)
        <5>1. i \in D /\ map[i] = i
          BY <1>5, <2>1, <4>2
        <5>2. Task(X, i) = P.tasks[i] /\ P.tasks[i].parent_task_id = Mapped(map, archive.tasks[i].parent_task_id)
          BY <1>1, <1>5, <1>7, <2>3, <4>2, <5>1
        <5>3. Mapped(map, archive.tasks[i].parent_task_id) = archive.tasks[i].parent_task_id
          BY <1>5, <2>1 DEF Mapped
        <5>4. archive.tasks[i].parent_task_id < i
          BY <2>1, <5>1 DEF PayloadOK, D
        <5> QED BY <5>2, <5>3, <5>4
      <4> QED BY <1>7, <2>3, <3>1, <4>1, <4>2
    <3> QED BY <3>1 DEF ParentsOK
  <2> QED BY <1>1, <2>2, <2>3
<1>15. LedgerInv(config.ref, X, native', config'.next, interrupted', renumbered', torn'.ledgers)
  BY <1>1, <1>8, <1>9, <1>13, <1>14 DEF LedgerInv
<1>16. /\ interrupted' \in BOOLEAN /\ (interrupted => interrupted')
       /\ renumbered' \in BOOLEAN /\ (renumbered => renumbered')
  BY <1>2
<1>17. native' \subseteq native
  BY <1>2
<1> QED BY <1>1, <1>10, <1>12, <1>15, <1>16, <1>17, CurrentStep

-----------------------------------------------------------------------------
(* The invariant *)

\* What comes from another checkout could be a ledger of this one.
LEMMA ForeignFacts ==
    ASSUME NEW i \in ForeignIds, NEW parent \in 0..MaxId, NEW required \in 0..MaxId
    PROVE  LET a == ForeignArchive(i, parent, required)
           IN  /\ a \in PayloadRecord /\ a.active = 0 /\ \A v \in Versions : a.releases[v] = 0
               /\ DOMAIN a.tasks = {i} /\ a.tasks[i].parent_task_id = parent
<1> DEFINE task(archived) == [uid |-> ForeignUid, slug |-> 1, status_stage |-> "open",
                              archived |-> archived, parent_task_id |-> parent]
           t == task(FALSE)
           tasks == [k \in {i} |-> t]
           reqs == {[owner |-> i, task_id |-> r] : r \in {required} \ {0}}
           releases == [v \in Versions |-> 0]
           a == ForeignArchive(i, parent, required)
<1>1. i \in Ids /\ 1 \in 1..MaxId /\ ForeignUid \in 1..MaxBirths + 1 /\ 0 \in 0..MaxId
  BY ExchangeAssumption, LedgerAssumption DEF Ids, ForeignUid
<1>2. \A archived \in BOOLEAN : task(archived) \in TaskRecord
  BY <1>1 DEF TaskRecord
<1>3. t \in TaskRecord
  BY <1>2, Zenon
<1>4. t.parent_task_id = parent
  BY Zenon
<1>5. a = [scope |-> "tasks", tasks |-> tasks, reqs |-> reqs, todos |-> {i}, active |-> 0,
           releases |-> releases]
  BY Zenon DEF ForeignArchive
<1> HIDE DEF t, a
<1>6. tasks \in [{i} -> TaskRecord] /\ DOMAIN tasks = {i} /\ tasks[i] = t
  BY <1>3
<1>7. tasks \in UNION {[D -> TaskRecord] : D \in SUBSET Ids}
  <2>1. {i} \in SUBSET Ids
    BY <1>1
  <2> HIDE DEF tasks
  <2> QED BY <1>6, <2>1
<1>8. reqs \subseteq [owner: Ids, task_id: Ids]
  BY <1>1 DEF Ids
<1>9. releases \in [Versions -> 0..MaxId] /\ \A v \in Versions : releases[v] = 0
  BY <1>1
<1> HIDE DEF tasks, reqs, releases
<1>10. a \in PayloadRecord /\ a.active = 0 /\ a.releases = releases /\ a.tasks = tasks
  BY <1>1, <1>5, <1>7, <1>8, <1>9 DEF PayloadRecord
<1> QED BY <1>4, <1>6, <1>9, <1>10 DEF a

\* A new workspace.
LEMMA ExchangeInitial == Init => ExchangeInv
<1> SUFFICES ASSUME Init PROVE ExchangeInv
  OBVIOUS
<1>1. /\ config = [ref |-> MainLedger, parent_ref |-> MainLedger, next |-> 1]
      /\ ledgers = [l \in {MainLedger} |-> EmptyLedger]
      /\ births = 0 /\ native = {} /\ interrupted = FALSE /\ renumbered = FALSE
      /\ torn = [ledgers |-> {}, archive |-> FALSE]
  BY DEF Init, LedgerInit
<1>2. ConfigTypes
  <2>1. 1 \in 1..MaxId + 1 /\ 0 \in 0..MaxBirths
    BY LedgerAssumption
  <2>2. config \in [ref: Ledgers, parent_ref: Ledgers, next: 1..MaxId + 1]
    BY <1>1, <2>1, LedgerAssumption
  <2> QED BY <1>1, <2>1, <2>2 DEF ConfigTypes
<1>3. LedgersInv
  <2>1. /\ ledgers \in [{MainLedger} -> LedgerRecord] /\ DOMAIN ledgers = {MainLedger}
        /\ ledgers[MainLedger] = EmptyLedger /\ config.ref = MainLedger
    BY <1>1, EmptyLedgerFacts
  <2>2. NativeOK(MainLedger, EmptyLedger, native)
    BY <1>1 DEF NativeOK
  <2>3. LedgerInv(MainLedger, EmptyLedger, native, config.next, interrupted, renumbered, torn.ledgers)
    BY <2>2, EmptyLedgerFacts DEF LedgerInv
  <2> QED BY <1>1, <2>1, <2>3, LedgerAssumption DEF LedgersInv
<1>4. ArchiveInv
  <2>1. CASE archive = NoArchive
    BY <2>1, NoPayload DEF ArchiveInv
  <2>2. CASE archive # NoArchive
    <3>1. archive \in ForeignArchives /\ \A i \in DOMAIN archive.tasks : archive.tasks[i].parent_task_id < i
      BY <2>2 DEF Init
    <3>2. PICK i \in ForeignIds, parent \in 0..MaxId, required \in 0..MaxId :
             archive = ForeignArchive(i, parent, required)
      BY <3>1 DEF ForeignArchives
    <3>3. archive \in PayloadRecord /\ archive.active = 0 /\ \A v \in Versions : archive.releases[v] = 0
      BY <3>2, ForeignFacts
    <3>4. PayloadOK(archive, renumbered, torn.archive)
      BY <3>1, <3>3 DEF PayloadOK, PayloadPointers
    <3> QED BY <3>3, <3>4 DEF ArchiveInv
  <2> QED BY <2>1, <2>2
<1> QED BY <1>2, <1>3, <1>4 DEF ExchangeInv

\* The steps of Next, by what they leave of the tasks there were.
ReplacingImport ==
    \E policy \in Policies, stage \in 0..ImportStages : import_project_archive(TRUE, policy, stage)

\* Making a task keeps the others.
LEMMA NewTaskKeepsTasks ==
    ASSUME ExchangeInv, NEW id, NEW t, NEW parent, NewTaskShape(id, t, parent)
    PROVE  TasksKept
<1> DEFINE L == Current
           b == [L.bundle[id] EXCEPT !.task = t]
           M == SetBundle(L, id, b)
<1>1. L \in LedgerRecord
  BY CurrentFacts
<1>2. id \in Ids /\ id \notin list_tasks(L) /\ b \in BundleRecord /\ SetCurrent(M)
  BY DEF NewTaskShape
<1> HIDE DEF L, b
<1>3. \A k \in Ids \ {id} : M.bundle[k] = L.bundle[k]
  BY <1>1, <1>2, SetBundleFields
<1> HIDE DEF M
<1>4. \A k \in list_tasks(L) : Task(M, k) = Task(L, k)
  BY <1>2, <1>3 DEF list_tasks, Task
<1> QED BY <1>2, <1>4, CurrentKeepsTasks DEF L

\* So does adopting one.
LEMMA AdoptKeepsTasks ==
    ASSUME ExchangeInv, NEW l, NEW i, NEW id, AdoptShape(l, i, id)
    PROVE  TasksKept /\ births' = births
<1> DEFINE L == Current
           b == ledgers[l].bundle[i]
           M == SetBundle(L, id, b)
<1>1. L \in LedgerRecord
  BY CurrentFacts
<1>2. /\ id \in Ids /\ id \notin task_dirs(L) /\ SetCurrent(M) /\ births' = births
      /\ l \in DOMAIN ledgers /\ i \in task_dirs(ledgers[l])
  BY DEF AdoptShape
<1>3. b \in BundleRecord
  <2>1. ledgers[l] \in LedgerRecord
    BY <1>2 DEF ExchangeInv, LedgersInv
  <2> QED BY <1>2, <2>1, LedgerFields
<1> HIDE DEF L, b
<1>4. \A k \in Ids \ {id} : M.bundle[k] = L.bundle[k]
  BY <1>1, <1>2, <1>3, SetBundleFields
<1>5. id \notin list_tasks(L)
  BY <1>1, <1>2, NoBundleFacts
<1> HIDE DEF M
<1>6. \A k \in list_tasks(L) : Task(M, k) = Task(L, k)
  BY <1>4, <1>5 DEF list_tasks, Task
<1> QED BY <1>2, <1>6, CurrentKeepsTasks DEF L

\* And importing without --replace.
LEMMA ImportKeepsTasks ==
    ASSUME ExchangeInv, NEW stage, NEW map, NEW S, NEW P, NEW X,
           ImportShape(FALSE, stage, map, S, P, X)
    PROVE  TasksKept
<1>1. /\ map \in [DOMAIN archive.tasks -> Ids]
      /\ \A i \in DOMAIN archive.tasks : map[i] \notin list_tasks(Current)
      /\ S = Current /\ DOMAIN P.tasks = Range(map) /\ SetCurrent(X)
      /\ X = S \/ ImportView(S, P, X)
  BY DEF ImportShape
<1>2. Range(map) \cap list_tasks(Current) = {}
  BY <1>1 DEF Range
<1>3. list_tasks(Current) \subseteq Ids
  BY DEF list_tasks
<1>4. \A i \in list_tasks(Current) : Task(X, i) = Task(Current, i)
  BY <1>1, <1>2, <1>3 DEF ImportView
<1> QED BY <1>1, <1>4, CurrentKeepsTasks

\* Every step keeps the invariant and, unless it is a replacing import, the
\* tasks; one that is no creation leaves the number of births.
LEMMA ExchangeStep ==
    ASSUME ExchangeInv, Next
    PROVE  /\ ExchangeInv'
           /\ TasksKept \/ ReplacingImport
           /\ \/ births' = births
              \/ /\ \E id, t, parent : NewTaskShape(id, t, parent)
                 /\ UNCHANGED <<archive, interrupted, renumbered, torn>>
<1>1. CASE Local
  <2>1. UNCHANGED <<archive, interrupted, renumbered, torn>> /\ LedgerNext
    BY <1>1 DEF Local, exchangeVars
  <2>2. CASE create_task \/ create_follow_up_task \/ record_completed_task
    BY <2>1, <2>2, NewTasks, NewTaskKeepsTasks
  <2>3. CASE finish_task \/ add_todo \/ add_requirement
    BY <2>1, <2>3, TaskEdits
  <2>4. CASE archive_task \/ unarchive_task
    BY <2>1, <2>4, ArchiveEdits
  <2>5. CASE activate_task \/ clear_active_task \/ tag_release
    BY <2>1, <2>5, PointerEdits
  <2>6. CASE ledger_fork \/ ledger_switch
    BY <2>1, <2>6, OtherLedger DEF TasksKept
  <2>7. CASE ledger_adopt
    BY <2>1, <2>7, AdoptHasShape, AdoptKeeps, AdoptKeepsTasks
  <2> QED BY <2>1, <2>2, <2>3, <2>4, <2>5, <2>6, <2>7 DEF LedgerNext
<1>2. CASE write_project_archive
  <2>1. ledgers' = ledgers /\ births' = births
    BY <1>2 DEF write_project_archive
  <2> QED BY <1>2, <2>1, ExportKeeps DEF TasksKept
<1>3. ASSUME NEW replace \in BOOLEAN, NEW policy \in Policies, NEW stage \in 0..ImportStages,
             import_project_archive(replace, policy, stage)
      PROVE  ExchangeInv' /\ (TasksKept \/ ReplacingImport) /\ births' = births
  <2>1. read_project_archive
    BY <1>3 DEF import_project_archive
  <2>2. archive \in PayloadRecord /\ PayloadOK(archive, renumbered, torn.archive) /\ DOMAIN archive.tasks \subseteq Ids
    BY <2>1, ReadArchive
  <2>3. PICK map, S, P, X : ImportShape(replace, stage, map, S, P, X)
    BY <1>3, ImportHasShape
  <2>4. ExchangeInv'
    BY <2>2, <2>3, ImportKeeps
  <2>5. births' = births
    BY <2>3 DEF ImportShape
  <2>6. CASE replace = TRUE
    BY <1>3, <2>4, <2>5, <2>6, Zenon DEF ReplacingImport
  <2>7. CASE replace = FALSE
    <3>1. ImportShape(FALSE, stage, map, S, P, X)
      BY <2>3, <2>7, Zenon
    <3> QED BY <2>4, <2>5, <3>1, ImportKeepsTasks
  <2> QED BY <2>6, <2>7, Zenon
<1> QED BY <1>1, <1>2, <1>3 DEF Next

\* The invariant holds in every state the workspace reaches.
THEOREM ExchangeInvariance == Spec => []ExchangeInv
<1>1. ASSUME ExchangeInv, UNCHANGED vars PROVE ExchangeInv'
  <2>1. /\ config' = config /\ ledgers' = ledgers /\ births' = births /\ native' = native
        /\ archive' = archive /\ interrupted' = interrupted /\ renumbered' = renumbered /\ torn' = torn
    BY <1>1 DEF vars
  <2>2. ConfigTypes' /\ LedgersInv'
    BY <1>1, <2>1 DEF ExchangeInv, ConfigTypes, LedgersInv
  <2> QED BY <1>1, <2>1, <2>2, ArchiveKept DEF ExchangeInv
<1>2. ExchangeInv /\ [Next]_vars => ExchangeInv'
  BY <1>1, ExchangeStep
<1> QED BY <1>2, ExchangeInitial, PTL DEF Spec

-----------------------------------------------------------------------------
(* Theorems *)

\* The active task and the boundaries of releases exist and are what they must
\* be, in every ledger that was not left half cleared, whatever archive, adopt,
\* import --replace and imports that died while writing did to the tasks.
THEOREM PointersTheorem == Spec => []PointersResolve
<1>1. ExchangeInv => PointersResolve
  <2> SUFFICES ASSUME ExchangeInv, NEW l \in DOMAIN ledgers \ torn.ledgers
               PROVE  Pointers(ledgers[l])
    BY DEF PointersResolve, Pointers, ActiveOK
  <2> QED BY DEF ExchangeInv, LedgersInv, LedgerInv
<1> QED BY <1>1, ExchangeInvariance, PTL

\* Two visible tasks that a ledger created itself never bear the same slug:
\* _unique_slug and the check of unarchive are enough, also when a slug was
\* given to a new task while its first bearer was archived.
THEOREM SlugsTheorem == Spec => []NativeSlugsUnique
<1>1. ExchangeInv => NativeSlugsUnique
  <2> SUFFICES ASSUME ExchangeInv, NEW l \in DOMAIN ledgers,
                      NEW i \in visible_tasks(ledgers[l]), NEW k \in visible_tasks(ledgers[l]),
                      {<<l, i>>, <<l, k>>} \subseteq native, i # k
               PROVE  Task(ledgers[l], i).slug # Task(ledgers[l], k).slug
    BY Zenon DEF NativeSlugsUnique
  <2>1. NativeOK(l, ledgers[l], native)
    BY DEF ExchangeInv, LedgersInv, LedgerInv
  <2>2. <<l, i>> \in native /\ <<l, k>> \in native
    BY Zenon
  <2> QED BY <2>1, <2>2 DEF NativeOK
<1> QED BY <1>1, ExchangeInvariance, PTL

\* When every parent is below its child, the tree reaches every listed task:
\* the least one it missed would be a root or the child of one it reached.
LEMMA TreeReaches ==
    ASSUME NEW L \in LedgerRecord, ParentsOK(L), NEW listed, listed \subseteq list_tasks(L)
    PROVE  TreeShown(L, listed) = listed
<1> SUFFICES ASSUME NEW i \in listed, NEW shown \in SUBSET listed,
                    tree_roots(L, listed) \subseteq shown,
                    \A k \in listed : Task(L, k).parent_task_id \in shown => k \in shown
             PROVE  i \in shown
  BY DEF TreeShown
<1> SUFFICES ASSUME i \notin shown PROVE FALSE
  OBVIOUS
<1> DEFINE missed == listed \ shown
<1>1. \A k \in listed : k \in Nat /\ Task(L, k).parent_task_id \in Nat /\ Task(L, k).parent_task_id < k
  BY TaskFields DEF ParentsOK
<1>2. missed \subseteq Nat /\ missed # {}
  BY <1>1
<1> DEFINE m == Min(missed)
<1>3. m \in missed /\ \A y \in missed : m <= y
  <2> HIDE DEF missed
  <2> QED BY <1>2, MinElement
<1> HIDE DEF m
<1> DEFINE p == Task(L, m).parent_task_id
<1>4. p \in Nat /\ m \in Nat /\ p < m
  BY <1>1, <1>3
<1>5. p \notin missed
  BY <1>3, <1>4
<1>6. p \in listed
  BY <1>3 DEF tree_roots
<1> QED BY <1>3, <1>5, <1>6

\* taskledger tree shows every task, archived ones included or not, as long as
\* no import had to renumber: until then a parent's number is below its child's.
THEOREM TreeTheorem == Spec => []TreeShowsEveryTask
<1>1. ExchangeInv => TreeShowsEveryTask
  <2> SUFFICES ASSUME ExchangeInv, ~renumbered, NEW l \in DOMAIN ledgers
               PROVE  /\ TreeShown(ledgers[l], visible_tasks(ledgers[l])) = visible_tasks(ledgers[l])
                      /\ TreeShown(ledgers[l], list_tasks(ledgers[l])) = list_tasks(ledgers[l])
    BY DEF TreeShowsEveryTask
  <2> DEFINE L == ledgers[l]
  <2>1. L \in LedgerRecord /\ ParentsOK(L)
    BY DEF ExchangeInv, LedgersInv, LedgerInv
  <2> HIDE DEF L
  <2>2. visible_tasks(L) \subseteq list_tasks(L)
    BY DEF visible_tasks
  <2> QED BY <2>1, <2>2, TreeReaches DEF L
<1> QED BY <1>1, ExchangeInvariance, PTL

\* No command but import --replace makes an id of a ledger mean another task:
\* create, adopt and import all choose ids that no task of the ledger has.
THEOREM IdsTheorem == Spec => IdsNeverReused
<1> DEFINE Kept == \A l \in DOMAIN ledgers : \A i \in list_tasks(ledgers[l]) :
                       \/ Task(ledgers'[l], i).uid = Task(ledgers[l], i).uid
                       \/ \E policy \in Policies, stage \in 0..ImportStages :
                             import_project_archive(TRUE, policy, stage)
<1>1. ExchangeInv /\ [Next]_vars => [Kept]_vars
  <2> SUFFICES ASSUME ExchangeInv, Next PROVE Kept
    OBVIOUS
  <2>1. TasksKept \/ ReplacingImport
    BY ExchangeStep
  <2> QED BY <2>1, Zenon DEF TasksKept, ReplacingImport
<1> HIDE DEF Kept
<1>2. Spec => [][Kept]_vars
  BY <1>1, ExchangeInvariance, PTL DEF Spec
<1> QED BY <1>2 DEF IdsNeverReused, Kept

\* A new task has a number above every task its ledger holds and, unless an
\* import died, an empty directory: whatever lies in a directory without a
\* task.md lies below the counter.
THEOREM FreshTheorem == Spec => NewTasksAreFresh
<1> DEFINE Fresh == births' = births + 1 =>
                        \E i \in Ids :
                            /\ interrupted \/ Current'.bundle[i] = Bundle(Task(Current', i))
                            /\ Task(Current', i).uid = births'
                            /\ \A k \in list_tasks(Current) : k < i
<1>1. ExchangeInv /\ [Next]_vars => [Fresh]_vars
  <2> SUFFICES ASSUME ExchangeInv, Next, births' = births + 1
               PROVE  \E i \in Ids :
                          /\ interrupted \/ Current'.bundle[i] = Bundle(Task(Current', i))
                          /\ Task(Current', i).uid = births'
                          /\ \A k \in list_tasks(Current) : k < i
    OBVIOUS
  <2>1. births \in Nat
    BY DEF ExchangeInv, ConfigTypes
  <2>2. PICK id, t, parent : NewTaskShape(id, t, parent)
    BY <2>1, ExchangeStep
  <2> DEFINE L == Current
             b == [L.bundle[id] EXCEPT !.task = t]
             M == SetBundle(L, id, b)
  <2>3. /\ id \in Ids /\ id \notin list_tasks(L) /\ config.next <= id
        /\ \A k \in list_tasks(L) : k < id
        /\ t.uid = births' /\ b \in BundleRecord /\ b.task = t /\ SetCurrent(M)
        /\ config' = [config EXCEPT !.next = id + 1]
    BY <2>2 DEF NewTaskShape
  <2>4. L \in LedgerRecord /\ (interrupted \/ DirsOK(L, config.next)) /\ config.next \in Nat
    BY CurrentFacts
  <2>5. Current' = M
    <3>1. config'.ref = config.ref /\ config.ref \in DOMAIN ledgers
      BY <2>3 DEF ExchangeInv, ConfigTypes, LedgersInv
    <3> HIDE DEF M
    <3> QED BY <2>3, <3>1 DEF SetCurrent, Current, ExchangeInv, LedgersInv
  <2>6. interrupted \/ b = Bundle(t)
    <3> SUFFICES ASSUME ~interrupted PROVE b = Bundle(t)
      OBVIOUS
    <3>1. id \in Nat
      BY <2>3 DEF Ids
    <3>2. id \notin task_dirs(L)
      BY <2>3, <2>4, <3>1 DEF DirsOK
    <3>3. L.bundle[id] = NoBundle
      BY <2>3, <3>2 DEF task_dirs
    <3> QED BY <3>3 DEF Bundle
  <2> HIDE DEF L, b
  <2>7. M.bundle[id] = b
    BY <2>3, <2>4, SetBundleFields
  <2>8. Task(M, id) = t
    BY <2>3, <2>7 DEF Task
  <2> HIDE DEF M
  <2> QED BY <2>3, <2>5, <2>6, <2>7, <2>8 DEF L
<1> HIDE DEF Fresh
<1>2. Spec => [][Fresh]_vars
  BY <1>1, ExchangeInvariance, PTL DEF Spec
<1> QED BY <1>2 DEF NewTasksAreFresh, Fresh
=============================================================================
