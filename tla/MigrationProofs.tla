--------------------------- MODULE MigrationProofs ---------------------------
(***************************************************************************)
(* Theorems about Migration, for every number of tasks and of deaths of    *)
(* the command: no file is lost or doubled, the files of two tasks stay    *)
(* apart, and a storage that is called up to date is migrated completely.  *)
(***************************************************************************)
EXTENDS Migration, WellFoundedInduction, TLAPS

FileNames == {"changes", "task.md", "todos"}

Dir == [FileNames -> Tasks \cup {NoFile}]

TypeOK ==
    /\ root \in [Ids -> Dir] /\ ledger \in [Ids -> Dir]
    /\ inner \in [Tasks -> Nat] /\ newer \subseteq Found
    /\ active \in [root: [id: Nat, at: Nat], ledger: [id: Nat, at: Nat]]
    /\ counter \in Nat /\ layout \in Nat
    /\ pc \in {"idle", "renumber", "rewrite", "merge", "events", "intros", "releases", "active",
              "counter", "meta"}
    /\ queue \subseteq Found /\ next_available_id \in Nat /\ crashes \in Nat

\* A root directory holds files of its own task; a ledger directory holds
\* files of the root task of its id, or of a ledger task with its task.md.
FilesAtHome ==
    \A i \in Ids, f \in FileNames :
        /\ root[i][f] = NoFile \/ (i \in Found /\ root[i][f] = <<"root", i>>)
        /\ \/ ledger[i][f] = NoFile
           \/ i \in Found /\ ledger[i][f] = <<"root", i>>
           \/ \E k \in Found : ledger[i][f] = <<"ledger", k>> /\ ledger[i]["task.md"] = <<"ledger", k>>

\* No task is in two places.
OnePlace ==
    /\ \A i \in Ids, f \in FileNames : root[i][f] # NoFile => ledger[i][f] # <<"root", i>>
    /\ \A i, j \in Ids, k \in Found :
          ledger[i]["task.md"] = <<"ledger", k>> /\ ledger[j]["task.md"] = <<"ledger", k>> => i = j

\* The root task i is there with its task.md, moved or not.
RootTask(i) == root[i]["task.md"] # NoFile \/ ledger[i]["task.md"] = <<"root", i>>

WithTaskFile ==
    \A i \in Ids, f \in FileNames :
        root[i][f] # NoFile \/ ledger[i][f] = <<"root", i>> => RootTask(i)

\* A ledger task that was renumbered is out of the way of the root's tasks.
RenumberedBeyond ==
    \A j \in Ids, k \in Found :
        ledger[j]["task.md"] = <<"ledger", k>> /\ j # k => \A i \in dirs(root) : i < j

\* The ids still to be handed out are free of root tasks, and there are
\* enough of them for the conflicts that are left.
RenumberProgress ==
    pc \in {"renumber", "rewrite"} =>
        /\ queue \subseteq dirs(root)
        /\ next_available_id > 0
        /\ \A i \in dirs(root) : i < next_available_id
        /\ \A i \in queue : next_available_id <= MaxId + i
        /\ pc = "rewrite" =>
              /\ queue # {} /\ next_available_id \in Ids
              /\ ledger[next_available_id]["task.md"] = <<"ledger", Min(queue)>>
              /\ ledger[Min(queue)] = NoDir

\* What the later steps of the command have behind them.
MergeProgress ==
    /\ pc # "idle" => layout = 2
    /\ pc \in {"events", "intros", "releases", "active", "counter", "meta"} \/ layout > 2 =>
          dirs(root) = {}
    /\ pc \in {"counter", "meta"} \/ layout > 2 => active.root = NoActive
    /\ pc = "meta" \/ layout > 2 => \A i \in dirs(ledger) : i < counter

ActiveKnown ==
    {active.root.id, active.ledger.id} \subseteq {0} \cup dirs(root) \cup dirs(ledger)

\* The records of a task name its directory, except while they are rewritten
\* and when the command died then.
InnerIds ==
    /\ \A i \in Found : inner[<<"root", i>>] = i
    /\ \A j \in Ids, k \in Found : ledger[j]["task.md"] = <<"ledger", k>> =>
          \/ <<"ledger", k>> \in stale
          \/ inner[<<"ledger", k>>] = j
          \/ pc = "rewrite" /\ j = next_available_id /\ k = Min(queue)

\* Nothing but files of the root task i, if anything.
Clean(i) == \A f \in FileNames : ledger[i][f] \in {NoFile, <<"root", i>>}

\* The ledger task i was older than the root task, and kept its id.
KeptItsId(i) == ledger[i]["task.md"] = <<"ledger", i>> /\ i \notin newer

\* Where the files of root task i are, or will be moved next, there is no
\* file of another task unless that one had kept its id.
Apart ==
    /\ \A i \in Ids, f \in FileNames : ledger[i][f] = <<"root", i>> => Clean(i) \/ KeptItsId(i)
    /\ pc \in {"renumber", "rewrite"} => \A i \in dirs(root) \ queue : Clean(i) \/ KeptItsId(i)
    /\ pc = "merge" => \A i \in dirs(root) : Clean(i) \/ KeptItsId(i)

MigrationInv ==
    /\ TypeOK /\ FilesAtHome /\ OnePlace /\ WithTaskFile /\ RenumberedBeyond
    /\ RenumberProgress /\ MergeProgress /\ ActiveKnown /\ InnerIds /\ Apart

LogsTyped ==
    /\ log \in [root: {NoLog, {"root"}}, ledger: {NoLog} \cup SUBSET Lines]
    /\ documents \in Documents

\* What the later steps have behind them of logs and documents.
LogsProgress ==
    /\ pc \in {"intros", "releases", "active", "counter", "meta"} \/ layout > 2 =>
          log.root = NoLog \/ log.root \subseteq log.ledger
    /\ pc \in {"releases", "active", "counter", "meta"} \/ layout > 2 =>
          documents.root["intros"] = "none"
    /\ pc \in {"active", "counter", "meta"} \/ layout > 2 => documents.root["releases"] = "none"

LogsInv == LogsTyped /\ LogsProgress

-----------------------------------------------------------------------------
(* Sets of ids, files and directories *)

\* A nonempty set of ids has a least element, and Min returns it.
LEMMA MinElement ==
    ASSUME NEW S, S \subseteq Nat, S # {}
    PROVE  Min(S) \in S /\ \A y \in S : Min(S) <= y
<1>1. PICK x \in S : \A y \in S : ~(<<y, x>> \in OpToRel(<, Nat))
  BY NatLessThanWellFounded, WFMin
<1>2. \A y \in S : x <= y
  <2> SUFFICES ASSUME NEW y \in S PROVE x <= y
    OBVIOUS
  <2>1. x \in Nat /\ y \in Nat
    OBVIOUS
  <2>2. ~(y < x)
    BY <1>1, <2>1, Zenon DEF OpToRel
  <2> QED BY <2>1, <2>2
<1> QED BY <1>2 DEF Min

\* A bounded one has a greatest element, and Max returns it.
LEMMA MaxElement ==
    ASSUME NEW N \in Nat, NEW S, S \subseteq 0..N, S # {}
    PROVE  Max(S) \in S /\ \A y \in S : y <= Max(S)
<1> DEFINE T == {n \in Nat : \E y \in S : n = N - y}
<1>1. T # {} /\ T \subseteq Nat
  <2>1. PICK y \in S : TRUE
    OBVIOUS
  <2>2. y \in 0..N /\ N - y \in Nat
    OBVIOUS
  <2> QED BY <2>2
<1>2. Min(T) \in T /\ \A n \in T : Min(T) <= n
  BY <1>1, MinElement
<1>3. PICK x \in S : Min(T) = N - x
  BY <1>2
<1>4. \A y \in S : x >= y
  <2> SUFFICES ASSUME NEW y \in S PROVE x >= y
    OBVIOUS
  <2>1. N - y \in T /\ x \in 0..N /\ y \in 0..N
    OBVIOUS
  <2>2. N - x <= N - y
    BY <1>2, <1>3, <2>1
  <2> QED BY <2>1, <2>2
<1>5. Max(S) \in S /\ \A y \in S : Max(S) >= y
  BY <1>4 DEF Max
<1> QED
  <2>1. \A y \in S : y \in Nat
    <3> TAKE y \in S
    <3> QED BY SMTT(20)
  <2>2. Max(S) \in Nat
    BY <1>5, <2>1
  <2> QED BY <1>5, <2>1, <2>2

\* The names of the files of a task.
LEMMA RangeOfFiles == Range(Files) = FileNames
BY DEF Range, Files, FileNames

\* Every id is a number, and the found ones are among them.
LEMMA IdFacts ==
    /\ MaxId \in Nat \ {0} /\ Found \subseteq Ids /\ Ids \subseteq Nat
    /\ \A i \in Found : i \in 1..MaxId
    /\ \A i \in Ids : i \in 1..2 * MaxId
BY MigrationAssumption DEF Found, Ids

\* Root tasks, ledger tasks and no task are told apart.
LEMMA TaskFacts ==
    /\ \A i, j : <<"root", i>> # <<"ledger", j>>
    /\ \A i : <<"root", i>> # NoFile /\ <<"ledger", i>> # NoFile
    /\ \A i, j : <<"root", i>> = <<"root", j>> => i = j
    /\ \A i, j : <<"ledger", i>> = <<"ledger", j>> => i = j
    /\ \A i \in Found : <<"root", i>> \in Tasks /\ <<"ledger", i>> \in Tasks
    /\ NoFile \notin Tasks
BY DEF NoFile, Tasks

\* An empty directory has no file, and only that one has none.
LEMMA DirFacts ==
    ASSUME TypeOK, NEW i \in Ids
    PROVE  /\ NoDir \in Dir /\ \A f \in FileNames : NoDir[f] = NoFile
           /\ i \in dirs(root) <=> \E f \in FileNames : root[i][f] # NoFile
           /\ i \in dirs(ledger) <=> \E f \in FileNames : ledger[i][f] # NoFile
<1>1. NoDir = [f \in FileNames |-> NoFile]
  BY RangeOfFiles DEF NoDir
<1>2. root[i] \in [FileNames -> Tasks \cup {NoFile}] /\ ledger[i] \in [FileNames -> Tasks \cup {NoFile}]
  BY DEF TypeOK, Dir
<1>3. ASSUME NEW d \in [FileNames -> Tasks \cup {NoFile}]
      PROVE  d # NoDir <=> \E f \in FileNames : d[f] # NoFile
  BY <1>1
<1> QED BY <1>1, <1>2, <1>3 DEF dirs, Dir

\* merge takes a file that is there.
LEMMA NextFileThere ==
    ASSUME TypeOK, NEW i \in dirs(root)
    PROVE  Files[NextFile(i)] \in FileNames /\ root[i][Files[NextFile(i)]] # NoFile
<1> DEFINE P(k) == /\ root[i][Files[k]] # NoFile
                   /\ \A j \in 1..k - 1 : root[i][Files[j]] = NoFile
<1>1. DOMAIN Files = {1, 2, 3} /\ Files[1] = "changes" /\ Files[2] = "task.md" /\ Files[3] = "todos"
  BY DEF Files
<1>2. i \in Ids
  BY DEF dirs
<1>3. \E f \in FileNames : root[i][f] # NoFile
  BY <1>2, DirFacts
<1>4. \E k \in DOMAIN Files : P(k)
  <2>1. CASE root[i]["changes"] # NoFile
    <3>1. P(1)
      BY <1>1, <2>1
    <3> QED BY <1>1, <3>1
  <2>2. CASE root[i]["changes"] = NoFile /\ root[i]["task.md"] # NoFile
    <3>1. P(2)
      BY <1>1, <2>2
    <3> QED BY <1>1, <3>1
  <2>3. CASE root[i]["changes"] = NoFile /\ root[i]["task.md"] = NoFile
    <3>1. root[i]["todos"] # NoFile
      BY <1>3, <2>3 DEF FileNames
    <3>2. P(3)
      BY <1>1, <2>3, <3>1
    <3> QED BY <1>1, <3>2
  <2> QED BY <2>1, <2>2, <2>3
<1>5. NextFile(i) \in DOMAIN Files /\ P(NextFile(i))
  BY <1>4 DEF NextFile
<1> QED BY <1>1, <1>5 DEF FileNames

\* Where file f of a task is.
LEMMA CopiesOf ==
    ASSUME NEW t, NEW f
    PROVE  /\ \A at \in Copies(t, f) : \/ at[1] = "root" /\ at[2] \in Ids /\ root[at[2]][f] = t
                                       \/ at[1] = "ledger" /\ at[2] \in Ids /\ ledger[at[2]][f] = t
           /\ \A i \in Ids : root[i][f] = t => <<"root", i>> \in Copies(t, f)
           /\ \A i \in Ids : ledger[i][f] = t => <<"ledger", i>> \in Copies(t, f)
           /\ \A x, y \in Copies(t, f) : x[1] = y[1] /\ x[2] = y[2] => x = y
BY DEF Copies

\* dirs is a set of ids, and at the root those that were found.
LEMMA DirsAreIds ==
    ASSUME TypeOK, FilesAtHome
    PROVE  dirs(root) \subseteq Found /\ dirs(root) \subseteq Ids /\ dirs(ledger) \subseteq Ids
<1>1. dirs(root) \subseteq Ids /\ dirs(ledger) \subseteq Ids
  BY DEF dirs
<1>2. ASSUME NEW i \in dirs(root) PROVE i \in Found
  <2>1. PICK f \in FileNames : root[i][f] # NoFile
    BY <1>1, DirFacts
  <2> QED BY <1>1, <2>1 DEF FilesAtHome
<1> QED BY <1>1, <1>2

\* The largest number of a place is not below any of its ids.
LEMMA MaxNumber ==
    ASSUME NEW D, NEW N \in Nat, D \subseteq 1..N
    PROVE  Max(D \cup {0}) \in 0..N /\ \A i \in D : i <= Max(D \cup {0})
<1> DEFINE S == D \cup {0}
<1>1. S \subseteq 0..N /\ S # {}
  OBVIOUS
<1> HIDE DEF S
<1>2. Max(S) \in S /\ \A y \in S : y <= Max(S)
  BY <1>1, MaxElement
<1>3. Max(S) \in 0..N
  BY <1>1, <1>2
<1> QED BY <1>2, <1>3 DEF S

-----------------------------------------------------------------------------
(* The invariant holds initially *)

\* Every directory found is empty or holds files of the task of its id.
LEMMA FoundDirsAreHome ==
    ASSUME NEW from \in {"root", "ledger"}, NEW d \in FoundDirs(from)
    PROVE  /\ d \in [Ids -> Dir]
           /\ \A i \in Ids, f \in FileNames :
                 d[i][f] # NoFile => i \in Found /\ d[i][f] = <<from, i>> /\ d[i]["task.md"] = <<from, i>>
<1>1. NoDir = [f \in FileNames |-> NoFile] /\ NoDir \in Dir
  BY RangeOfFiles DEF NoDir, Dir
<1>2. ASSUME NEW i \in Found, NEW e \in DirsOf(<<from, i>>)
      PROVE  /\ e \in Dir /\ e["task.md"] = <<from, i>>
             /\ \A f \in FileNames : e[f] # NoFile => e[f] = <<from, i>>
  <2>1. <<from, i>> \in Tasks
    BY DEF Tasks
  <2>2. \/ e = [NoDir EXCEPT !["task.md"] = <<from, i>>]
        \/ e = [f \in FileNames |-> <<from, i>>]
    BY RangeOfFiles DEF DirsOf
  <2>3. CASE e = [NoDir EXCEPT !["task.md"] = <<from, i>>]
    BY <1>1, <2>1, <2>3 DEF Dir, FileNames
  <2>4. CASE e = [f \in FileNames |-> <<from, i>>]
    BY <2>1, <2>4 DEF Dir, FileNames
  <2> QED BY <2>2, <2>3, <2>4
<1>3. /\ DOMAIN d = Ids /\ d = [i \in Ids |-> d[i]]
      /\ \A i \in Ids : d[i] = NoDir \/ (i \in Found /\ d[i] \in DirsOf(<<from, i>>))
  BY DEF FoundDirs
<1>4. \A i \in Ids : d[i] \in Dir
  BY <1>1, <1>2, <1>3
<1>5. d \in [Ids -> Dir]
  BY <1>3, <1>4
<1>6. ASSUME NEW i \in Ids, NEW f \in FileNames, d[i][f] # NoFile
      PROVE  i \in Found /\ d[i][f] = <<from, i>> /\ d[i]["task.md"] = <<from, i>>
  BY <1>1, <1>2, <1>3, <1>6
<1> QED BY <1>5, <1>6

\* Init satisfies the invariant.
LEMMA InitInv == Init => MigrationInv
<1> SUFFICES ASSUME Init PROVE MigrationInv
  OBVIOUS
<1> USE IdFacts, TaskFacts
<1>0. "task.md" \in FileNames
  BY DEF FileNames
<1>1. /\ root \in [Ids -> Dir]
      /\ \A i \in Ids, f \in FileNames :
            root[i][f] # NoFile => i \in Found /\ root[i][f] = <<"root", i>> /\ root[i]["task.md"] = <<"root", i>>
  <2>1. CASE layout = 2
    BY <2>1, FoundDirsAreHome DEF Init
  <2>2. CASE layout # 2
    <3>1. NoDir = [f \in FileNames |-> NoFile]
      BY RangeOfFiles DEF NoDir
    <3>2. root = [i \in Ids |-> NoDir]
      BY <2>2 DEF Init
    <3> QED BY <3>1, <3>2 DEF Dir
  <2> QED BY <2>1, <2>2
<1>2. /\ ledger \in [Ids -> Dir]
      /\ \A i \in Ids, f \in FileNames :
            ledger[i][f] # NoFile => i \in Found /\ ledger[i][f] = <<"ledger", i>> /\ ledger[i]["task.md"] = <<"ledger", i>>
  BY FoundDirsAreHome DEF Init
<1>3. dirs(root) \subseteq Found /\ dirs(ledger) \subseteq Found
  <2>1. NoDir = [f \in FileNames |-> NoFile]
    BY RangeOfFiles DEF NoDir
  <2>2. ASSUME NEW d \in [Ids -> Dir], NEW i \in Ids, d[i] # NoDir
        PROVE  \E f \in FileNames : d[i][f] # NoFile
    <3>1. d[i] \in [FileNames -> Tasks \cup {NoFile}]
      BY DEF Dir
    <3> QED BY <2>1, <2>2, <3>1
  <2> QED BY <1>1, <1>2, <2>2 DEF dirs
<1>4. layout > 2 => dirs(root) = {}
  <2>1. layout > 2 => root = [i \in Ids |-> NoDir]
    BY DEF Init
  <2> QED BY <2>1 DEF dirs
<1>5. /\ active \in [root: [id: Nat, at: Nat], ledger: [id: Nat, at: Nat]]
      /\ active.root.id \in {0} \cup dirs(root) /\ active.ledger.id \in {0} \cup dirs(ledger)
      /\ active.root.id = 0 => active.root = NoActive
  <2>1. PICK r \in {0} \cup dirs(root), l \in {0} \cup dirs(ledger), later \in {0, 2} :
            active = [root |-> Active(r, 1), ledger |-> Active(l, later)]
    BY DEF Init
  <2>2. r \in Nat /\ l \in Nat /\ later \in Nat
    BY <1>3
  <2>3. Active(r, 1) \in [id: Nat, at: Nat] /\ Active(r, 1).id = r /\ (r = 0 => Active(r, 1) = NoActive)
    BY <2>2 DEF Active, NoActive
  <2>4. Active(l, later) \in [id: Nat, at: Nat] /\ Active(l, later).id = l
    BY <2>2 DEF Active, NoActive
  <2> QED BY <2>1, <2>3, <2>4
<1>6. Max(dirs(ledger) \cup {0}) \in Nat /\ \A i \in dirs(ledger) : i <= Max(dirs(ledger) \cup {0})
  <2>1. dirs(ledger) \subseteq 1..MaxId /\ MaxId \in Nat
    BY <1>3
  <2>2. Max(dirs(ledger) \cup {0}) \in 0..MaxId
    BY <2>1, MaxNumber
  <2> QED BY <2>1, <2>2, MaxNumber
<1>7. counter \in Nat /\ (layout > 2 => \A i \in dirs(ledger) : i < counter)
  <2>1. layout \in 1..4
    BY DEF Init
  <2>2. counter = 1 \/ counter = Max(dirs(ledger) \cup {0}) + 1
    BY DEF Init
  <2>3. layout > 2 => counter = Max(dirs(ledger) \cup {0}) + 1
    BY <2>1 DEF Init
  <2>4. dirs(ledger) \subseteq Nat
    BY <1>3
  <2> QED BY <1>6, <2>2, <2>3, <2>4
<1>8. TypeOK
  <2>1. inner \in [Tasks -> Nat]
    <3>1. \A t \in Tasks : t[2] \in Nat
      BY DEF Tasks
    <3> QED BY <3>1 DEF Init
  <2> QED BY <1>1, <1>2, <1>3, <1>5, <1>7, <2>1 DEF Init, TypeOK
<1>9. FilesAtHome
  BY <1>1, <1>2 DEF FilesAtHome
<1>10. OnePlace
  <2>1. ASSUME NEW i \in Ids, NEW f \in FileNames PROVE ledger[i][f] # <<"root", i>>
    BY <1>2, <2>1
  <2>2. ASSUME NEW i \in Ids, NEW j \in Ids, NEW k \in Found,
               ledger[i]["task.md"] = <<"ledger", k>>, ledger[j]["task.md"] = <<"ledger", k>>
        PROVE  i = j
    <3>1. <<"ledger", k>> = <<"ledger", i>> /\ <<"ledger", k>> = <<"ledger", j>>
      BY <1>0, <1>2, <2>2
    <3> QED BY <3>1
  <2> QED BY <2>1, <2>2 DEF OnePlace
<1>11. WithTaskFile
  BY <1>0, <1>1, <1>2 DEF WithTaskFile, RootTask
<1>12. RenumberedBeyond
  <2>1. ASSUME NEW j \in Ids, NEW k \in Found, ledger[j]["task.md"] = <<"ledger", k>>
        PROVE  j = k
    <3>1. <<"ledger", k>> = <<"ledger", j>>
      BY <1>0, <1>2, <2>1
    <3> QED BY <3>1
  <2> QED BY <2>1 DEF RenumberedBeyond
<1>13. RenumberProgress
  BY DEF RenumberProgress, Init
<1>14. MergeProgress
  BY <1>4, <1>5, <1>7 DEF MergeProgress, Init
<1>15. ActiveKnown
  BY <1>5 DEF ActiveKnown
<1>16. InnerIds
  <2>1. \A i \in Found : inner[<<"root", i>>] = i /\ inner[<<"ledger", i>>] = i
    BY DEF Init
  <2> QED BY <1>0, <1>2, <2>1 DEF InnerIds
<1>17. Apart
  BY <1>2 DEF Apart, Init
<1> QED BY <1>8, <1>9, <1>10, <1>11, <1>12, <1>13, <1>14, <1>15, <1>16, <1>17 DEF MigrationInv

-----------------------------------------------------------------------------
(* Every step preserves it *)

\* A step that moves no file keeps every file where it belongs.
LEMMA FilesUntouched ==
    ASSUME MigrationInv, UNCHANGED <<root, ledger, newer>>
    PROVE  /\ FilesAtHome' /\ OnePlace' /\ WithTaskFile' /\ RenumberedBeyond'
           /\ dirs(root)' = dirs(root) /\ dirs(ledger)' = dirs(ledger)
           /\ \A i : Clean(i)' = Clean(i) /\ KeptItsId(i)' = KeptItsId(i)
<1>1. dirs(root)' = dirs(root) /\ dirs(ledger)' = dirs(ledger)
  BY DEF dirs
<1>2. FilesAtHome' /\ OnePlace'
  BY DEF MigrationInv, FilesAtHome, OnePlace
<1>3. WithTaskFile'
  BY DEF MigrationInv, WithTaskFile, RootTask
<1>4. RenumberedBeyond'
  BY <1>1 DEF MigrationInv, RenumberedBeyond
<1>5. \A i : Clean(i)' = Clean(i) /\ KeptItsId(i)' = KeptItsId(i)
  BY DEF Clean, KeptItsId
<1> QED BY <1>1, <1>2, <1>3, <1>4, <1>5

\* migrate apply begins with the conflicting ids, all of which are to be
\* looked at, and ids above those at the root.
LEMMA ApplyStep ==
    ASSUME MigrationInv, migrate_apply
    PROVE  MigrationInv'
<1> USE IdFacts
<1>1. /\ FilesAtHome' /\ OnePlace' /\ WithTaskFile' /\ RenumberedBeyond'
      /\ dirs(root)' = dirs(root) /\ dirs(ledger)' = dirs(ledger)
      /\ \A i : Clean(i)' = Clean(i) /\ KeptItsId(i)' = KeptItsId(i)
  BY FilesUntouched DEF migrate_apply
<1>2. dirs(root) \subseteq Found /\ dirs(root) \subseteq Ids /\ dirs(ledger) \subseteq Ids
  BY DirsAreIds DEF MigrationInv
<1>3. queue' = dirs(root) \cap dirs(ledger) /\ pc' = "renumber" /\ pc = "idle"
  BY DEF migrate_apply, find_task_conflicts
<1>4. next_available_id' \in Nat /\ next_available_id' > 0 /\ next_available_id' <= MaxId + 1
      /\ \A i \in dirs(root) : i < next_available_id'
  <2>1. dirs(root) \subseteq 1..MaxId
    BY <1>2
  <2>2. /\ Max(dirs(root) \cup {0}) \in 0..MaxId
        /\ \A i \in dirs(root) : i <= Max(dirs(root) \cup {0})
    BY <2>1, MaxNumber
  <2>3. next_available_id' = Max(dirs(root) \cup {0}) + 1
    BY DEF migrate_apply, max_numeric_task_number
  <2> QED BY <2>1, <2>2, <2>3
<1>5. layout = 2 /\ layout' = layout
  <2>1. layout < 3 /\ (layout < 3 /\ layout # 2 => FALSE)
    BY DEF migrate_apply, required_layout_migrations, TASKLEDGER_STORAGE_LAYOUT_VERSION
  <2> QED BY <2>1 DEF migrate_apply
<1>6. TypeOK'
  BY <1>2, <1>3, <1>4 DEF MigrationInv, TypeOK, migrate_apply
<1>7. RenumberProgress'
  <2>1. \A i \in queue' : next_available_id' <= MaxId + i
    <3> SUFFICES ASSUME NEW i \in queue' PROVE next_available_id' <= MaxId + i
      OBVIOUS
    <3>1. i \in 1..MaxId
      BY <1>2, <1>3
    <3> QED BY <1>4, <3>1
  <2> QED BY <1>1, <1>3, <1>4, <2>1 DEF RenumberProgress
<1>8. MergeProgress'
  BY <1>3, <1>5 DEF MergeProgress
<1>9. ActiveKnown'
  BY <1>1 DEF MigrationInv, ActiveKnown, migrate_apply
<1>10. InnerIds'
  <2>1. UNCHANGED <<inner, ledger, stale>>
    BY DEF migrate_apply
  <2>2. \A i \in Found : inner[<<"root", i>>] = i
    BY DEF MigrationInv, InnerIds
  <2>3. \A j \in Ids, k \in Found : ledger[j]["task.md"] = <<"ledger", k>> =>
           <<"ledger", k>> \in stale \/ inner[<<"ledger", k>>] = j
    BY <1>3 DEF MigrationInv, InnerIds
  <2> QED BY <2>1, <2>2, <2>3 DEF InnerIds
<1>11. Apart'
  <2>1. ASSUME NEW i \in dirs(root), i \notin dirs(ledger) PROVE Clean(i)
    BY <1>2, <2>1, DirFacts DEF MigrationInv, Clean
  <2>2. \A i \in Ids, f \in FileNames : ledger'[i][f] = <<"root", i>> => Clean(i)' \/ KeptItsId(i)'
    BY <1>1 DEF MigrationInv, Apart, migrate_apply
  <2> QED BY <1>1, <1>3, <2>1, <2>2 DEF Apart
<1> QED BY <1>1, <1>6, <1>7, <1>8, <1>9, <1>10, <1>11 DEF MigrationInv

\* A ledger directory that shares its id with a root directory holds files
\* of the root task, or it is the one found there.
LEMMA ConflictIsFound ==
    ASSUME MigrationInv, NEW i \in dirs(root), ~Clean(i)
    PROVE  /\ i \in Found /\ ledger[i]["task.md"] = <<"ledger", i>>
           /\ root[i]["task.md"] = <<"root", i>>
<1> USE IdFacts, TaskFacts
<1>1. i \in Found /\ i \in Ids /\ "task.md" \in FileNames
  BY DirsAreIds DEF MigrationInv, FileNames
<1>2. PICK f \in FileNames : ledger[i][f] # NoFile /\ ledger[i][f] # <<"root", i>>
  BY DEF Clean
<1>3. PICK k \in Found : ledger[i]["task.md"] = <<"ledger", k>>
  BY <1>1, <1>2 DEF MigrationInv, FilesAtHome
<1>4. k = i
  <2>1. k # i => i < i
    BY <1>1, <1>3 DEF MigrationInv, RenumberedBeyond
  <2> QED BY <1>1, <2>1
<1>5. ledger[i]["task.md"] # <<"root", i>>
  BY <1>3
<1>6. \E g \in FileNames : root[i][g] # NoFile
  BY <1>1, DirFacts DEF MigrationInv
<1>7. root[i]["task.md"] # NoFile
  BY <1>1, <1>5, <1>6 DEF MigrationInv, WithTaskFile, RootTask
<1> QED BY <1>1, <1>3, <1>4, <1>7 DEF MigrationInv, FilesAtHome

\* The least of the ids still to be looked at.
LEMMA QueueMin ==
    ASSUME MigrationInv, queue # {}
    PROVE  Min(queue) \in queue /\ Min(queue) \in Found /\ \A i \in queue : Min(queue) <= i
BY MinElement, IdFacts DEF MigrationInv, TypeOK

\* The directory of a newer ledger task is renamed to the next free id.
LEMMA RenameStep ==
    ASSUME MigrationInv, pc = "renumber", queue # {}, ledger_is_newer(Min(queue)),
           ledger[next_available_id] = NoDir,
           ledger' = [ledger EXCEPT ![next_available_id] = ledger[Min(queue)], ![Min(queue)] = NoDir],
           pc' = "rewrite",
           UNCHANGED <<root, inner, newer, active, counter, layout, queue, next_available_id, crashes, stale>>
    PROVE  MigrationInv'
<1> USE IdFacts, TaskFacts
<1> DEFINE i == Min(queue)
           n == next_available_id
<1>0. "task.md" \in FileNames /\ layout = 2
  BY DEF FileNames, MigrationInv, MergeProgress
<1>1. /\ queue \subseteq dirs(root) /\ n > 0 /\ n \in Nat
      /\ \A j \in dirs(root) : j < n
      /\ \A j \in queue : n <= MaxId + j
  BY DEF MigrationInv, RenumberProgress, TypeOK
<1>2. i \in queue /\ i \in Found /\ i \in Ids /\ i \in dirs(root)
  BY <1>1, QueueMin
<1>3. n \in Ids /\ n # i /\ n \notin dirs(root)
  <2>1. i \in 1..MaxId /\ n <= MaxId + i /\ i < n /\ MaxId \in Nat
    BY <1>1, <1>2
  <2>2. n \in Ids
    BY <1>1, <2>1 DEF Ids
  <2>3. \A j \in dirs(root) : j # n
    <3> TAKE j \in dirs(root)
    <3>1. j \in Nat /\ j < n
      BY <1>1 DEF dirs
    <3> QED BY <1>1, <3>1
  <2> QED BY <2>1, <2>2, <2>3
<1>4. ledger[i]["task.md"] = <<"ledger", i>> /\ i \in newer /\ root[i]["task.md"] = <<"root", i>>
  BY DEF ledger_is_newer
<1>5. ledger[n] = NoDir /\ NoDir \in Dir /\ \A f \in FileNames : NoDir[f] = NoFile
  BY <1>2, DirFacts DEF MigrationInv
<1> HIDE DEF n, i
<1>6. ledger \in [Ids -> Dir]
  BY DEF MigrationInv, TypeOK
<1>7. /\ ledger' \in [Ids -> Dir] /\ ledger'[n] = ledger[i] /\ ledger'[i] = NoDir
      /\ \A j \in Ids \ {n, i} : ledger'[j] = ledger[j]
  <2>1. ledger' = [ledger EXCEPT ![n] = ledger[i], ![i] = NoDir]
    BY DEF n, i
  <2> QED BY <1>2, <1>3, <1>5, <1>6, <2>1
<1>8. \A f \in FileNames : ledger[i][f] = NoFile \/ ledger[i][f] = <<"ledger", i>>
  <2> SUFFICES ASSUME NEW f \in FileNames, ledger[i][f] # NoFile PROVE ledger[i][f] = <<"ledger", i>>
    OBVIOUS
  <2>1. ledger[i][f] # <<"root", i>>
    <3>1. ~Clean(i) /\ ~KeptItsId(i)
      BY <1>0, <1>4 DEF Clean, KeptItsId
    <3> QED BY <1>2, <3>1 DEF MigrationInv, Apart
  <2>2. PICK k \in Found : ledger[i][f] = <<"ledger", k>> /\ ledger[i]["task.md"] = <<"ledger", k>>
    BY <1>2, <2>1 DEF MigrationInv, FilesAtHome
  <2> QED BY <1>4, <2>2
<1>9. \A f \in FileNames : root[n][f] = NoFile
  BY <1>3, DirFacts DEF MigrationInv
<1>10. /\ \A f \in FileNames : ledger'[i][f] = NoFile /\ ledger'[n][f] \in {NoFile, <<"ledger", i>>}
       /\ ledger'[n]["task.md"] = <<"ledger", i>>
  BY <1>4, <1>5, <1>7, <1>8
<1>11. dirs(root)' = dirs(root) /\ \A j \in Ids \ {i} : j \in dirs(ledger) => j \in dirs(ledger)'
  <2>1. dirs(root)' = dirs(root)
    BY DEF dirs
  <2>2. ASSUME NEW j \in Ids, j # i, ledger[j] # NoDir PROVE ledger'[j] # NoDir
    BY <1>5, <1>7, <2>2
  <2> QED BY <2>1, <2>2 DEF dirs
<1>12. TypeOK'
  BY <1>7 DEF MigrationInv, TypeOK
<1>13. FilesAtHome'
  <2> SUFFICES ASSUME NEW j \in Ids, NEW f \in FileNames
               PROVE  \/ ledger'[j][f] = NoFile
                      \/ j \in Found /\ ledger'[j][f] = <<"root", j>>
                      \/ \E k \in Found : ledger'[j][f] = <<"ledger", k>> /\ ledger'[j]["task.md"] = <<"ledger", k>>
    BY DEF MigrationInv, FilesAtHome
  <2>1. CASE j \in {i, n}
    BY <1>2, <1>10, <2>1
  <2>2. CASE j \notin {i, n}
    BY <1>7, <2>2 DEF MigrationInv, FilesAtHome
  <2> QED BY <2>1, <2>2
<1>14. OnePlace'
  <2>1. ASSUME NEW j \in Ids, NEW f \in FileNames, root[j][f] # NoFile
        PROVE  ledger'[j][f] # <<"root", j>>
    <3>1. CASE j \in {i, n}
      BY <1>10, <3>1
    <3>2. CASE j \notin {i, n}
      BY <1>7, <2>1, <3>2 DEF MigrationInv, OnePlace
    <3> QED BY <3>1, <3>2
  <2>2. ASSUME NEW j \in Ids, NEW k \in Found, ledger'[j]["task.md"] = <<"ledger", k>>
        PROVE  IF k = i THEN j = n ELSE j # n /\ ledger[j]["task.md"] = <<"ledger", k>>
    <3>1. j # i
      BY <1>0, <1>10, <2>2
    <3>2. CASE j = n
      BY <1>10, <2>2, <3>2
    <3>3. CASE j # n
      <4>1. ledger[j]["task.md"] = <<"ledger", k>>
        BY <1>7, <2>2, <3>1, <3>3
      <4>2. k # i
        BY <1>2, <1>4, <3>1, <4>1 DEF MigrationInv, OnePlace
      <4> QED BY <3>3, <4>1, <4>2
    <3> QED BY <3>2, <3>3
  <2>3. ASSUME NEW j \in Ids, NEW l \in Ids, NEW k \in Found,
               ledger'[j]["task.md"] = <<"ledger", k>>, ledger'[l]["task.md"] = <<"ledger", k>>
        PROVE  j = l
    <3>1. CASE k = i
      BY <2>2, <2>3, <3>1
    <3>2. CASE k # i
      <4>1. ledger[j]["task.md"] = <<"ledger", k>> /\ ledger[l]["task.md"] = <<"ledger", k>>
        BY <2>2, <2>3, <3>2
      <4> QED BY <4>1 DEF MigrationInv, OnePlace
    <3> QED BY <3>1, <3>2
  <2> QED BY <2>1, <2>3 DEF OnePlace
<1>15. WithTaskFile'
  <2> SUFFICES ASSUME NEW j \in Ids, NEW f \in FileNames,
                      root[j][f] # NoFile \/ ledger'[j][f] = <<"root", j>>
               PROVE  root[j]["task.md"] # NoFile \/ ledger'[j]["task.md"] = <<"root", j>>
    BY DEF WithTaskFile, RootTask
  <2>1. CASE j = i
    BY <1>4, <2>1
  <2>2. CASE j = n
    BY <1>9, <1>10, <2>2
  <2>3. CASE j \notin {i, n}
    BY <1>7, <2>3 DEF MigrationInv, WithTaskFile, RootTask
  <2> QED BY <2>1, <2>2, <2>3
<1>16. RenumberedBeyond'
  <2> SUFFICES ASSUME NEW j \in Ids, NEW k \in Found, ledger'[j]["task.md"] = <<"ledger", k>>, j # k,
                      NEW r \in dirs(root)
               PROVE  r < j
    BY <1>11 DEF RenumberedBeyond
  <2>1. CASE j = n
    BY <1>1, <2>1
  <2>2. CASE j = i
    BY <1>0, <1>10, <2>2
  <2>3. CASE j \notin {i, n}
    <3>1. ledger[j]["task.md"] = <<"ledger", k>>
      BY <1>7, <2>3
    <3> QED BY <3>1 DEF MigrationInv, RenumberedBeyond
  <2> QED BY <2>1, <2>2, <2>3
<1>17. RenumberProgress'
  <2>1. Min(queue)' = i /\ next_available_id' = n
    BY DEF i, n
  <2> QED BY <1>1, <1>2, <1>3, <1>7, <1>10, <1>11, <2>1 DEF RenumberProgress
<1>18. MergeProgress'
  BY <1>0 DEF MergeProgress
<1>19. ActiveKnown'
  BY <1>2, <1>11 DEF MigrationInv, ActiveKnown, dirs
<1>20. InnerIds'
  <2>0. Min(queue)' = i /\ next_available_id' = n
    BY DEF i, n
  <2>1. ASSUME NEW j \in Ids, NEW k \in Found, ledger'[j]["task.md"] = <<"ledger", k>>,
               <<"ledger", k>> \notin stale
        PROVE  inner[<<"ledger", k>>] = j \/ (j = n /\ k = i)
    <3>1. j # i
      BY <1>0, <1>10, <2>1
    <3>2. CASE j = n
      BY <1>10, <2>1, <3>2
    <3>3. CASE j # n
      <4>1. ledger[j]["task.md"] = <<"ledger", k>>
        BY <1>7, <2>1, <3>1, <3>3
      <4> QED BY <2>1, <4>1 DEF MigrationInv, InnerIds
    <3> QED BY <3>2, <3>3
  <2>2. \A j \in Found : inner[<<"root", j>>] = j
    BY DEF MigrationInv, InnerIds
  <2> QED BY <2>0, <2>1, <2>2 DEF InnerIds
<1>21. Apart'
  <2>1. ASSUME NEW j \in Ids, j # i, j # n
        PROVE  (Clean(j) => Clean(j)') /\ (KeptItsId(j) => KeptItsId(j)')
    BY <1>7, <2>1 DEF Clean, KeptItsId
  <2>2. ASSUME NEW j \in Ids, NEW f \in FileNames, ledger'[j][f] = <<"root", j>>
        PROVE  Clean(j)' \/ KeptItsId(j)'
    <3>1. j # i /\ j # n
      BY <1>10, <2>2
    <3>2. ledger[j][f] = <<"root", j>>
      BY <1>7, <2>2, <3>1
    <3> QED BY <2>1, <3>1, <3>2 DEF MigrationInv, Apart
  <2>3. ASSUME NEW j \in dirs(root) \ queue PROVE Clean(j)' \/ KeptItsId(j)'
    <3>1. j \in Ids /\ j # i /\ j # n
      BY <1>2, <1>3 DEF dirs
    <3> QED BY <2>1, <3>1 DEF MigrationInv, Apart
  <2> QED BY <1>11, <2>2, <2>3 DEF Apart
<1> QED BY <1>12, <1>13, <1>14, <1>15, <1>16, <1>17, <1>18, <1>19, <1>20, <1>21 DEF MigrationInv

\* A conflict is passed by, or the newer ledger task moves to the next free
\* id, if that one is free in the ledger too.
LEMMA RenumberStep ==
    ASSUME MigrationInv, renumber
    PROVE  MigrationInv'
<1> USE IdFacts
<1> DEFINE i == Min(queue)
           n == next_available_id
<1>0. /\ pc = "renumber" /\ "task.md" \in FileNames /\ layout = 2
      /\ UNCHANGED <<root, inner, newer, active, counter, layout, next_available_id, crashes, stale>>
  BY DEF renumber, FileNames, MigrationInv, MergeProgress
<1>1. \A j \in Found : inner[<<"root", j>>] = j
  BY DEF MigrationInv, InnerIds
<1>2. \A j \in Ids, k \in Found : ledger[j]["task.md"] = <<"ledger", k>> =>
         <<"ledger", k>> \in stale \/ inner[<<"ledger", k>>] = j
  BY <1>0 DEF MigrationInv, InnerIds
<1>3. /\ queue \subseteq dirs(root) /\ n > 0 /\ n \in Nat
      /\ \A j \in dirs(root) : j < n
      /\ \A j \in queue : n <= MaxId + j
  BY <1>0 DEF MigrationInv, RenumberProgress, TypeOK
<1>4. dirs(root) \subseteq Found /\ dirs(root) \subseteq Ids /\ dirs(ledger) \subseteq Ids
  BY DirsAreIds DEF MigrationInv
<1>5. \A j \in dirs(root) \ queue : Clean(j) \/ KeptItsId(j)
  BY <1>0 DEF MigrationInv, Apart
<1>6. \A j \in Ids, f \in FileNames : ledger[j][f] = <<"root", j>> => Clean(j) \/ KeptItsId(j)
  BY DEF MigrationInv, Apart
<1> HIDE DEF n, i
<1>7. ASSUME UNCHANGED ledger, queue' \subseteq queue, pc' \in {"renumber", "merge", "idle"},
             pc' = "merge" => queue' = {},
             pc' # "idle" => \A j \in queue \ queue' : Clean(j) \/ KeptItsId(j)
      PROVE  MigrationInv'
  <2>1. /\ FilesAtHome' /\ OnePlace' /\ WithTaskFile' /\ RenumberedBeyond'
        /\ dirs(root)' = dirs(root) /\ dirs(ledger)' = dirs(ledger)
        /\ \A j : Clean(j)' = Clean(j) /\ KeptItsId(j)' = KeptItsId(j)
    BY <1>0, <1>7, FilesUntouched
  <2>2. TypeOK'
    BY <1>0, <1>7 DEF MigrationInv, TypeOK
  <2>3. RenumberProgress'
    BY <1>0, <1>3, <1>7, <2>1 DEF RenumberProgress, n
  <2>4. MergeProgress'
    BY <1>0, <1>7, <2>1 DEF MergeProgress
  <2>5. ActiveKnown'
    BY <1>0, <2>1 DEF MigrationInv, ActiveKnown
  <2>6. InnerIds'
    BY <1>0, <1>1, <1>2, <1>7 DEF InnerIds
  <2>7. Apart'
    <3>1. \A j \in Ids, f \in FileNames : ledger'[j][f] = <<"root", j>> => Clean(j)' \/ KeptItsId(j)'
      BY <1>6, <1>7, <2>1
    <3>2. pc' # "idle" => \A j \in dirs(root)' \ queue' : Clean(j)' \/ KeptItsId(j)'
      BY <1>5, <1>7, <2>1
    <3> QED BY <1>7, <3>1, <3>2 DEF Apart
  <2> QED BY <2>1, <2>2, <2>3, <2>4, <2>5, <2>6, <2>7 DEF MigrationInv
<1>8. CASE queue = {}
  <2>1. UNCHANGED <<ledger, queue>> /\ pc' = "merge"
    BY <1>8 DEF renumber
  <2> QED BY <1>7, <1>8, <2>1
<1>9. CASE queue # {}
  <2>1. i \in queue /\ i \in Found /\ i \in Ids /\ i \in dirs(root)
    BY <1>3, <1>9, QueueMin DEF i
  <2>2. CASE ~ledger_is_newer(i)
    <3>1. UNCHANGED <<ledger, pc>> /\ queue' = queue \ {i}
      BY <1>9, <2>2 DEF renumber, i
    <3>2. Clean(i) \/ KeptItsId(i)
      BY <2>1, <2>2, ConflictIsFound DEF ledger_is_newer, KeptItsId
    <3> QED BY <1>0, <1>7, <3>1, <3>2
  <2>3. CASE ledger_is_newer(i) /\ ledger[n] # NoDir
    <3>1. UNCHANGED <<ledger, queue>> /\ pc' = "idle"
      BY <1>9, <2>3 DEF renumber, i, n
    <3> QED BY <1>7, <3>1
  <2>4. CASE ledger_is_newer(i) /\ ledger[n] = NoDir
    <3>1. UNCHANGED queue /\ pc' = "rewrite" /\ ledger' = [ledger EXCEPT ![n] = ledger[i], ![i] = NoDir]
      BY <1>9, <2>4 DEF renumber, i, n
    <3> QED BY <1>0, <1>9, <2>4, <3>1, RenameStep DEF i, n
  <2> QED BY <2>2, <2>3, <2>4
<1> QED BY <1>8, <1>9

\* The records of the renamed task are rewritten, and the next conflict gets
\* the next id: there are enough, since conflicts are taken in ascending order.
LEMMA RewriteStep ==
    ASSUME MigrationInv, rewrite_task_refs
    PROVE  MigrationInv'
<1> USE IdFacts, TaskFacts
<1> DEFINE i == Min(queue)
           n == next_available_id
<1>0. /\ pc = "rewrite" /\ pc' = "renumber" /\ layout = 2
      /\ inner' = [inner EXCEPT ![<<"ledger", i>>] = n] /\ n \in Nat
      /\ next_available_id' = n + 1 /\ queue' = queue \ {i}
      /\ UNCHANGED <<root, ledger, newer, active, counter, layout, crashes, stale>>
  BY DEF rewrite_task_refs, MigrationInv, MergeProgress, TypeOK
<1>1. /\ queue \subseteq dirs(root) /\ queue # {} /\ n > 0 /\ n \in Ids
      /\ \A j \in dirs(root) : j < n
      /\ \A j \in queue : n <= MaxId + j
      /\ ledger[n]["task.md"] = <<"ledger", i>> /\ ledger[i] = NoDir
  BY <1>0 DEF MigrationInv, RenumberProgress
<1>2. i \in queue /\ i \in Found /\ \A j \in queue : i <= j
  BY <1>1, QueueMin
<1>3. /\ FilesAtHome' /\ OnePlace' /\ WithTaskFile' /\ RenumberedBeyond'
      /\ dirs(root)' = dirs(root) /\ dirs(ledger)' = dirs(ledger)
      /\ \A j : Clean(j)' = Clean(j) /\ KeptItsId(j)' = KeptItsId(j)
  BY <1>0, FilesUntouched
<1>4. inner \in [Tasks -> Nat] /\ queue \subseteq Found
  BY DEF MigrationInv, TypeOK
<1>5. InnerIds'
  <2>1. ASSUME NEW j \in Ids, NEW k \in Found, ledger[j]["task.md"] = <<"ledger", k>>,
               <<"ledger", k>> \notin stale
        PROVE  inner'[<<"ledger", k>>] = j
    <3>1. CASE k = i
      <4>1. j = n
        BY <1>1, <1>2, <2>1, <3>1 DEF MigrationInv, OnePlace
      <4> QED BY <1>0, <1>2, <1>4, <3>1, <4>1
    <3>2. CASE k # i
      <4>1. inner[<<"ledger", k>>] = j
        BY <2>1, <3>2 DEF MigrationInv, InnerIds
      <4> QED BY <1>0, <1>2, <1>4, <3>2, <4>1
    <3> QED BY <3>1, <3>2
  <2>2. ASSUME NEW j \in Found PROVE inner'[<<"root", j>>] = j
    <3>1. inner[<<"root", j>>] = j
      BY DEF MigrationInv, InnerIds
    <3> QED BY <1>0, <1>2, <1>4, <3>1
  <2> QED BY <1>0, <2>1, <2>2 DEF InnerIds
<1>6. Clean(i)
  BY <1>1, <1>2, DirFacts DEF MigrationInv, Clean
<1> HIDE DEF n, i
<1>7. TypeOK'
  <2>1. inner' \in [Tasks -> Nat]
    <3>1. <<"ledger", i>> \in Tasks
      BY <1>2
    <3> QED BY <1>0, <1>4, <3>1
  <2>2. queue' \subseteq Found
    BY <1>0, <1>4
  <2>3. next_available_id' \in Nat
    BY <1>0
  <2> QED BY <1>0, <2>1, <2>2, <2>3 DEF MigrationInv, TypeOK
<1>8. RenumberProgress'
  <2>1. ASSUME NEW j \in queue' PROVE next_available_id' <= MaxId + j
    <3>1. j \in queue /\ j # i /\ j \in 1..MaxId /\ i \in 1..MaxId /\ MaxId \in Nat
      BY <1>0, <1>2, <1>4
    <3>2. i < j /\ n <= MaxId + i
      BY <1>1, <1>2, <3>1
    <3> QED BY <1>0, <3>1, <3>2
  <2>2. ASSUME NEW j \in dirs(root) PROVE j < next_available_id'
    <3>1. j \in Nat /\ j < n
      BY <1>1 DEF dirs
    <3> QED BY <1>0, <3>1
  <2>3. next_available_id' > 0
    BY <1>0
  <2> QED BY <1>0, <1>1, <1>3, <2>1, <2>2, <2>3 DEF RenumberProgress
<1>9. MergeProgress'
  BY <1>0 DEF MergeProgress
<1>10. ActiveKnown'
  BY <1>0, <1>3 DEF MigrationInv, ActiveKnown
<1>11. Apart'
  <2>1. \A j \in Ids, f \in FileNames : ledger'[j][f] = <<"root", j>> => Clean(j)' \/ KeptItsId(j)'
    BY <1>0, <1>3 DEF MigrationInv, Apart
  <2>2. \A j \in dirs(root)' \ queue' : Clean(j)' \/ KeptItsId(j)'
    BY <1>0, <1>3, <1>6 DEF MigrationInv, Apart
  <2> QED BY <1>0, <2>1, <2>2 DEF Apart
<1> QED BY <1>3, <1>5, <1>7, <1>8, <1>9, <1>10, <1>11 DEF MigrationInv

\* One file of the root task of the least id is moved to the ledger.
LEMMA MoveStep ==
    ASSUME MigrationInv, pc = "merge", NEW i \in dirs(root), NEW f \in FileNames,
           root[i][f] # NoFile, ledger[i][f] = NoFile,
           ledger' = [ledger EXCEPT ![i][f] = root[i][f]],
           root' = [root EXCEPT ![i][f] = NoFile],
           UNCHANGED <<inner, newer, active, counter, layout, pc, queue, next_available_id, crashes, stale>>
    PROVE  MigrationInv'
<1> USE IdFacts, TaskFacts
<1>0. "task.md" \in FileNames /\ layout = 2 /\ i \in Found /\ i \in Ids
  BY DirsAreIds DEF FileNames, MigrationInv, MergeProgress
<1>1. root[i][f] = <<"root", i>>
  BY <1>0 DEF MigrationInv, FilesAtHome
<1>2. root \in [Ids -> Dir] /\ ledger \in [Ids -> Dir]
  BY DEF MigrationInv, TypeOK
<1>3. root' \in [Ids -> Dir] /\ ledger' \in [Ids -> Dir]
  BY <1>0, <1>1, <1>2 DEF Dir
<1>4. /\ root'[i][f] = NoFile /\ ledger'[i][f] = <<"root", i>>
      /\ \A g \in FileNames \ {f} : root'[i][g] = root[i][g] /\ ledger'[i][g] = ledger[i][g]
      /\ \A j \in Ids \ {i} : root'[j] = root[j] /\ ledger'[j] = ledger[j]
  BY <1>0, <1>1, <1>2 DEF Dir
<1>5. /\ \A j \in Ids, g \in FileNames : root'[j][g] = root[j][g] \/ (j = i /\ g = f)
      /\ \A j \in Ids, g \in FileNames : ledger'[j][g] = ledger[j][g] \/ (j = i /\ g = f)
  BY <1>4
<1>6. TypeOK'
  BY <1>3 DEF MigrationInv, TypeOK
<1>7. dirs(root)' \subseteq dirs(root) /\ dirs(ledger) \subseteq dirs(ledger)' /\ i \in dirs(ledger)'
  <2>1. \A j \in Ids : j \in dirs(root) <=> \E g \in FileNames : root[j][g] # NoFile
    BY DirFacts DEF MigrationInv
  <2>2. \A j \in Ids : j \in dirs(ledger) <=> \E g \in FileNames : ledger[j][g] # NoFile
    BY DirFacts DEF MigrationInv
  <2>3. \A j \in Ids : j \in dirs(root)' => \E g \in FileNames : root'[j][g] # NoFile
    <3>1. NoDir = [g \in FileNames |-> NoFile]
      BY RangeOfFiles DEF NoDir
    <3>2. ASSUME NEW j \in Ids, root'[j] # NoDir PROVE \E g \in FileNames : root'[j][g] # NoFile
      <4>1. root'[j] \in [FileNames -> Tasks \cup {NoFile}]
        BY <1>3 DEF Dir
      <4> QED BY <3>1, <3>2, <4>1
    <3> QED BY <3>2 DEF dirs
  <2>4. \A j \in Ids : (\E g \in FileNames : ledger'[j][g] # NoFile) => j \in dirs(ledger)'
    <3>1. NoDir = [g \in FileNames |-> NoFile]
      BY RangeOfFiles DEF NoDir
    <3> QED BY <3>1 DEF dirs
  <2>5. dirs(root)' \subseteq Ids /\ dirs(ledger) \subseteq Ids
    BY DEF dirs
  <2>6. ASSUME NEW j \in dirs(root)' PROVE j \in dirs(root)
    <3>1. j \in Ids
      BY <2>5
    <3>2. PICK g \in FileNames : root'[j][g] # NoFile
      BY <2>3, <3>1
    <3>3. root[j][g] # NoFile
      BY <1>5, <3>1, <3>2
    <3> QED BY <2>1, <3>1, <3>3
  <2>7. ASSUME NEW j \in dirs(ledger) PROVE j \in dirs(ledger)'
    <3>1. j \in Ids
      BY <2>5
    <3>2. PICK g \in FileNames : ledger[j][g] # NoFile
      BY <2>2, <3>1
    <3>3. ledger'[j][g] # NoFile
      BY <1>5, <3>1, <3>2
    <3> QED BY <2>4, <3>1, <3>3
  <2>8. i \in dirs(ledger)'
    BY <1>0, <1>4, <2>4
  <2> QED BY <2>6, <2>7, <2>8
<1>8. \A j \in Ids : \A k : ledger'[j]["task.md"] = <<"ledger", k>> <=> ledger[j]["task.md"] = <<"ledger", k>>
  <2> SUFFICES ASSUME NEW j \in Ids, NEW k
               PROVE  ledger'[j]["task.md"] = <<"ledger", k>> <=> ledger[j]["task.md"] = <<"ledger", k>>
    OBVIOUS
  <2>1. CASE j = i /\ f = "task.md"
    <3>1. ledger'[j]["task.md"] = <<"root", i>> /\ ledger[j]["task.md"] = NoFile
      BY <1>4, <2>1
    <3> QED BY <3>1
  <2>2. CASE ~(j = i /\ f = "task.md")
    BY <1>0, <1>5, <2>2
  <2> QED BY <2>1, <2>2
<1>9. FilesAtHome'
  <2>1. ASSUME NEW j \in Ids, NEW g \in FileNames
        PROVE  /\ root'[j][g] = NoFile \/ (j \in Found /\ root'[j][g] = <<"root", j>>)
               /\ \/ ledger'[j][g] = NoFile
                  \/ j \in Found /\ ledger'[j][g] = <<"root", j>>
                  \/ \E k \in Found : ledger'[j][g] = <<"ledger", k>> /\ ledger'[j]["task.md"] = <<"ledger", k>>
    <3>1. CASE j = i /\ g = f
      BY <1>0, <1>4, <3>1
    <3>2. CASE ~(j = i /\ g = f)
      <4>1. root'[j][g] = root[j][g] /\ ledger'[j][g] = ledger[j][g]
        BY <1>5, <3>2
      <4> QED BY <1>8, <4>1 DEF MigrationInv, FilesAtHome
    <3> QED BY <3>1, <3>2
  <2> QED BY <2>1 DEF FilesAtHome
<1>10. OnePlace'
  <2>1. ASSUME NEW j \in Ids, NEW g \in FileNames, root'[j][g] # NoFile
        PROVE  ledger'[j][g] # <<"root", j>>
    <3>1. ~(j = i /\ g = f)
      BY <1>4, <2>1
    <3>2. root'[j][g] = root[j][g] /\ ledger'[j][g] = ledger[j][g]
      BY <1>5, <3>1
    <3> QED BY <2>1, <3>2 DEF MigrationInv, OnePlace
  <2>2. ASSUME NEW j \in Ids, NEW l \in Ids, NEW k \in Found,
               ledger'[j]["task.md"] = <<"ledger", k>>, ledger'[l]["task.md"] = <<"ledger", k>>
        PROVE  j = l
    <3>1. ledger[j]["task.md"] = <<"ledger", k>> /\ ledger[l]["task.md"] = <<"ledger", k>>
      BY <1>8, <2>2
    <3> QED BY <3>1 DEF MigrationInv, OnePlace
  <2> QED BY <2>1, <2>2 DEF OnePlace
<1>11. WithTaskFile'
  <2>1. ASSUME NEW j \in Ids, RootTask(j) PROVE RootTask(j)'
    <3>1. CASE j = i /\ f = "task.md"
      BY <1>4, <3>1 DEF RootTask
    <3>2. CASE ~(j = i /\ f = "task.md")
      BY <1>0, <1>5, <2>1, <3>2 DEF RootTask
    <3> QED BY <3>1, <3>2
  <2>2. ASSUME NEW j \in Ids, NEW g \in FileNames,
               root'[j][g] # NoFile \/ ledger'[j][g] = <<"root", j>>
        PROVE  RootTask(j)
    <3>1. CASE j = i /\ g = f
      BY <3>1 DEF MigrationInv, WithTaskFile
    <3>2. CASE ~(j = i /\ g = f)
      BY <1>5, <2>2, <3>2 DEF MigrationInv, WithTaskFile
    <3> QED BY <3>1, <3>2
  <2> QED BY <2>1, <2>2 DEF WithTaskFile
<1>12. RenumberedBeyond'
  BY <1>7, <1>8 DEF MigrationInv, RenumberedBeyond
<1>13. RenumberProgress'
  BY DEF RenumberProgress
<1>14. MergeProgress'
  BY <1>0 DEF MergeProgress
<1>15. ActiveKnown'
  <2>1. ASSUME NEW j \in dirs(root) PROVE j \in dirs(root)' \cup dirs(ledger)'
    <3>1. CASE j = i
      BY <1>7, <3>1
    <3>2. CASE j # i
      BY <1>4, <3>2 DEF dirs
    <3> QED BY <3>1, <3>2
  <2> QED BY <1>7, <2>1 DEF MigrationInv, ActiveKnown
<1>16. InnerIds'
  BY <1>8 DEF MigrationInv, InnerIds
<1>17. Apart'
  <2>1. ASSUME NEW j \in Ids, Clean(j) \/ KeptItsId(j) PROVE Clean(j)' \/ KeptItsId(j)'
    <3>1. CASE Clean(j)
      <4>1. ASSUME NEW g \in FileNames PROVE ledger'[j][g] \in {NoFile, <<"root", j>>}
        BY <1>4, <1>5, <3>1 DEF Clean
      <4> QED BY <4>1 DEF Clean
    <3>2. CASE KeptItsId(j)
      BY <1>8, <3>2 DEF KeptItsId
    <3> QED BY <2>1, <3>1, <3>2
  <2>2. \A j \in dirs(root) : Clean(j) \/ KeptItsId(j)
    BY DEF MigrationInv, Apart
  <2>3. dirs(root) \subseteq Ids
    BY DEF dirs
  <2>4. \A j \in dirs(root)' : Clean(j)' \/ KeptItsId(j)'
    BY <1>7, <2>1, <2>2, <2>3
  <2>5. ASSUME NEW j \in Ids, NEW g \in FileNames, ledger'[j][g] = <<"root", j>>
        PROVE  Clean(j)' \/ KeptItsId(j)'
    <3>1. CASE j = i
      BY <1>0, <2>1, <2>2, <3>1
    <3>2. CASE j # i
      <4>1. ledger[j][g] = <<"root", j>>
        BY <1>4, <2>5, <3>2
      <4> QED BY <2>1, <4>1 DEF MigrationInv, Apart
    <3> QED BY <3>1, <3>2
  <2> QED BY <2>4, <2>5 DEF Apart
<1> QED BY <1>6, <1>9, <1>10, <1>11, <1>12, <1>13, <1>14, <1>15, <1>16, <1>17 DEF MigrationInv

\* The merge moves a file, stops at one that is in the way, or is done.
LEMMA MergeStep ==
    ASSUME MigrationInv, merge_tree_without_overwrite
    PROVE  MigrationInv'
<1>0. pc = "merge" /\ layout = 2
      /\ UNCHANGED <<inner, newer, active, counter, layout, queue, next_available_id, crashes, stale>>
  BY DEF merge_tree_without_overwrite, MigrationInv, MergeProgress
<1>1. ASSUME UNCHANGED <<root, ledger>>, pc' = "idle" \/ (pc' = "events" /\ dirs(root) = {})
      PROVE  MigrationInv'
  <2>1. /\ FilesAtHome' /\ OnePlace' /\ WithTaskFile' /\ RenumberedBeyond'
        /\ dirs(root)' = dirs(root) /\ dirs(ledger)' = dirs(ledger)
        /\ \A i : Clean(i)' = Clean(i) /\ KeptItsId(i)' = KeptItsId(i)
    BY <1>0, <1>1, FilesUntouched
  <2>2. TypeOK'
    BY <1>0, <1>1 DEF MigrationInv, TypeOK
  <2>3. RenumberProgress' /\ MergeProgress'
    BY <1>0, <1>1, <2>1 DEF RenumberProgress, MergeProgress
  <2>4. ActiveKnown'
    BY <1>0, <2>1 DEF MigrationInv, ActiveKnown
  <2>5. InnerIds'
    BY <1>0, <1>1 DEF MigrationInv, InnerIds
  <2>6. Apart'
    BY <1>1, <2>1 DEF MigrationInv, Apart
  <2> QED BY <2>1, <2>2, <2>3, <2>4, <2>5, <2>6 DEF MigrationInv
<1>2. CASE dirs(root) = {}
  <2>1. UNCHANGED <<root, ledger>> /\ pc' = "events"
    BY <1>2 DEF merge_tree_without_overwrite
  <2> QED BY <1>1, <1>2, <2>1
<1>3. CASE dirs(root) # {}
  <2> DEFINE i == Min(dirs(root))
             f == Files[NextFile(i)]
  <2>1. i \in dirs(root)
    BY <1>3, MinElement, IdFacts, DirsAreIds DEF MigrationInv
  <2>2. f \in FileNames /\ root[i][f] # NoFile
    BY <2>1, NextFileThere DEF MigrationInv
  <2>3. IF ledger[i][f] \notin {NoFile, root[i][f]} THEN pc' = "idle" /\ UNCHANGED <<root, ledger>>
        ELSE /\ ledger' = [ledger EXCEPT ![i][f] = root[i][f]]
             /\ root' = [root EXCEPT ![i][f] = NoFile]
             /\ UNCHANGED pc
    BY <1>3 DEF merge_tree_without_overwrite
  <2> HIDE DEF i, f
  <2>4. CASE ledger[i][f] # NoFile
    <3>1. root[i][f] = <<"root", i>> /\ ledger[i][f] # <<"root", i>>
      BY <2>1, <2>2, DirsAreIds DEF MigrationInv, FilesAtHome, OnePlace
    <3> QED BY <1>1, <2>3, <2>4, <3>1
  <2>5. CASE ledger[i][f] = NoFile
    BY <1>0, <2>1, <2>2, <2>3, <2>5, MoveStep
  <2> QED BY <2>4, <2>5
<1> QED BY <1>2, <1>3

\* The other steps, and death, leave the files of the tasks alone.
LEMMA LateStep ==
    ASSUME MigrationInv,
           \/ merge_ndjson_files \/ (\E name \in DocumentNames : merge_document(name))
           \/ merge_active_task_files \/ repair_counter \/ write_storage_meta \/ Crash
    PROVE  MigrationInv'
<1> USE IdFacts
<1>0. UNCHANGED <<root, ledger, inner, newer, queue, next_available_id>>
  BY DEF merge_ndjson_files, merge_document, merge_active_task_files, repair_counter,
         write_storage_meta, Crash
<1>1. /\ FilesAtHome' /\ OnePlace' /\ WithTaskFile' /\ RenumberedBeyond'
      /\ dirs(root)' = dirs(root) /\ dirs(ledger)' = dirs(ledger)
      /\ \A i : Clean(i)' = Clean(i) /\ KeptItsId(i)' = KeptItsId(i)
  BY <1>0, FilesUntouched
<1>2. pc' \in {"intros", "releases", "active", "counter", "meta", "idle"}
  BY DEF merge_ndjson_files, merge_document, merge_active_task_files, repair_counter,
         write_storage_meta, Crash
<1>3. RenumberProgress' /\ Apart'
  BY <1>0, <1>1, <1>2 DEF MigrationInv, RenumberProgress, Apart
<1>4. /\ stale \subseteq stale'
      /\ pc # "rewrite" \/ <<"ledger", Min(queue)>> \in stale'
  BY DEF merge_ndjson_files, merge_document, DocumentNames, merge_active_task_files,
         repair_counter, write_storage_meta, Crash
<1>6. InnerIds'
  <2>1. \A i \in Found : inner[<<"root", i>>] = i
    BY DEF MigrationInv, InnerIds
  <2>2. \A j \in Ids, k \in Found : ledger[j]["task.md"] = <<"ledger", k>> =>
           <<"ledger", k>> \in stale' \/ inner[<<"ledger", k>>] = j
    BY <1>4 DEF MigrationInv, InnerIds
  <2> QED BY <1>0, <2>1, <2>2 DEF InnerIds
<1>11. CASE merge_ndjson_files \/ \E name \in DocumentNames : merge_document(name)
  <2>1. /\ pc \in {"events", "intros", "releases"} /\ layout = 2 /\ layout' = 2
        /\ pc' \in {"intros", "releases", "active", "idle"}
        /\ UNCHANGED <<active, counter, crashes>> /\ dirs(root) = {}
    BY <1>11 DEF merge_ndjson_files, merge_document, DocumentNames, MigrationInv, MergeProgress
  <2>2. TypeOK'
    BY <1>0, <2>1 DEF MigrationInv, TypeOK
  <2>3. MergeProgress'
    BY <1>1, <2>1 DEF MergeProgress
  <2>4. ActiveKnown'
    BY <1>1, <2>1 DEF MigrationInv, ActiveKnown
  <2> QED BY <1>1, <1>3, <1>6, <2>2, <2>3, <2>4 DEF MigrationInv
<1>7. CASE merge_active_task_files
  <2>1. /\ pc = "active" /\ layout = 2 /\ layout' = 2
        /\ UNCHANGED <<counter, crashes>> /\ dirs(root) = {}
        /\ pc' = "counter" \/ (pc' = "idle" /\ UNCHANGED active)
    BY <1>7 DEF merge_active_task_files, MigrationInv, MergeProgress
  <2>2. /\ active \in [root: [id: Nat, at: Nat], ledger: [id: Nat, at: Nat]]
        /\ NoActive \in [id: Nat, at: Nat]
    BY DEF MigrationInv, TypeOK, NoActive
  <2>3. \/ pc' = "idle" /\ UNCHANGED active
        \/ active' = [root |-> NoActive, ledger |-> active.root]
        \/ active' = [root |-> NoActive, ledger |-> active.ledger]
    BY <1>7 DEF merge_active_task_files
  <2>4. /\ active' \in [root: [id: Nat, at: Nat], ledger: [id: Nat, at: Nat]]
        /\ active'.root = NoActive \/ (pc' = "idle" /\ UNCHANGED active)
        /\ active'.root \in {NoActive, active.root} /\ active'.ledger \in {active.root, active.ledger}
    BY <2>2, <2>3
  <2>5. TypeOK'
    BY <1>0, <2>1, <2>4 DEF MigrationInv, TypeOK
  <2>6. MergeProgress'
    BY <1>1, <2>1, <2>4 DEF MergeProgress
  <2>7. ActiveKnown'
    BY <1>1, <2>4 DEF MigrationInv, ActiveKnown, NoActive
  <2> QED BY <1>1, <1>3, <1>6, <2>5, <2>6, <2>7 DEF MigrationInv
<1>8. CASE repair_counter
  <2> DEFINE m == Max(dirs(ledger) \cup {0})
  <2>1. /\ pc = "counter" /\ pc' = "meta" /\ layout = 2 /\ layout' = 2
        /\ UNCHANGED <<active, crashes>> /\ dirs(root) = {} /\ active.root = NoActive
        /\ counter' = IF counter <= m THEN m + 1 ELSE counter
    BY <1>8 DEF repair_counter, MigrationInv, MergeProgress, max_numeric_task_number
  <2>2. m \in Nat /\ \A i \in dirs(ledger) : i <= m
    <3>1. dirs(ledger) \subseteq 1..2 * MaxId /\ 2 * MaxId \in Nat
      <4>1. dirs(ledger) \subseteq Ids
        BY DEF dirs
      <4> QED BY <4>1 DEF Ids
    <3>2. m \in 0..2 * MaxId
      BY <3>1, MaxNumber
    <3> QED BY <3>1, <3>2, MaxNumber
  <2> HIDE DEF m
  <2>3. counter \in Nat /\ dirs(ledger) \subseteq Nat
    BY DEF MigrationInv, TypeOK, dirs
  <2>4. counter' \in Nat /\ \A i \in dirs(ledger) : i < counter'
    BY <2>1, <2>2, <2>3
  <2>5. TypeOK'
    BY <1>0, <2>1, <2>4 DEF MigrationInv, TypeOK
  <2>6. MergeProgress'
    BY <1>1, <2>1, <2>4 DEF MergeProgress
  <2>7. ActiveKnown'
    BY <1>1, <2>1 DEF MigrationInv, ActiveKnown
  <2> QED BY <1>1, <1>3, <1>6, <2>5, <2>6, <2>7 DEF MigrationInv
<1>9. CASE write_storage_meta
  <2>1. /\ pc = "meta" /\ pc' = "idle" /\ layout' = 3
        /\ UNCHANGED <<active, counter, crashes>> /\ dirs(root) = {} /\ active.root = NoActive
        /\ \A i \in dirs(ledger) : i < counter
    BY <1>9 DEF write_storage_meta, MigrationInv, MergeProgress, TASKLEDGER_STORAGE_LAYOUT_VERSION
  <2>2. TypeOK'
    BY <1>0, <2>1 DEF MigrationInv, TypeOK
  <2>3. MergeProgress'
    BY <1>1, <2>1 DEF MergeProgress
  <2>4. ActiveKnown'
    BY <1>1, <2>1 DEF MigrationInv, ActiveKnown
  <2> QED BY <1>1, <1>3, <1>6, <2>2, <2>3, <2>4 DEF MigrationInv
<1>10. CASE Crash
  <2>1. /\ pc # "idle" /\ pc' = "idle" /\ layout = 2 /\ layout' = 2 /\ crashes' = crashes + 1
        /\ UNCHANGED counter
        /\ \E state \in {active.ledger, CutActive, active.root} :
              active' = [active EXCEPT !.ledger = state]
    BY <1>10 DEF Crash, ActiveCutShort, MigrationInv, MergeProgress
  <2>5. /\ active \in [root: [id: Nat, at: Nat], ledger: [id: Nat, at: Nat]]
        /\ CutActive \in [id: Nat, at: Nat] /\ CutActive.id = 0
    BY DEF MigrationInv, TypeOK, CutActive
  <2>6. /\ active' \in [root: [id: Nat, at: Nat], ledger: [id: Nat, at: Nat]]
        /\ active'.root = active.root /\ active'.ledger \in {active.ledger, CutActive, active.root}
    BY <2>1, <2>5
  <2>2. TypeOK'
    BY <1>0, <2>1, <2>6 DEF MigrationInv, TypeOK
  <2>3. MergeProgress'
    BY <2>1 DEF MergeProgress
  <2>4. ActiveKnown'
    BY <1>1, <2>5, <2>6 DEF MigrationInv, ActiveKnown
  <2> QED BY <1>1, <1>3, <1>6, <2>2, <2>3, <2>4 DEF MigrationInv
<1> QED BY <1>7, <1>8, <1>9, <1>10, <1>11

\* The logs and documents: what was found, and the lines and texts merged.
LEMMA LogsInit == Init => LogsInv
<1> SUFFICES ASSUME Init PROVE LogsInv
  OBVIOUS
<1>1. PICK shared \in Shared :
         /\ layout = 2 \/ (shared.log.root = NoLog
                           /\ \A name \in DocumentNames : shared.documents.root[name] = "none")
         /\ log = shared.log /\ documents = shared.documents
  BY DEF Init
<1>2. shared \in [log: [root: {NoLog, {"root"}}, ledger: {NoLog, {"ledger"}}], documents: Documents]
  BY MigrationAssumption
<1>3. log \in [root: {NoLog, {"root"}}, ledger: {NoLog, {"ledger"}}] /\ documents \in Documents
  BY <1>1, <1>2
<1>4. LogsTyped
  BY <1>3 DEF LogsTyped, Lines
<1>5. pc = "idle" /\ layout \in 1..4
  BY DEF Init
<1>6. layout > 2 => /\ log.root = NoLog
                    /\ documents.root["intros"] = "none" /\ documents.root["releases"] = "none"
  BY <1>1, <1>5 DEF DocumentNames
<1> QED BY <1>4, <1>5, <1>6 DEF LogsInv, LogsProgress

\* What one step does with the logs: it takes the root's lines over, or dies
\* while the ledger's log is rewritten.
LEMMA LogStep ==
    ASSUME MigrationInv, LogsInv, Next
    PROVE  \/ UNCHANGED log
           \/ /\ merge_ndjson_files /\ log.root # NoLog
              /\ \/ log' = [root |-> NoLog, ledger |-> log.root] /\ log.ledger = NoLog
                 \/ log' = [log EXCEPT !.ledger = @ \cup log.root] /\ log.ledger # NoLog
           \/ /\ Crash /\ pc = "events" /\ log.root # NoLog /\ log.ledger # NoLog
              /\ \E lines \in SUBSET Lines : log' = [log EXCEPT !.ledger = lines]
<1>0. /\ log \in [root: {NoLog, {"root"}}, ledger: {NoLog} \cup SUBSET Lines]
      /\ {"root"} \subseteq Lines
  BY DEF LogsInv, LogsTyped, Lines
<1>1. CASE merge_ndjson_files
  BY <1>1 DEF merge_ndjson_files
<1>2. CASE Crash
  <2>1. PICK lines \in (IF pc = "events" THEN LogsCutShort ELSE {log.ledger}) :
           log' = [log EXCEPT !.ledger = lines]
    BY <1>2 DEF Crash
  <2>2. CASE lines = log.ledger
    BY <1>0, <2>1, <2>2
  <2>3. CASE lines # log.ledger
    <3>1. pc = "events" /\ log.root # NoLog /\ log.ledger # NoLog
          /\ lines \in {{}, log.ledger \ {"root"}, log.ledger \cup log.root}
      BY <2>1, <2>3 DEF LogsCutShort
    <3>2. log.root \subseteq Lines /\ log.ledger \subseteq Lines
      BY <1>0, <3>1
    <3>3. lines \in SUBSET Lines
      BY <3>1, <3>2
    <3> QED BY <1>2, <2>1, <3>1, <3>3
  <2> QED BY <2>2, <2>3
<1>3. CASE ~merge_ndjson_files /\ ~Crash
  BY <1>3 DEF Next, Apply, migrate_apply, renumber, rewrite_task_refs, merge_tree_without_overwrite,
              merge_document, merge_active_task_files, repair_counter, write_storage_meta, files
<1> QED BY <1>1, <1>2, <1>3

\* What one step does with introductions and releases.
LEMMA DocumentStep ==
    ASSUME MigrationInv, LogsInv, Next
    PROVE  \/ UNCHANGED documents
           \/ \E name \in DocumentNames :
                 /\ documents.root[name] # "none" /\ documents' \in Documents
                 /\ documents.ledger[name] \in {"none", documents.root[name]}
                 /\ documents'.root[name] = "none" /\ documents'.ledger[name] = documents.root[name]
                 /\ \A other \in DocumentNames \ {name} :
                       /\ documents'.root[other] = documents.root[other]
                       /\ documents'.ledger[other] = documents.ledger[other]
<1>0. documents \in [root: [DocumentNames -> Texts], ledger: [DocumentNames -> Texts]]
      /\ "none" \in Texts
  BY DEF LogsInv, LogsTyped, Documents, Texts
<1>1. CASE \E name \in DocumentNames : merge_document(name)
  <2>1. PICK name \in DocumentNames : merge_document(name)
    BY <1>1
  <2>2. CASE UNCHANGED documents
    BY <2>2
  <2>3. CASE ~UNCHANGED documents
    <3>1. /\ documents.root[name] # "none"
          /\ documents.ledger[name] \in {"none", documents.root[name]}
          /\ documents' = [documents EXCEPT !.root[name] = "none", !.ledger[name] = documents.root[name]]
      BY <2>1, <2>3 DEF merge_document
    <3> DEFINE r == [documents.root EXCEPT ![name] = "none"]
               l == [documents.ledger EXCEPT ![name] = documents.root[name]]
    <3>2. /\ documents.root \in [DocumentNames -> Texts] /\ documents.ledger \in [DocumentNames -> Texts]
          /\ documents = [root |-> documents.root, ledger |-> documents.ledger]
      BY <1>0
    <3>3. documents' = [root |-> r, ledger |-> l]
      BY <3>1, <3>2
    <3>4. /\ r \in [DocumentNames -> Texts] /\ l \in [DocumentNames -> Texts]
          /\ r[name] = "none" /\ l[name] = documents.root[name]
          /\ \A other \in DocumentNames \ {name} :
                r[other] = documents.root[other] /\ l[other] = documents.ledger[other]
      BY <1>0, <3>2
    <3> HIDE DEF r, l
    <3>5. documents' \in Documents /\ documents'.root = r /\ documents'.ledger = l
      BY <3>3, <3>4 DEF Documents
    <3> QED BY <3>1, <3>4, <3>5
  <2> QED BY <2>2, <2>3
<1>2. CASE ~\E name \in DocumentNames : merge_document(name)
  BY <1>2 DEF Next, Apply, migrate_apply, renumber, rewrite_task_refs, merge_tree_without_overwrite,
              merge_ndjson_files, merge_active_task_files, repair_counter, write_storage_meta, files, Crash
<1> QED BY <1>1, <1>2

\* The order of the steps, as far as logs and documents go.
LEMMA Order ==
    ASSUME MigrationInv, Next
    PROVE  /\ pc' = "intros" => merge_ndjson_files
           /\ pc' = "releases" => merge_document("intros")
           /\ pc' = "active" => merge_document("releases")
           /\ pc' = "counter" => pc = "active"
           /\ pc' = "meta" => pc = "counter"
           /\ layout' > 2 => pc = "meta" \/ (layout > 2 /\ pc = "idle" /\ pc' = "idle")
<1>1. pc # "idle" => layout = 2
  BY DEF MigrationInv, MergeProgress
<1>2. migrate_apply => layout = 2
  BY DEF migrate_apply, required_layout_migrations, TASKLEDGER_STORAGE_LAYOUT_VERSION,
         MigrationInv, TypeOK
<1>3. CASE migrate_apply
  BY <1>2, <1>3 DEF migrate_apply
<1>4. CASE renumber \/ rewrite_task_refs \/ merge_tree_without_overwrite
  BY <1>1, <1>4 DEF renumber, rewrite_task_refs, merge_tree_without_overwrite, MigrationInv, TypeOK
<1>5. CASE merge_ndjson_files \/ merge_active_task_files \/ repair_counter \/ Crash
  BY <1>1, <1>5 DEF merge_ndjson_files, merge_active_task_files, repair_counter, Crash
<1>6. CASE write_storage_meta
  BY <1>6 DEF write_storage_meta
<1>7. CASE \E name \in DocumentNames : merge_document(name)
  <2>1. PICK name \in {"intros", "releases"} : merge_document(name)
    BY <1>7 DEF DocumentNames
  <2>2. /\ pc = name /\ layout' = layout
        /\ pc' \in {"idle", IF name = "intros" THEN "releases" ELSE "active"}
    BY <2>1 DEF merge_document
  <2> QED BY <1>1, <2>1, <2>2
<1> QED BY <1>3, <1>4, <1>5, <1>6, <1>7 DEF Next, Apply

\* The logs and documents that are behind the command stay so.
LEMMA LogsStep ==
    ASSUME MigrationInv, LogsInv, Next
    PROVE  LogsInv'
<1>0. /\ log \in [root: {NoLog, {"root"}}, ledger: {NoLog} \cup SUBSET Lines]
      /\ documents \in [root: [DocumentNames -> Texts], ledger: [DocumentNames -> Texts]]
      /\ {"root"} \subseteq Lines /\ "none" \in Texts /\ {"intros", "releases"} = DocumentNames
  BY DEF LogsInv, LogsTyped, Lines, Documents, Texts, DocumentNames
<1> DEFINE Merged == log.root = NoLog \/ log.root \subseteq log.ledger
<1>1. log' \in [root: {NoLog, {"root"}}, ledger: {NoLog} \cup SUBSET Lines]
  <2>1. CASE UNCHANGED log
    BY <1>0, <2>1
  <2>2. CASE log' = [root |-> NoLog, ledger |-> log.root] /\ log.root # NoLog
    BY <1>0, <2>2
  <2>3. CASE log' = [log EXCEPT !.ledger = @ \cup log.root] /\ log.root # NoLog /\ log.ledger # NoLog
    <3>1. log.ledger \cup log.root \in SUBSET Lines
      BY <1>0, <2>3
    <3> QED BY <1>0, <2>3, <3>1
  <2>4. CASE \E lines \in SUBSET Lines : log' = [log EXCEPT !.ledger = lines]
    BY <1>0, <2>4
  <2> QED BY <2>1, <2>2, <2>3, <2>4, LogStep
<1>2. /\ Merged => Merged' \/ Crash
      /\ merge_ndjson_files => Merged'
  <2>0. merge_ndjson_files => ~Crash /\ (log.root = NoLog => UNCHANGED log)
    BY DEF merge_ndjson_files, Crash, MigrationInv, TypeOK
  <2>1. CASE UNCHANGED log
    <3>1. merge_ndjson_files /\ log.root # NoLog /\ log.ledger = NoLog => FALSE
      BY <2>1 DEF merge_ndjson_files
    <3>2. merge_ndjson_files /\ log.root # NoLog => log.root \subseteq log.ledger
      <4> SUFFICES ASSUME merge_ndjson_files, log.root # NoLog PROVE log.root \subseteq log.ledger
        OBVIOUS
      <4>1. log' = [log EXCEPT !.ledger = @ \cup log.root]
        BY <3>1 DEF merge_ndjson_files
      <4>2. log'.ledger = log.ledger \cup log.root
        BY <1>0, <4>1
      <4> QED BY <2>1, <4>2
    <3> QED BY <2>1, <3>2
  <2>2. CASE log' = [root |-> NoLog, ledger |-> log.root]
    BY <2>2
  <2>3. CASE log' = [log EXCEPT !.ledger = @ \cup log.root]
    <3>1. log'.root = log.root /\ log'.ledger = log.ledger \cup log.root
      BY <1>0, <2>3
    <3> QED BY <3>1
  <2>4. CASE Crash
    BY <2>0, <2>4
  <2> QED BY <2>1, <2>2, <2>3, <2>4, LogStep
<1> HIDE DEF Merged
<1>3. documents' \in Documents
  BY DocumentStep DEF LogsInv, LogsTyped
<1>4. \A name \in DocumentNames :
         /\ documents.root[name] = "none" => documents'.root[name] = "none"
         /\ merge_document(name) /\ pc' # "idle" => documents'.root[name] = "none"
  <2> SUFFICES ASSUME NEW name \in DocumentNames
               PROVE  /\ documents.root[name] = "none" => documents'.root[name] = "none"
                      /\ merge_document(name) /\ pc' # "idle" => documents'.root[name] = "none"
    OBVIOUS
  <2>1. documents.root[name] = "none" => documents'.root[name] = "none"
    BY DocumentStep
  <2>2. ASSUME merge_document(name), pc' # "idle", documents.root[name] # "none"
        PROVE  documents'.root[name] = "none"
    <3>1. documents' = [documents EXCEPT !.root[name] = "none", !.ledger[name] = documents.root[name]]
      BY <2>2 DEF merge_document
    <3>2. documents'.root = [documents.root EXCEPT ![name] = "none"]
      BY <1>0, <3>1
    <3>3. documents.root \in [DocumentNames -> Texts]
      BY <1>0
    <3> QED BY <3>2, <3>3
  <2> QED BY <2>1, <2>2
<1>5. LogsTyped'
  BY <1>1, <1>3 DEF LogsTyped
<1>6. Crash => pc' = "idle" /\ layout' = 2
  BY DEF Crash, MigrationInv, MergeProgress
<1>7. /\ pc \in {"intros", "releases", "active", "counter", "meta"} \/ layout > 2 => Merged
      /\ pc \in {"releases", "active", "counter", "meta"} \/ layout > 2 => documents.root["intros"] = "none"
      /\ pc \in {"active", "counter", "meta"} \/ layout > 2 => documents.root["releases"] = "none"
  BY DEF LogsInv, LogsProgress, Merged
<1>8. /\ pc' = "releases" => pc = "intros"
      /\ pc' = "active" => pc = "releases"
  BY Order DEF merge_document
<1>9. pc' \in {"intros", "releases", "active", "counter", "meta"} \/ layout' > 2 => Merged'
  BY <1>2, <1>6, <1>7, <1>8, Order
<1>10. pc' \in {"releases", "active", "counter", "meta"} \/ layout' > 2 => documents'.root["intros"] = "none"
  BY <1>0, <1>4, <1>7, <1>8, Order
<1>11. pc' \in {"active", "counter", "meta"} \/ layout' > 2 => documents'.root["releases"] = "none"
  BY <1>0, <1>4, <1>7, <1>8, Order
<1>12. LogsProgress'
  BY <1>9, <1>10, <1>11 DEF LogsProgress, Merged
<1> QED BY <1>5, <1>12 DEF LogsInv

\* The invariant is inductive.
LEMMA MigrationInvariance == Spec => [](MigrationInv /\ LogsInv)
<1>1. MigrationInv /\ [Next]_vars => MigrationInv'
  <2> SUFFICES ASSUME MigrationInv, [Next]_vars PROVE MigrationInv'
    OBVIOUS
  <2>1. CASE UNCHANGED vars
    <3>1. UNCHANGED <<root, ledger, inner, newer, active, counter, layout, pc, queue, next_available_id,
                      crashes, stale>>
      BY <2>1 DEF vars
    <3>2. /\ FilesAtHome' /\ OnePlace' /\ WithTaskFile' /\ RenumberedBeyond'
          /\ dirs(root)' = dirs(root) /\ dirs(ledger)' = dirs(ledger)
          /\ \A i : Clean(i)' = Clean(i) /\ KeptItsId(i)' = KeptItsId(i)
      BY <3>1, FilesUntouched
    <3>3. TypeOK' /\ MergeProgress'
      BY <3>1, <3>2 DEF MigrationInv, TypeOK, MergeProgress
    <3>4. RenumberProgress'
      BY <3>1, <3>2 DEF MigrationInv, RenumberProgress
    <3>5. ActiveKnown' /\ InnerIds'
      BY <3>1, <3>2 DEF MigrationInv, ActiveKnown, InnerIds
    <3>6. Apart'
      BY <3>1, <3>2 DEF MigrationInv, Apart
    <3> QED BY <3>2, <3>3, <3>4, <3>5, <3>6 DEF MigrationInv
  <2>2. CASE Next
    BY <2>2, ApplyStep, RenumberStep, RewriteStep, MergeStep, LateStep DEF Next, Apply
  <2> QED BY <2>1, <2>2
<1>2. MigrationInv /\ LogsInv /\ [Next]_vars => LogsInv'
  <2>1. ASSUME LogsInv, UNCHANGED vars PROVE LogsInv'
    BY <2>1 DEF vars, LogsInv, LogsTyped, LogsProgress
  <2> QED BY <2>1, LogsStep
<1> QED BY <1>1, <1>2, InitInv, LogsInit, PTL DEF Spec

-----------------------------------------------------------------------------
(* The theorems *)

\* A storage that migrate status calls up to date is complete, wherever the
\* command died before: no task, introduction or release is left at the root,
\* the ledger's log has the lines of the root's, the active task is there, new
\* tasks get free ids, and the records of a task name the id of its directory
\* unless the command died between renaming that directory and rewriting them.
THEOREM MigrationCompleteTheorem == Spec => []MigratedCompletely
<1>1. MigrationInv /\ LogsInv => MigratedCompletely
  <2> SUFFICES ASSUME MigrationInv, LogsInv, migrate_status(layout) = "up_to_date"
               PROVE  /\ dirs(root) = {} /\ active.root = NoActive
                      /\ \A name \in DocumentNames : documents.root[name] = "none"
                      /\ log.root = NoLog \/ log.root \subseteq log.ledger
                      /\ active.ledger.id \in {0} \cup dirs(ledger)
                      /\ \A i \in dirs(ledger) :
                            /\ i < counter
                            /\ ledger[i]["task.md"] \in stale \/ inner[ledger[i]["task.md"]] = i
    BY DEF MigratedCompletely
  <2> USE IdFacts, TaskFacts
  <2>1. layout > 2
    <3>1. layout \in Nat
      BY DEF MigrationInv, TypeOK
    <3>2. ~(layout < 3)
      BY DEF migrate_status, required_layout_migrations, TASKLEDGER_STORAGE_LAYOUT_VERSION
    <3> QED BY <3>1, <3>2
  <2>2. /\ dirs(root) = {} /\ active.root = NoActive /\ pc = "idle"
        /\ \A i \in dirs(ledger) : i < counter
    BY <2>1 DEF MigrationInv, MergeProgress
  <2>3. active.ledger.id \in {0} \cup dirs(ledger)
    BY <2>2 DEF MigrationInv, ActiveKnown
  <2>5. /\ \A name \in DocumentNames : documents.root[name] = "none"
        /\ log.root = NoLog \/ log.root \subseteq log.ledger
    BY <2>1 DEF LogsInv, LogsProgress, DocumentNames
  <2>4. ASSUME NEW i \in dirs(ledger), ledger[i]["task.md"] \notin stale PROVE inner[ledger[i]["task.md"]] = i
    <3>0. i \in Ids /\ "task.md" \in FileNames
      BY DEF dirs, FileNames
    <3>1. PICK f \in FileNames : ledger[i][f] # NoFile
      BY <3>0, DirFacts DEF MigrationInv
    <3>2. CASE i \in Found /\ ledger[i][f] = <<"root", i>>
      <4>1. root[i]["task.md"] = NoFile
        BY <2>2, <3>0, DirFacts DEF MigrationInv
      <4>2. ledger[i]["task.md"] = <<"root", i>>
        BY <3>0, <3>2, <4>1 DEF MigrationInv, WithTaskFile, RootTask
      <4> QED BY <3>2, <4>2 DEF MigrationInv, InnerIds
    <3>3. CASE \E k \in Found : ledger[i]["task.md"] = <<"ledger", k>>
      <4>1. PICK k \in Found : ledger[i]["task.md"] = <<"ledger", k>>
        BY <3>3
      <4>2. inner[<<"ledger", k>>] = i
        BY <2>2, <2>4, <3>0, <4>1 DEF MigrationInv, InnerIds
      <4> QED BY <4>1, <4>2
    <3> QED BY <3>0, <3>1, <3>2, <3>3 DEF MigrationInv, FilesAtHome
  <2> QED BY <2>2, <2>3, <2>4, <2>5
<1> QED BY <1>1, MigrationInvariance, PTL

\* If every ledger task that shares an id with a root task is the newer of
\* the two, the files of two tasks never come together in one directory.
THEOREM FilesStayTogetherTheorem == Spec => []FilesStayTogether
<1>1. MigrationInv => FilesStayTogether
  <2> SUFFICES ASSUME MigrationInv,
                      \A i \in Found : Exists(<<"root", i>>) /\ Exists(<<"ledger", i>>) => i \in newer,
                      NEW i \in Ids, NEW f \in FileNames, NEW g \in FileNames,
                      ledger[i][f] # NoFile, ledger[i][g] # NoFile
               PROVE  ledger[i][f] = ledger[i][g]
    BY RangeOfFiles DEF FilesStayTogether
  <2> USE IdFacts, TaskFacts
  <2>0. "task.md" \in FileNames
    BY DEF FileNames
  <2>1. ASSUME NEW h \in FileNames, ledger[i][h] = <<"root", i>>, ~Clean(i)
        PROVE  FALSE
    <3>1. KeptItsId(i)
      BY <2>1 DEF MigrationInv, Apart
    <3>2. ledger[i]["task.md"] = <<"ledger", i>> /\ i \notin newer
      BY <3>1 DEF KeptItsId
    <3>3. i \in Found
      <4>1. PICK k \in Found : ledger[i]["task.md"] = <<"ledger", k>>
        BY <2>0, <3>2 DEF MigrationInv, FilesAtHome
      <4> QED BY <3>2, <4>1
    <3>4. root[i]["task.md"] # NoFile
      BY <2>1, <3>2 DEF MigrationInv, WithTaskFile, RootTask
    <3>5. root[i]["task.md"] = <<"root", i>>
      BY <2>0, <3>4 DEF MigrationInv, FilesAtHome
    <3>6. Exists(<<"root", i>>) /\ Exists(<<"ledger", i>>)
      BY <3>2, <3>5, CopiesOf DEF Exists
    <3> QED BY <3>2, <3>3, <3>6
  <2>2. CASE ledger[i][f] = <<"root", i>> \/ ledger[i][g] = <<"root", i>>
    <3>1. Clean(i)
      BY <2>1, <2>2
    <3> QED BY <3>1 DEF Clean
  <2>3. CASE ledger[i][f] # <<"root", i>> /\ ledger[i][g] # <<"root", i>>
    BY <2>3 DEF MigrationInv, FilesAtHome
  <2> QED BY <2>2, <2>3
<1> QED BY <1>1, MigrationInvariance, PTL

\* No file of a task is in two places.
LEMMA OneCopy ==
    ASSUME MigrationInv, NEW t \in Tasks, NEW f \in Range(Files)
    PROVE  \A x, y \in Copies(t, f) : x = y
<1> USE IdFacts, TaskFacts
<1>0. f \in FileNames /\ "task.md" \in FileNames
  BY RangeOfFiles DEF FileNames
<1>1. ASSUME NEW at \in Copies(t, f)
      PROVE  /\ at[2] \in Ids
             /\ \/ at[1] = "root" /\ t = <<"root", at[2]>> /\ root[at[2]][f] = t
                \/ at[1] = "ledger" /\ t = <<"root", at[2]>> /\ ledger[at[2]][f] = t
                \/ at[1] = "ledger" /\ \E k \in Found : t = <<"ledger", k>> /\ ledger[at[2]]["task.md"] = t
  <2>1. t # NoFile
    OBVIOUS
  <2>2. \/ at[1] = "root" /\ at[2] \in Ids /\ root[at[2]][f] = t
        \/ at[1] = "ledger" /\ at[2] \in Ids /\ ledger[at[2]][f] = t
    BY CopiesOf
  <2>3. CASE at[1] = "root" /\ at[2] \in Ids /\ root[at[2]][f] = t
    BY <1>0, <2>1, <2>3 DEF MigrationInv, FilesAtHome
  <2>4. CASE at[1] = "ledger" /\ at[2] \in Ids /\ ledger[at[2]][f] = t
    <3>1. \/ ledger[at[2]][f] = <<"root", at[2]>>
          \/ \E k \in Found : ledger[at[2]][f] = <<"ledger", k>> /\ ledger[at[2]]["task.md"] = <<"ledger", k>>
      BY <1>0, <2>1, <2>4 DEF MigrationInv, FilesAtHome
    <3> QED BY <2>4, <3>1
  <2> QED BY <2>2, <2>3, <2>4
<1>2. ASSUME NEW x \in Copies(t, f), NEW y \in Copies(t, f) PROVE x[1] = y[1] /\ x[2] = y[2]
  <2>1. CASE \E k \in Found : t = <<"ledger", k>>
    <3>1. /\ x[1] = "ledger" /\ ledger[x[2]]["task.md"] = t /\ x[2] \in Ids
          /\ y[1] = "ledger" /\ ledger[y[2]]["task.md"] = t /\ y[2] \in Ids
      BY <1>1, <2>1
    <3>2. PICK k \in Found : t = <<"ledger", k>>
      BY <2>1
    <3>3. \A i, j \in Ids : ledger[i]["task.md"] = <<"ledger", k>> /\ ledger[j]["task.md"] = <<"ledger", k>> => i = j
      BY DEF MigrationInv, OnePlace
    <3> QED BY <3>1, <3>2, <3>3
  <2>2. CASE ~\E k \in Found : t = <<"ledger", k>>
    <3>1. t = <<"root", x[2]>> /\ t = <<"root", y[2]>> /\ x[2] \in Ids
      BY <1>1, <2>2
    <3>2. x[2] = y[2]
      BY <3>1
    <3>3. ~(root[x[2]][f] = t /\ ledger[x[2]][f] = t)
      BY <1>0, <3>1 DEF MigrationInv, OnePlace
    <3>4. /\ (x[1] = "root" /\ root[x[2]][f] = t) \/ (x[1] = "ledger" /\ ledger[x[2]][f] = t)
          /\ (y[1] = "root" /\ root[x[2]][f] = t) \/ (y[1] = "ledger" /\ ledger[x[2]][f] = t)
      BY <1>1, <2>2, <3>2
    <3> QED BY <3>2, <3>3, <3>4
  <2> QED BY <2>1, <2>2
<1> QED BY <1>2, CopiesOf

\* No step loses a file.
LEMMA NoFileLost ==
    ASSUME MigrationInv, Next, NEW t \in Tasks, NEW f \in Range(Files), Copies(t, f) # {}
    PROVE  Copies(t, f)' # {}
<1> USE IdFacts, TaskFacts
<1>0. f \in FileNames
  BY RangeOfFiles
<1>1. PICK at \in Copies(t, f) : TRUE
  OBVIOUS
<1>2. PICK j \in Ids : root[j][f] = t \/ ledger[j][f] = t
  <2>1. at[2] \in Ids /\ (root[at[2]][f] = t \/ ledger[at[2]][f] = t)
    BY <1>1, CopiesOf
  <2> QED BY <2>1
<1>3. SUFFICES \E l \in Ids : root'[l][f] = t \/ ledger'[l][f] = t
  <2>1. ASSUME NEW l \in Ids, root'[l][f] = t PROVE <<"root", l>> \in Copies(t, f)'
    BY <2>1 DEF Copies
  <2>2. ASSUME NEW l \in Ids, ledger'[l][f] = t PROVE <<"ledger", l>> \in Copies(t, f)'
    BY <2>2 DEF Copies
  <2> QED BY <2>1, <2>2
<1>4. CASE UNCHANGED <<root, ledger>>
  BY <1>2, <1>4
<1>5. CASE renumber /\ ~UNCHANGED <<root, ledger>>
  <2> DEFINE i == Min(queue)
             n == next_available_id
  <2>1. /\ queue # {} /\ ledger_is_newer(i) /\ ledger[n] = NoDir /\ root' = root
        /\ ledger' = [ledger EXCEPT ![n] = ledger[i], ![i] = NoDir]
    BY <1>5 DEF renumber
  <2>2. n \in Ids /\ i \in Ids /\ n # i
    <3>1. i \in queue /\ i \in Found /\ i \in 1..MaxId
      BY <2>1, QueueMin
    <3>2. n \in Nat /\ n > 0 /\ n <= MaxId + i /\ i < n
      BY <1>5, <3>1 DEF renumber, MigrationInv, RenumberProgress, TypeOK
    <3> QED BY <3>1, <3>2 DEF Ids
  <2>3. ledger \in [Ids -> Dir] /\ NoDir \in Dir /\ NoDir[f] = NoFile
    BY <1>0, <1>2, DirFacts DEF MigrationInv, TypeOK
  <2> HIDE DEF i, n
  <2>4. ledger'[n] = ledger[i] /\ \A l \in Ids \ {n, i} : ledger'[l] = ledger[l]
    BY <2>1, <2>2, <2>3
  <2>5. CASE root[j][f] = t
    BY <2>1, <2>5
  <2>6. CASE ledger[j][f] = t
    <3>1. j # n
      BY <2>1, <2>3, <2>6
    <3>2. ledger'[n][f] = t \/ ledger'[j][f] = t
      BY <2>4, <2>6, <3>1
    <3> QED BY <2>2, <3>2
  <2> QED BY <1>2, <2>5, <2>6
<1>6. CASE merge_tree_without_overwrite /\ ~UNCHANGED <<root, ledger>>
  <2> DEFINE i == Min(dirs(root))
             g == Files[NextFile(i)]
  <2>1. dirs(root) # {}
    BY <1>6 DEF merge_tree_without_overwrite
  <2>2. i \in dirs(root) /\ i \in Ids
    BY <2>1, MinElement, DirsAreIds DEF MigrationInv
  <2>3. g \in FileNames
    BY <2>2, NextFileThere DEF MigrationInv
  <2>4. /\ ledger[i][g] \in {NoFile, root[i][g]}
        /\ ledger' = [ledger EXCEPT ![i][g] = root[i][g]]
        /\ root' = [root EXCEPT ![i][g] = NoFile]
    BY <1>6, <2>1 DEF merge_tree_without_overwrite
  <2> HIDE DEF i, g
  <2>5. root \in [Ids -> Dir] /\ ledger \in [Ids -> Dir]
    BY DEF MigrationInv, TypeOK
  <2>6. /\ ledger'[i][g] = root[i][g]
        /\ \A h \in FileNames \ {g} : root'[i][h] = root[i][h] /\ ledger'[i][h] = ledger[i][h]
        /\ \A l \in Ids \ {i} : root'[l] = root[l] /\ ledger'[l] = ledger[l]
    BY <2>2, <2>3, <2>4, <2>5 DEF Dir
  <2>7. CASE j = i /\ f = g
    BY <1>2, <2>4, <2>6, <2>7
  <2>8. CASE ~(j = i /\ f = g)
    <3>1. root'[j][f] = root[j][f] /\ ledger'[j][f] = ledger[j][f]
      BY <1>0, <2>6, <2>8
    <3> QED BY <1>2, <3>1
  <2> QED BY <2>7, <2>8
<1>7. \/ UNCHANGED <<root, ledger>> \/ renumber \/ merge_tree_without_overwrite
  BY DEF Next, Apply, migrate_apply, rewrite_task_refs, merge_ndjson_files, merge_document,
         merge_active_task_files, repair_counter, write_storage_meta, Crash
<1> QED BY <1>4, <1>5, <1>6, <1>7

\* No step loses the text of an introduction or a release.
LEMMA NoTextLost ==
    ASSUME MigrationInv, LogsInv, Next, NEW name \in DocumentNames, NEW text \in Texts \ {"none"},
           text \in {documents.root[name], documents.ledger[name]}
    PROVE  text \in {documents.root[name], documents.ledger[name]}'
<1>1. CASE UNCHANGED documents
  BY <1>1
<1>2. CASE ~UNCHANGED documents
  <2>1. PICK moved \in DocumentNames :
           /\ documents.ledger[moved] \in {"none", documents.root[moved]}
           /\ documents'.ledger[moved] = documents.root[moved]
           /\ \A other \in DocumentNames \ {moved} :
                 /\ documents'.root[other] = documents.root[other]
                 /\ documents'.ledger[other] = documents.ledger[other]
    BY <1>2, DocumentStep
  <2>2. CASE name = moved
    <3>1. text # "none"
      OBVIOUS
    <3>2. text = documents'.ledger[name]
      BY <2>1, <2>2, <3>1
    <3> QED BY <3>2
  <2>3. CASE name # moved
    <3>1. documents'.root[name] = documents.root[name] /\ documents'.ledger[name] = documents.ledger[name]
      BY <2>1, <2>3
    <3> QED BY <3>1
  <2> QED BY <2>2, <2>3
<1> QED BY <1>1, <1>2

\* No step loses a line of a log, but for the ledger's own lines when the
\* command dies while it writes its log anew.
LEMMA NoLineLost ==
    ASSUME MigrationInv, LogsInv, Next, NEW line \in Lines, Held(line)
    PROVE  Held(line)' \/ (line = "ledger" /\ pc = "events" /\ crashes' > crashes)
<1>0. /\ log \in [root: {NoLog, {"root"}}, ledger: {NoLog} \cup SUBSET Lines]
      /\ line \in {"root", "ledger"} /\ line \notin NoLog
  BY DEF LogsInv, LogsTyped, Lines, NoLog
<1>1. line \in log.root \/ line \in log.ledger
  BY DEF Held
<1>2. CASE UNCHANGED log
  BY <1>1, <1>2 DEF Held
<1>3. CASE log' = [root |-> NoLog, ledger |-> log.root] /\ log.ledger = NoLog
  BY <1>0, <1>1, <1>3 DEF Held
<1>4. CASE log' = [log EXCEPT !.ledger = @ \cup log.root]
  <2>1. log'.ledger = log.ledger \cup log.root
    BY <1>0, <1>4
  <2> QED BY <1>1, <2>1 DEF Held
<1>5. CASE /\ Crash /\ pc = "events" /\ log.root # NoLog
           /\ \E lines \in SUBSET Lines : log' = [log EXCEPT !.ledger = lines]
  <2>1. crashes' > crashes
    BY <1>5 DEF Crash, MigrationInv, TypeOK
  <2>2. log'.root = {"root"}
    BY <1>0, <1>5
  <2> QED BY <1>0, <1>5, <2>1, <2>2 DEF Held
<1> QED BY <1>2, <1>3, <1>4, <1>5, LogStep

\* No file is lost or doubled, wherever the command stops and however often
\* it is run: a task's file that is there stays there, in exactly one place,
\* and so do the text of an introduction or a release and every line of an
\* event log, but for the ledger's own lines if the command dies while it
\* writes its log anew.
THEOREM NothingLostTheorem == Spec => NothingLost
<1> DEFINE Kept ==
      /\ \A t \in Tasks, f \in Range(Files) : Copies(t, f) # {} => Copies(t, f)' # {}
      /\ \A name \in DocumentNames : \A text \in Texts \ {"none"} :
            text \in {documents.root[name], documents.ledger[name]} =>
                text \in {documents.root[name], documents.ledger[name]}'
      /\ \A line \in Lines : Held(line) =>
            Held(line)' \/ (line = "ledger" /\ pc = "events" /\ crashes' > crashes)
<1>1. MigrationInv => \A t \in Tasks, f \in Range(Files) : \A x, y \in Copies(t, f) : x = y
  BY OneCopy
<1>2. MigrationInv /\ LogsInv /\ [Next]_vars => [Kept]_vars
  BY NoFileLost, NoTextLost, NoLineLost
<1> QED BY <1>1, <1>2, MigrationInvariance, PTL DEF Spec, NothingLost
=============================================================================
