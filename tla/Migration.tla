----------------------------- MODULE Migration ------------------------------
(***************************************************************************)
(* taskledger migrate apply for storage layout 2 (storage/migrations.py,   *)
(* cli_migrate.py): the tasks, event logs, introductions, releases and the *)
(* active task found at the root of the storage are moved into the         *)
(* directory of the current ledger, which may have its own by then.  The   *)
(* command works file by file, may be cut short anywhere, and is run       *)
(* again.                                                                  *)
(*                                                                         *)
(* A task is named by where it was found first and its id there; it is at  *)
(* the root or in the ledger, not in both.  Its directory holds files,     *)
(* handled in alphabetical order.  There is one event log, one file of     *)
(* introductions and one of releases, each at the root, in the ledger, in  *)
(* both or nowhere.                                                        *)
(***************************************************************************)
EXTENDS Naturals, Sequences, FiniteSetsExt, Functions

CONSTANTS
    MaxId,          \* bound: task numbers found
    Shared,         \* what there may be of event logs and documents
    MaxCrashes      \* bound: deaths of the command

\* The lines of an event log, by where they were written.
Lines == {"root", "ledger"}

NoLog == {"no file"}

DocumentNames == {"intros", "releases"}

Texts == {"none", "one", "other"}

Documents == [root: [DocumentNames -> Texts], ledger: [DocumentNames -> Texts]]

ASSUME MigrationAssumption ==
    /\ MaxId \in Nat \ {0} /\ MaxCrashes \in Nat
    /\ Shared \subseteq [log: [root: {NoLog, {"root"}}, ledger: {NoLog, {"ledger"}}],
                         documents: Documents]

VARIABLES
    root, ledger,   \* the task directories at the root and in the ledger
    inner,          \* the id each task's records name
    newer,          \* the ids whose ledger task is the newer one of the two
    log, documents, \* the event log and the other files, at the root and in the ledger
    active,         \* active-task.yaml at the root and in the ledger
    counter,        \* ledger_next_task_number
    layout,         \* storage_layout_version
    pc,
    queue,          \* the conflicting ids still to be renumbered, in ascending order
    next_available_id,
    crashes,
    stale           \* history: the tasks that were renamed by a command that died then

files == <<log, documents>>

vars == <<root, ledger, inner, newer, log, documents, active, counter, layout,
          pc, queue, next_available_id, crashes, stale>>

TASKLEDGER_STORAGE_LAYOUT_VERSION == 3

Found == 1..MaxId

\* Renumbering may take as many ids again.
Ids == 1..2 * MaxId

Tasks == {"root", "ledger"} \X Found

Files == <<"changes", "task.md", "todos">>

NoFile == <<"none", 0>>

NoDir == [f \in Range(Files) |-> NoFile]

\* Some tasks have no more than their task.md.
DirsOf(task) == {[NoDir EXCEPT !["task.md"] = task], [f \in Range(Files) |-> task]}

dirs(place) == {i \in Ids : place[i] # NoDir}

NoActive == [id |-> 0, at |-> 0]

\* A file that cannot be parsed: its writer died.
CutActive == [id |-> 0, at |-> 1]

FoundDirs(from) == {d \in [Ids -> UNION {DirsOf(t) : t \in {from} \X Found} \cup {NoDir}] :
                       \A i \in Ids : d[i] \in {NoDir} \cup
                           (IF i \in Found THEN DirsOf(<<from, i>>) ELSE {})}

\* A storage of layout 2 whose ledger already has tasks, or one of another
\* layout, which has nothing at its root.
Active(id, at) == IF id = 0 THEN NoActive ELSE [id |-> id, at |-> at]

Init ==
    /\ layout \in 1..4
    /\ root \in (IF layout = 2 THEN FoundDirs("root") ELSE {[i \in Ids |-> NoDir]})
    /\ ledger \in FoundDirs("ledger")
    /\ inner = [t \in Tasks |-> t[2]]
    /\ newer \in SUBSET (dirs(root) \cap dirs(ledger))
    /\ \E r \in {0} \cup dirs(root), l \in {0} \cup dirs(ledger), later \in {0, 2} :
          active = [root |-> Active(r, 1), ledger |-> Active(l, later)]
    /\ counter \in (IF layout = 2 THEN {1} ELSE {}) \cup {Max(dirs(ledger) \cup {0}) + 1}
    /\ pc = "idle" /\ queue = {} /\ next_available_id = 0
    /\ \E shared \in Shared :
          /\ layout = 2 \/ (shared.log.root = NoLog
                            /\ \A name \in DocumentNames : shared.documents.root[name] = "none")
          /\ log = shared.log /\ documents = shared.documents
    /\ crashes = 0 /\ stale = {}

-----------------------------------------------------------------------------

\* The steps from one layout to another; there is only the one from 2 to 3.
required_layout_migrations(current, target) ==
    IF current < target /\ current # 2 THEN {"unavailable"}
    ELSE IF current < target THEN {"branch-scoped-ledgers"} ELSE {}

migrate_status(current) ==
    LET pending == required_layout_migrations(current, TASKLEDGER_STORAGE_LAYOUT_VERSION)
    IN  IF pending = {"unavailable"} THEN "migration_unavailable"
        ELSE IF pending # {} THEN "migration_needed" ELSE "up_to_date"

find_task_conflicts == dirs(root) \cap dirs(ledger)

max_numeric_task_number(place) == Max(dirs(place) \cup {0})

\* created_at of both tasks can be read and the ledger's is the later one.
ledger_is_newer(i) ==
    /\ root[i]["task.md"] = <<"root", i>> /\ ledger[i]["task.md"] = <<"ledger", i>>
    /\ i \in newer

\* A layout that is up to date or too new is left alone.
migrate_apply ==
    /\ pc = "idle" /\ layout < TASKLEDGER_STORAGE_LAYOUT_VERSION
    /\ required_layout_migrations(layout, TASKLEDGER_STORAGE_LAYOUT_VERSION) # {"unavailable"}
    /\ pc' = "renumber"
    /\ queue' = find_task_conflicts
    /\ next_available_id' = max_numeric_task_number(root) + 1
    /\ UNCHANGED <<root, ledger, inner, newer, files, active, counter, layout, crashes, stale>>

\* Fault: tasks of the same id are left to the merge.
renumber_Skipped ==
    /\ pc = "renumber" /\ queue' = {} /\ pc' = "merge"
    /\ UNCHANGED <<root, ledger, inner, newer, files, active, counter, layout, next_available_id,
                   crashes, stale>>

\* The newer ledger task gives way.  Its directory is renamed first; that
\* fails when the new id is taken.
renumber ==
    /\ pc = "renumber"
    /\ IF queue = {} THEN pc' = "merge" /\ UNCHANGED <<ledger, queue>>
       ELSE LET i == Min(queue) IN
            IF ~ledger_is_newer(i)
            THEN queue' = queue \ {i} /\ UNCHANGED <<ledger, pc>>
            ELSE IF ledger[next_available_id] # NoDir
            THEN pc' = "idle" /\ UNCHANGED <<ledger, queue>>
            ELSE /\ ledger' = [ledger EXCEPT ![next_available_id] = ledger[i], ![i] = NoDir]
                 /\ pc' = "rewrite" /\ UNCHANGED queue
    /\ UNCHANGED <<root, inner, newer, files, active, counter, layout, next_available_id, crashes,
                   stale>>

\* Then the records in it are rewritten.
rewrite_task_refs ==
    /\ pc = "rewrite"
    /\ inner' = [inner EXCEPT ![<<"ledger", Min(queue)>>] = next_available_id]
    /\ next_available_id' = next_available_id + 1
    /\ queue' = queue \ {Min(queue)}
    /\ pc' = "renumber"
    /\ UNCHANGED <<root, ledger, newer, files, active, counter, layout, crashes, stale>>

\* The first file that is still at the root.
NextFile(i) == CHOOSE k \in DOMAIN Files :
                  /\ root[i][Files[k]] # NoFile
                  /\ \A j \in 1..k - 1 : root[i][Files[j]] = NoFile

\* Fault: a file that is in the way is replaced.
merge_tree_Overwrites ==
    /\ pc = "merge"
    /\ IF dirs(root) = {} THEN pc' = "events" /\ UNCHANGED <<root, ledger>>
       ELSE LET i == Min(dirs(root))
                f == Files[NextFile(i)]
            IN  /\ ledger' = [ledger EXCEPT ![i][f] = root[i][f]]
                /\ root' = [root EXCEPT ![i][f] = NoFile]
                /\ UNCHANGED pc
    /\ UNCHANGED <<inner, newer, files, active, counter, layout, queue, next_available_id, crashes,
                   stale>>

\* One file is moved, or removed because the ledger has the same; the command
\* fails when the ledger has a different one.
merge_tree_without_overwrite ==
    /\ pc = "merge"
    /\ IF dirs(root) = {} THEN pc' = "events" /\ UNCHANGED <<root, ledger>>
       ELSE LET i == Min(dirs(root))
                f == Files[NextFile(i)]
            IN  IF ledger[i][f] \notin {NoFile, root[i][f]} THEN pc' = "idle" /\ UNCHANGED <<root, ledger>>
                ELSE /\ ledger' = [ledger EXCEPT ![i][f] = root[i][f]]
                     /\ root' = [root EXCEPT ![i][f] = NoFile]
                     /\ UNCHANGED pc
    /\ UNCHANGED <<inner, newer, files, active, counter, layout, queue, next_available_id, crashes,
                   stale>>

\* The lines the ledger's log lacks are added to it; the root's log is only
\* removed when it can be moved as it is.
merge_ndjson_files ==
    /\ pc = "events"
    /\ log' = IF log.root = NoLog THEN log
              ELSE IF log.ledger = NoLog THEN [root |-> NoLog, ledger |-> log.root]
              ELSE [log EXCEPT !.ledger = @ \cup log.root]
    /\ pc' = "intros"
    /\ UNCHANGED <<root, ledger, inner, newer, documents, active, counter, layout, queue,
                   next_available_id, crashes, stale>>

\* The ledger's log is written anew, its own lines first.
LogsCutShort ==
    {log.ledger} \cup (IF NoLog \in {log.root, log.ledger} THEN {}
                      ELSE {{}, log.ledger \ {"root"}, log.ledger \cup log.root})

\* Introductions and releases, by the rule of the task files.
merge_document(name) ==
    /\ pc = name
    /\ IF documents.root[name] # "none" /\ documents.ledger[name] \notin {"none", documents.root[name]}
       THEN pc' = "idle" /\ UNCHANGED documents
       ELSE /\ documents' = IF documents.root[name] = "none" THEN documents
                            ELSE [documents EXCEPT !.root[name] = "none", !.ledger[name] = documents.root[name]]
            /\ pc' = IF name = "intros" THEN "releases" ELSE "active"
    /\ UNCHANGED <<root, ledger, inner, newer, log, active, counter, layout, queue,
                   next_available_id, crashes, stale>>

RootIsLater == active.root.id # 0 /\ active.ledger.id # 0 /\ active.root.at > active.ledger.at

\* The later activation wins; the root's file is removed last.
merge_active_task_files ==
    /\ pc = "active"
    /\ IF active.root.id # 0 /\ active.ledger = CutActive THEN pc' = "idle" /\ UNCHANGED active
       ELSE /\ active' = [root |-> NoActive,
                          ledger |-> IF active.root.id # 0 /\ (active.ledger.id = 0 \/ RootIsLater)
                                     THEN active.root ELSE active.ledger]
            /\ pc' = "counter"
    /\ UNCHANGED <<root, ledger, inner, newer, files, counter, layout, queue, next_available_id,
                   crashes, stale>>

ActiveCutShort ==
    {active.ledger} \cup (IF RootIsLater THEN {CutActive, active.root} ELSE {})

\* Fault: the counter may stay at the largest id.
repair_counter_OffByOne ==
    /\ pc = "counter"
    /\ counter' = IF counter < max_numeric_task_number(ledger)
                  THEN max_numeric_task_number(ledger) + 1 ELSE counter
    /\ pc' = "meta"
    /\ UNCHANGED <<root, ledger, inner, newer, files, active, layout, queue, next_available_id,
                   crashes, stale>>

repair_counter ==
    /\ pc = "counter"
    /\ counter' = IF counter <= max_numeric_task_number(ledger)
                  THEN max_numeric_task_number(ledger) + 1 ELSE counter
    /\ pc' = "meta"
    /\ UNCHANGED <<root, ledger, inner, newer, files, active, layout, queue, next_available_id,
                   crashes, stale>>

\* storage.yaml comes last.
write_storage_meta ==
    /\ pc = "meta"
    /\ layout' = TASKLEDGER_STORAGE_LAYOUT_VERSION
    /\ pc' = "idle"
    /\ UNCHANGED <<root, ledger, inner, newer, files, active, counter, queue, next_available_id,
                   crashes, stale>>

\* A death leaves a file that is being rewritten cut short, and the records of
\* a task that is being renumbered with its old id.
Crash ==
    /\ pc # "idle" /\ crashes < MaxCrashes
    /\ crashes' = crashes + 1
    /\ pc' = "idle"
    /\ stale' = IF pc = "rewrite" THEN stale \cup {<<"ledger", Min(queue)>>} ELSE stale
    /\ \E lines \in IF pc = "events" THEN LogsCutShort ELSE {log.ledger} :
          log' = [log EXCEPT !.ledger = lines]
    /\ \E state \in IF pc = "active" THEN ActiveCutShort ELSE {active.ledger} :
          active' = [active EXCEPT !.ledger = state]
    /\ UNCHANGED <<root, ledger, inner, newer, documents, counter, layout, queue,
                   next_available_id>>

Apply == migrate_apply \/ renumber \/ rewrite_task_refs
         \/ merge_tree_without_overwrite \/ merge_ndjson_files
         \/ (\E name \in DocumentNames : merge_document(name))
         \/ merge_active_task_files \/ repair_counter \/ write_storage_meta

Next == Apply \/ Crash

Spec == Init /\ [][Next]_vars

-----------------------------------------------------------------------------
(* Properties *)

\* Where file f of task t is.
Copies(t, f) == {at \in {"root", "ledger"} \X Ids :
                    (IF at[1] = "root" THEN root ELSE ledger)[at[2]][f] = t}

\* Where a line of an event log is.
Held(line) == line \in log.root \/ line \in log.ledger

\* No file is lost or doubled, wherever the command stops and however often
\* it is run: a task's file that is there stays there, in exactly one place,
\* and so does the text of an introduction or a release.  A line of an event
\* log is lost only if it is one of the ledger's own and the command dies
\* while it writes the ledger's log anew.
NothingLost ==
    /\ [](\A t \in Tasks, f \in Range(Files) : \A x, y \in Copies(t, f) : x = y)
    /\ [][/\ \A t \in Tasks, f \in Range(Files) : Copies(t, f) # {} => Copies(t, f)' # {}
          /\ \A name \in DocumentNames : \A text \in Texts \ {"none"} :
                text \in {documents.root[name], documents.ledger[name]} =>
                    text \in {documents.root[name], documents.ledger[name]}'
          /\ \A line \in Lines : Held(line) =>
                Held(line)' \/ (line = "ledger" /\ pc = "events" /\ crashes' > crashes)]_vars

Exists(t) == Copies(t, "task.md") # {}

\* When every ledger task that shares an id with a root task is the newer of
\* the two, as the migration takes for granted, the files of two tasks never
\* come together in one directory.
FilesStayTogether ==
    (\A i \in Found : Exists(<<"root", i>>) /\ Exists(<<"ledger", i>>) => i \in newer) =>
        \A i \in Ids : \A f, g \in Range(Files) :
            NoFile \in {ledger[i][f], ledger[i][g]} \/ ledger[i][f] = ledger[i][g]

\* What migrate status calls up to date is complete: no task, introduction or
\* release is left at the root; a log may be left there, but the ledger's has
\* every line of it; the active task is there, and the next new task gets a
\* free id.  The records of a task name the id of its directory, unless the
\* command died after it had renamed the directory of that very task and
\* before it had rewritten them: nothing takes that up again.
MigratedCompletely ==
    migrate_status(layout) = "up_to_date" =>
        /\ dirs(root) = {} /\ active.root = NoActive
        /\ \A name \in DocumentNames : documents.root[name] = "none"
        /\ log.root = NoLog \/ log.root \subseteq log.ledger
        /\ active.ledger.id \in {0} \cup dirs(ledger)
        /\ \A i \in dirs(ledger) :
              /\ i < counter
              /\ ledger[i]["task.md"] \in stale \/ inner[ledger[i]["task.md"]] = i
=============================================================================
