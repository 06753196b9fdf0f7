------------------------------ MODULE Exchange ------------------------------
(***************************************************************************)
(* Transfer archives (exchange.py): export of the current ledger or of     *)
(* selected tasks, and import into the current ledger, on top of the       *)
(* commands of module Ledger.  An import writes file by file and has no    *)
(* way back: an error or a crash leaves what was written so far.           *)
(***************************************************************************)
EXTENDS Ledger

CONSTANT ForeignIds     \* the ids a task of another checkout may bear

ASSUME ExchangeAssumption == ForeignIds \subseteq Ids

VARIABLES
    archive,     \* the archive file last written
    interrupted, \* history: some import did not come to its end
    renumbered,  \* history: some import gave a task another id
    torn         \* history: where a clear was cut short, as ledgers and archive

exchangeVars == <<archive, interrupted, renumbered, torn>>

vars == <<config, ledgers, births, commands, native, archive, interrupted, renumbered, torn>>

NoArchive == [scope |-> "none"]

\* An export that died: the old file was removed, the new one is cut short.
Truncated == [scope |-> "truncated"]

\* A task-scoped archive from another checkout of the project, whose counter
\* went its own way: one open task with a parent and a requirement that were
\* not selected (0: none).
ForeignUid == MaxBirths + 1

ForeignArchive(i, parent, required) ==
    [scope    |-> "tasks",
     tasks    |-> [k \in {i} |-> [uid |-> ForeignUid, slug |-> 1, status_stage |-> "open",
                                  archived |-> FALSE, parent_task_id |-> parent]],
     reqs     |-> {[owner |-> i, task_id |-> r] : r \in {required} \ {0}},
     todos    |-> {i},
     active   |-> 0,
     releases |-> [v \in Versions |-> 0]]

ForeignArchives ==
    {ForeignArchive(i, parent, required) :
        i \in ForeignIds, parent \in 0..MaxId, required \in 0..MaxId}

Init ==
    /\ LedgerInit /\ interrupted = FALSE /\ renumbered = FALSE
    /\ torn = [ledgers |-> {}, archive |-> FALSE]
    /\ archive \in {NoArchive} \cup
                   {a \in ForeignArchives : \A i \in DOMAIN a.tasks :
                        a.tasks[i].parent_task_id < i /\ a.reqs \subseteq [owner: {i}, task_id: Ids \ {i}]}

-----------------------------------------------------------------------------
(***************************************************************************)
(* Export.  A requirement is written without the task that has it: its     *)
(* task_id is the required task.  A todo is written without any task id.   *)
(* owner is not in the file: no import reads it.                           *)
(***************************************************************************)

RequirementEntries(ledger, ids) ==
    {[owner |-> i, task_id |-> r] : i \in ids, r \in Ids}

export_v2_payload(ledger, scope, ids) ==
    [scope    |-> scope,
     tasks    |-> [i \in ids |-> Task(ledger, i)],
     reqs     |-> {e \in RequirementEntries(ledger, ids) : e.task_id \in ledger.bundle[e.owner].reqs},
     todos    |-> {i \in ids : ledger.bundle[i].todos},
     active   |-> IF scope = "ledger" THEN ledger.active ELSE 0,
     releases |-> IF scope = "ledger" THEN ledger.release
                  ELSE [v \in Versions |-> 0]]

\* No task refs select the whole ledger.
resolve_export_selection(ledger) ==
    {<<"ledger", list_tasks(ledger)>>} \cup
    {<<"tasks", ids>> : ids \in SUBSET list_tasks(ledger) \ {{}}}

write_project_archive ==
    \E selection \in resolve_export_selection(Current) :
        /\ archive' \in {export_v2_payload(Current, selection[1], selection[2]), Truncated}
        /\ torn' = [torn EXCEPT !.archive = config.ref \in torn.ledgers]
        /\ UNCHANGED <<config, ledgers, births, native, interrupted, renumbered>>

-----------------------------------------------------------------------------
(***************************************************************************)
(* Import.                                                                 *)
(***************************************************************************)

\* The members, the digest and the project's uuid are checked before anything
\* is written; only archives of this project are considered here.
read_project_archive == archive.scope \in {"ledger", "tasks"}

Policies == {"preserve", "renumber-on-conflict", "fail-on-conflict"}

effective_id_policy(replace, policy, scope) ==
    IF replace THEN "preserve"
    ELSE IF scope = "tasks" /\ policy = "preserve" THEN "renumber-on-conflict"
    ELSE policy

\* The incoming ids in order, each under its own id when that is free and
\* under the next one otherwise: the function that satisfies these equations,
\* if its values stay within the bound.  The counter that the code passes on is
\* never above the largest allocated id, so that its first value will do.
build_import_task_id_map(incoming, existing, next) ==
    {map \in [incoming -> Ids] :
        \A id \in incoming :
            LET allocated == existing \cup {map[k] : k \in {k \in incoming : k < id}}
            IN  map[id] = IF id \notin allocated THEN id
                          ELSE allocate_ledger_task_id(allocated, next)}

\* The tasks the ledger has are looked up before --replace clears them.
MapAllowed(incoming, policy) ==
    policy = "renumber-on-conflict" \/ incoming \cap list_tasks(Current) = {}

\* Fault: an id that is not in the map is taken for some task of the archive.
Mapped_Guessed(map, id) ==
    IF id \in DOMAIN map THEN map[id]
    ELSE IF id = 0 THEN 0 ELSE CHOOSE new \in Range(map) : TRUE

Mapped(map, id) == IF id \in DOMAIN map THEN map[id] ELSE id

rewrite_task_ids(payload, map) ==
    [payload EXCEPT
        !.tasks = [i \in Range(map) |->
            LET task == payload.tasks[CHOOSE k \in DOMAIN map : map[k] = i]
            IN  [task EXCEPT !.parent_task_id = Mapped(map, @)]],
        !.reqs = {[e EXCEPT !.task_id = Mapped(map, @)] : e \in @},
        !.active = Mapped(map, @),
        !.releases = [v \in Versions |-> Mapped(map, @[v])]]

\* Fault: the active-task file outlives --replace.
clear_v2_state_KeepsActive(ledger) == [EmptyLedger EXCEPT !.active = ledger.active]

clear_v2_state(ledger) == EmptyLedger

\* What is left of a task directory while it is being removed.
Remains(bundle) ==
    [task: {bundle.task, NoTask}, reqs: SUBSET bundle.reqs, todos: {bundle.todos, FALSE}]

\* What a clear that dies leaves.  The task directories go one after the
\* other, in the order the file system lists them; then the release files;
\* the active-task file is the last to go.
TasksCutShort(ledger) ==
    UNION {{[ledger EXCEPT !.bundle = [i \in Ids |-> IF i \in gone THEN NoBundle
                                                    ELSE IF i = last THEN left ELSE @[i]]] :
               gone \in SUBSET task_dirs(ledger), left \in Remains(ledger.bundle[last])} :
               last \in task_dirs(ledger)}

ReleasesCutShort(ledger) ==
    {[EmptyLedger EXCEPT !.active = ledger.active,
                         !.release = [v \in Versions |->
                                         IF v \in kept THEN ledger.release[v] ELSE 0]] :
        kept \in SUBSET Versions}

ClearCutShort(ledger) == TasksCutShort(ledger) \cup ReleasesCutShort(ledger)

\* task.md of every task that comes.
import_tasks(ledger, payload) ==
    [ledger EXCEPT !.bundle = [i \in Ids |->
        IF i \in DOMAIN payload.tasks THEN [@[i] EXCEPT !.task = payload.tasks[i]]
        ELSE @[i]]]

\* The entries are grouped by their task_id and each group replaces the
\* requirements of that task, creating its directory if need be.  The todos
\* go to no task.
import_standalone_collections(ledger, payload) ==
    [ledger EXCEPT !.bundle = [i \in Ids |->
        LET group == {e \in payload.reqs : e.task_id = i}
        IN  IF group = {} THEN @[i] ELSE [@[i] EXCEPT !.reqs = {e.task_id : e \in group}]]]

\* An active task that is not among the ledger's is an error, after everything
\* before was written.
ActiveMissing(ledger, payload) ==
    payload.active # 0 /\ payload.active \notin list_tasks(ledger)

import_active_task(ledger, payload) ==
    IF payload.active = 0 THEN ledger ELSE [ledger EXCEPT !.active = payload.active]

\* So is a version that exists, and a boundary that is not among the tasks.
ReleaseConflict(ledger, payload) ==
    \E v \in Versions : /\ payload.releases[v] # 0
                        /\ \/ ledger.release[v] # 0
                           \/ payload.releases[v] \notin list_tasks(ledger)

import_releases(ledger, payload) ==
    [ledger EXCEPT !.release =
        [v \in Versions |-> IF @[v] = 0 THEN payload.releases[v] ELSE @[v]]]

\* The ledger after the import has been through the given number of stages.
ImportedThrough(ledger, payload, stage) ==
    LET tasks == import_tasks(ledger, payload)
        collections == import_standalone_collections(tasks, payload)
        active == import_active_task(collections, payload)
    IN  CASE stage = 0 -> ledger
          [] stage = 1 -> tasks
          [] stage = 2 -> collections
          [] stage = 3 -> active
          [] OTHER -> import_releases(active, payload)

\* Fault: only the directories that hold a task.md count.
repair_ledger_next_task_number_Tasks(ledger, next) ==
    Larger(next, Max(list_tasks(ledger) \cup {0}) + 1)

\* The counter is repaired last: past the largest directory name.
repair_ledger_next_task_number(ledger, next) ==
    Larger(next, Max(task_dirs(ledger) \cup {0}) + 1)

ImportStages == 5

ImportMaps == build_import_task_id_map(DOMAIN archive.tasks, list_tasks(Current), config.next)

\* stage < ImportStages: the command dies after that stage; stage 0 with
\* --replace: it dies in or right after the clear.
import_project_archive(replace, policy, stage) ==
    /\ read_project_archive
    /\ MapAllowed(DOMAIN archive.tasks, effective_id_policy(replace, policy, archive.scope))
    /\ \E map \in ImportMaps,
          start \in IF replace
                   THEN {clear_v2_state(Current)} \cup
                        (IF stage = 0 THEN ClearCutShort(Current) ELSE {})
                   ELSE {Current} :
       LET payload == rewrite_task_ids(archive, map)
           tasks == ImportedThrough(start, payload, 1)
           ledger == ImportedThrough(start, payload, stage)
       IN  /\ stage > 2 => ~ActiveMissing(tasks, payload)
           /\ stage > 3 => ~ReleaseConflict(tasks, payload)
           /\ SetCurrent(ledger)
           /\ config' = IF stage < ImportStages THEN config
                        ELSE [config EXCEPT
                                 !.next = repair_ledger_next_task_number(ledger, @)]
           /\ native' = {p \in native : p[1] = config.ref =>
                                           p[2] \in list_tasks(start) /\ p[2] \notin Range(map)}
           /\ renumbered' = (renumbered \/ \E i \in DOMAIN map : map[i] # i)
    /\ interrupted' = (interrupted \/ stage < ImportStages)
    /\ torn' = [torn EXCEPT
                   !.ledgers = IF torn.archive \/ (replace /\ stage = 0) THEN @ \cup {config.ref}
                               ELSE IF replace THEN @ \ {config.ref} ELSE @]
    /\ UNCHANGED <<births, archive>>

Local == LedgerNext /\ UNCHANGED exchangeVars

Next ==
    /\ commands < MaxCommands
    /\ commands' = commands + 1
    /\ \/ Local
       \/ write_project_archive
       \/ \E replace \in BOOLEAN, policy \in Policies, stage \in 0..ImportStages :
              import_project_archive(replace, policy, stage)

Spec == Init /\ [][Next]_vars

-----------------------------------------------------------------------------
(***************************************************************************)
(* The tree view: roots, children below their parents, and orphans, whose  *)
(* parent is not among the listed tasks.  A task in a cycle of parents     *)
(* would be none of them.                                                  *)
(***************************************************************************)

tree_roots(ledger, listed) == {i \in listed : Task(ledger, i).parent_task_id \notin listed}

\* What is reached from the roots and orphans: the smallest set that holds
\* them and, with a task, its children.
TreeShown(ledger, listed) ==
    {i \in listed : \A shown \in SUBSET listed :
        (/\ tree_roots(ledger, listed) \subseteq shown
         /\ \A k \in listed : Task(ledger, k).parent_task_id \in shown => k \in shown)
        => i \in shown}

-----------------------------------------------------------------------------
(* Properties *)

LedgerRecord == [bundle: [Ids -> [task: TaskRecord \cup {NoTask},
                                  reqs: SUBSET Ids, todos: BOOLEAN]],
                 active: 0..MaxId, release: [Versions -> 0..MaxId]]

\* Every ledger directory holds well-formed bundles; the counter is positive.
TypeOK ==
    /\ config \in [ref: Ledgers, parent_ref: Ledgers, next: 1..MaxId + 1]
    /\ DOMAIN ledgers \subseteq Ledgers /\ config.ref \in DOMAIN ledgers
    /\ \A l \in DOMAIN ledgers : ledgers[l] \in LedgerRecord
    /\ births \in 0..MaxBirths

\* A task id, once given to a task of a ledger, never comes to mean another
\* task there; only import --replace may take tasks away (save_task overwrites
\* silently, so this rests on the ids that create, adopt and import choose).
IdsNeverReused ==
    [][\A l \in DOMAIN ledgers : \A i \in list_tasks(ledgers[l]) :
          \/ Task(ledgers'[l], i).uid = Task(ledgers[l], i).uid
          \/ \E policy \in Policies, stage \in 0..ImportStages :
                import_project_archive(TRUE, policy, stage)]_vars

\* A task that create makes takes a number above every task its ledger holds,
\* and finds nothing in its directory, unless an import died before it had
\* repaired the counter (import also fills directories of tasks it did not
\* bring, and adopt leaves the counter behind).
NewTasksAreFresh ==
    [][births' = births + 1 =>
          \E i \in Ids :
              /\ interrupted \/ Current'.bundle[i] = Bundle(Task(Current', i))
              /\ Task(Current', i).uid = births'
              /\ \A k \in list_tasks(Current) : k < i]_vars

\* Two tasks a ledger created itself never show the same slug, whatever was
\* archived and brought back in between: a slug then names one visible task.
NativeSlugsUnique ==
    \A l \in DOMAIN ledgers : \A i, k \in visible_tasks(ledgers[l]) :
        {<<l, i>>, <<l, k>>} \subseteq native /\ i # k =>
            Task(ledgers[l], i).slug # Task(ledgers[l], k).slug

\* Pointers into a ledger resolve, through archive, adoption, renumbering,
\* replacing and imports interrupted while they write: the active task exists
\* and is not a done task that was archived, and a release's boundary is a
\* done task.  Not where import --replace died while it cleared the ledger:
\* the active task and the releases outlive the tasks, until another --replace
\* gets past the clear; nor where an archive of such a ledger was imported.
PointersResolve ==
    \A l \in DOMAIN ledgers \ torn.ledgers :
        /\ LET a == ledgers[l].active
           IN  a # 0 => /\ a \in list_tasks(ledgers[l])
                        /\ Task(ledgers[l], a).archived => Task(ledgers[l], a).status_stage = "open"
        /\ \A v \in Versions :
               LET b == ledgers[l].release[v]
               IN  b # 0 => b \in list_tasks(ledgers[l]) /\ Task(ledgers[l], b).status_stage = "done"

\* taskledger tree shows every task it lists: no sequence of follow-ups,
\* adoptions, exports and imports makes a task its own ancestor, as long as no
\* import had to renumber (that can move a parent above its child, and the
\* child's pointer then names an id that another ledger uses for a descendant).
TreeShowsEveryTask ==
    ~renumbered =>
        \A l \in DOMAIN ledgers :
            /\ TreeShown(ledgers[l], visible_tasks(ledgers[l])) = visible_tasks(ledgers[l])
            /\ TreeShown(ledgers[l], list_tasks(ledgers[l])) = list_tasks(ledgers[l])

\* A finished import gives every task the todos and the requirements it had
\* when it was exported.
ImportRestoresSidecars ==
    [][\A replace \in BOOLEAN, policy \in Policies :
          import_project_archive(replace, policy, ImportStages) =>
          \A map \in ImportMaps, i \in DOMAIN archive.tasks :
              LET bundle == Current'.bundle[map[i]]
              IN  /\ bundle.todos = (i \in archive.todos)
                  /\ bundle.reqs =
                        {Mapped(map, e.task_id) : e \in {e \in archive.reqs : e.owner = i}}]_vars
=============================================================================
