------------------------------- MODULE Ledger -------------------------------
(***************************************************************************)
(* A taskledger workspace: the ledgers under its storage root, the task    *)
(* bundles of each ledger, the id counter that .taskledger.toml keeps for  *)
(* all of them, the active task, requirements, releases and the commands   *)
(* that change them (services/task_lifecycle.py, task_collections.py,      *)
(* task_archive.py, releases.py, cli_ledger.py).                           *)
(*                                                                         *)
(* A task's life is cut down to "open" and "done": TaskLifecycle models it *)
(* in full.  A task id is its number.  uid is the task's identity: history *)
(* that no file keeps, so that a property can tell two tasks apart that    *)
(* bear the same id.  A slug is the number _unique_slug appends to the one *)
(* title all tasks are given.                                              *)
(***************************************************************************)
EXTENDS Naturals, FiniteSets, FiniteSetsExt, SequencesExt

CONSTANTS
    Ledgers,        \* ledger refs
    MainLedger,     \* the ledger of a new workspace
    Versions,       \* release versions
    MaxId,          \* bound: task numbers
    MaxBirths,      \* bound: tasks ever created
    MaxCommands     \* bound: commands run in the workspace

ASSUME LedgerAssumption ==
    /\ MainLedger \in Ledgers
    /\ MaxId \in Nat /\ MaxBirths \in Nat /\ MaxCommands \in Nat

VARIABLES
    config,     \* ledger_ref, ledger_parent_ref and ledger_next_task_number
    ledgers,    \* the ledger directories that exist, by ref
    births,     \* tasks created so far
    commands,   \* commands run so far
    native      \* history: the places whose task was created there

ledgerVars == <<config, ledgers, births, commands, native>>

Ids == 1..MaxId

NoTask == [uid |-> 0]

TaskRecord == [uid: 1..MaxBirths + 1, slug: 1..MaxId, status_stage: {"open", "done"},
               archived: BOOLEAN, parent_task_id: 0..MaxId]

\* A task directory: task.md, the tasks that requirements/ names and whether
\* todos/ holds any.  Waivers are the business of module Records.
NoBundle == [task |-> NoTask, reqs |-> {}, todos |-> FALSE]

Bundle(task) == [NoBundle EXCEPT !.task = task]

EmptyLedger == [bundle |-> [i \in Ids |-> NoBundle], active |-> 0,
                release |-> [v \in Versions |-> 0]]

\* list_tasks finds the directories that hold a task.md.
list_tasks(ledger) == {i \in Ids : ledger.bundle[i].task # NoTask}

task_dirs(ledger) == {i \in Ids : ledger.bundle[i] # NoBundle}

Task(ledger, i) == ledger.bundle[i].task

visible_tasks(ledger) == {i \in list_tasks(ledger) : ~Task(ledger, i).archived}

Current == ledgers[config.ref]

\* Every command but those of cli_ledger works on the current ledger.
SetCurrent(ledger) == ledgers' = [ledgers EXCEPT ![config.ref] = ledger]

\* A change to the tasks there are.
EditCurrent(ledger) == SetCurrent(ledger) /\ UNCHANGED <<config, births, native>>

SetBundle(ledger, i, bundle) == [ledger EXCEPT !.bundle[i] = bundle]

SetTask(ledger, i, task) == [ledger EXCEPT !.bundle[i].task = task]

LedgerInit ==
    /\ config = [ref |-> MainLedger, parent_ref |-> MainLedger, next |-> 1]
    /\ ledgers = [l \in {MainLedger} |-> EmptyLedger]
    /\ births = 0 /\ commands = 0
    /\ native = {}

-----------------------------------------------------------------------------
(***************************************************************************)
(* Task ids and slugs.                                                     *)
(***************************************************************************)

Larger(a, b) == IF a > b THEN a ELSE b

\* Fault: the counter is taken at its word.
allocate_ledger_task_id_CounterOnly(existing, next) == next

\* The counter is only a lower bound: tasks that came from elsewhere may
\* already bear its number.
allocate_ledger_task_id(existing, next) == Larger(next, Max(existing \cup {0}) + 1)

unique_slug(ledger) ==
    Min((1..MaxId) \ {Task(ledger, i).slug : i \in visible_tasks(ledger)})

\* One task more in the current ledger, which gets the next id.  save_task
\* writes task.md into the directory of that id, whatever it held before.
NewTask(stage, parent) ==
    LET id == allocate_ledger_task_id(list_tasks(Current), config.next)
    IN  /\ births < MaxBirths /\ id <= MaxId
        /\ births' = births + 1
        /\ native' = native \cup {<<config.ref, id>>}
        /\ config' = [config EXCEPT !.next = id + 1]
        /\ SetCurrent(SetTask(Current, id,
               [uid |-> births + 1, slug |-> unique_slug(Current),
                status_stage |-> stage, archived |-> FALSE,
                parent_task_id |-> parent]))

create_task == NewTask("open", 0)

\* The parent must be done and not archived.
create_follow_up_task ==
    \E p \in visible_tasks(Current) :
        Task(Current, p).status_stage = "done" /\ NewTask("open", p)

\* A task that is done from the start.
record_completed_task == NewTask("done", 0)

-----------------------------------------------------------------------------
(***************************************************************************)
(* Changing a task of the current ledger.                                  *)
(***************************************************************************)

\* Everything that leads a task to done.
finish_task ==
    \E i \in visible_tasks(Current) :
        /\ Task(Current, i).status_stage = "open"
        /\ EditCurrent([Current EXCEPT !.bundle[i].task.status_stage = "done"])

add_todo ==
    \E i \in visible_tasks(Current) :
        /\ Task(Current, i).status_stage = "open" /\ ~Current.bundle[i].todos
        /\ EditCurrent([Current EXCEPT !.bundle[i].todos = TRUE])

\* A lock on the task that is left may refuse the switch; locks are not part
\* of this module, so the switch may happen whenever there is a task.
activate_task ==
    \E i \in visible_tasks(Current) :
        /\ Current.active # i
        /\ EditCurrent([Current EXCEPT !.active = i])

\* resolve_active_task also finds an archived task, by its id.
clear_active_task ==
    /\ Current.active \in list_tasks(Current)
    /\ EditCurrent([Current EXCEPT !.active = 0])

\* With --force an open task can be archived too; it then stays the active
\* one, while a done task is deactivated.
archive_task ==
    \E i \in visible_tasks(Current) :
        LET done == Task(Current, i).status_stage = "done"
        IN  /\ EditCurrent([Current EXCEPT
                   !.bundle[i].task.archived = TRUE,
                   !.active = IF done /\ @ = i THEN 0 ELSE @])

\* Fault: the slugs in use are not looked up.
slug_free_Unchecked(ledger, slug) == TRUE

\* The slug the task gets must not be borne by another visible task.
slug_free(ledger, slug) == \A i \in visible_tasks(ledger) : Task(ledger, i).slug # slug

unarchive_task ==
    \E i \in list_tasks(Current) \ visible_tasks(Current), slug \in 1..MaxId :
        /\ slug \in {Task(Current, i).slug, unique_slug(Current)}
        /\ slug_free(Current, slug)
        /\ EditCurrent([Current EXCEPT !.bundle[i].task.archived = FALSE,
                                      !.bundle[i].task.slug = slug])

-----------------------------------------------------------------------------
(***************************************************************************)
(* Requirements.  A requirement may be the task itself, and two tasks may  *)
(* require each other: nothing is checked.                                 *)
(***************************************************************************)

add_requirement ==
    \E i \in visible_tasks(Current), r \in list_tasks(Current) :
        /\ EditCurrent([Current EXCEPT !.bundle[i].reqs = @ \cup {r}])

-----------------------------------------------------------------------------
(***************************************************************************)
(* Releases and ledgers.                                                   *)
(***************************************************************************)

\* A boundary is a done task, archived or not; a version is used once.
tag_release ==
    \E v \in Versions, i \in list_tasks(Current) :
        /\ Task(Current, i).status_stage = "done"
        /\ Current.release[v] = 0
        /\ EditCurrent([Current EXCEPT !.release[v] = i])

WithLedger(l) ==
    ledgers' = [k \in DOMAIN ledgers \cup {l} |-> IF k = l THEN EmptyLedger ELSE ledgers[k]]

\* The new ledger is empty and becomes the current one; the counter is kept.
ledger_fork ==
    \E l \in Ledgers \ DOMAIN ledgers :
        /\ WithLedger(l)
        /\ config' = [config EXCEPT !.ref = l, !.parent_ref = config.ref]
        /\ UNCHANGED <<births, native>>

ledger_switch ==
    \E l \in Ledgers \ {config.ref} :
        /\ IF l \in DOMAIN ledgers THEN UNCHANGED ledgers ELSE WithLedger(l)
        /\ config' = [config EXCEPT !.ref = l]
        /\ UNCHANGED <<births, native>>

\* The directory is copied as it is, under the next id when the current
\* ledger has a task of that id.  Only then is the counter advanced.
AdoptedId(i) ==
    IF i \in list_tasks(Current)
    THEN allocate_ledger_task_id(list_tasks(Current), config.next) ELSE i

ledger_adopt ==
    \E l \in DOMAIN ledgers : \E i \in task_dirs(ledgers[l]) :
        LET id == AdoptedId(i)
        IN  /\ id <= MaxId /\ id \notin task_dirs(Current)
            /\ SetCurrent(SetBundle(Current, id, ledgers[l].bundle[i]))
            /\ config' = IF id = i THEN config ELSE [config EXCEPT !.next = id + 1]
            /\ UNCHANGED <<births, native>>

LedgerNext ==
    \/ create_task \/ create_follow_up_task \/ record_completed_task
    \/ finish_task \/ add_todo
    \/ activate_task \/ clear_active_task
    \/ archive_task \/ unarchive_task
    \/ add_requirement
    \/ tag_release
    \/ ledger_fork \/ ledger_switch \/ ledger_adopt
=============================================================================
