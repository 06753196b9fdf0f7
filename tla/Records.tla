------------------------------ MODULE Records ------------------------------
(***************************************************************************)
(* The records of one task under implementation, and the commands that     *)
(* write them: implementation run and lock, change and check records, code *)
(* reviews, todos, requirements, file links and handoffs, with the derived *)
(* indexes (services/implementation_flow.py, change_tracking.py,           *)
(* check_tracking.py, code_review.py, task_collections.py, file_links.py,  *)
(* handoff_lifecycle.py, run_store.py, storage/task_store.py, indexes.py). *)
(*                                                                         *)
(* A command reads the files it needs and then writes one file after the   *)
(* other.  It is a script: what it will write is fixed when it begins, and *)
(* each write is a step of its own, so that commands of two sessions can   *)
(* overlap and a command can die between two writes.                       *)
(***************************************************************************)
EXTENDS Naturals, FiniteSets, Sequences, FiniteSetsExt, TLC

CONSTANTS
    Sessions,       \* processes that run commands
    Tasks,          \* the other tasks, none of them done
    Paths,          \* files that may be linked
    MaxRecords,     \* bound: records of one kind
    MaxCommands,    \* bound: commands begun
    MaxCrashes      \* bound: commands that die

ASSUME RecordsAssumption ==
    MaxRecords \in Nat /\ MaxCommands \in Nat /\ MaxCrashes \in Nat

VARIABLES
    disk,       \* the files of the task directory
    index,      \* the sections of the index files that are about the task
    work,       \* by session, the writes its command has still to make
    overlapped, \* history: did two commands ever overlap?
    stale,      \* history: did a command die since the indexes were rebuilt?
    commands, crashes

vars == <<disk, index, work, overlapped, stale, commands, crashes>>

Ids == 1..MaxRecords

TaskRecord == [status_stage: {"approved", "implementing", "implemented"},
               latest_implementation_run: BOOLEAN, code_change_log_refs: SUBSET Ids]

\* There is one implementation run; worklog counts its entries.
TaskRunRecord == [status: {"none", "running", "finished"}, worklog: 0..MaxRecords,
                  change_refs: SUBSET Ids, check_refs: SUBSET Ids]

TaskTodo == [done: BOOLEAN, evidence: 0..MaxRecords]

TaskHandoffRecord == [status: {"open", "claimed", "closed", "cancelled"},
                      todo_id: 0..MaxRecords]

Partial(D, R) == UNION {[S -> R] : S \in SUBSET D}

Fields == {"task", "run", "todos", "handoffs", "reviews", "lock", "deps"}

Store == [task: TaskRecord, run: TaskRunRecord, lock: BOOLEAN,
          changes: SUBSET Ids, checks: SUBSET Ids, reviews: SUBSET Ids,
          todos: Partial(Ids, TaskTodo),
          reqs: Partial(Tasks, BOOLEAN),     \* is the requirement waived?
          links: Partial(Paths, BOOLEAN),    \* has the link a baseline?
          handoffs: Partial(Ids, TaskHandoffRecord)]

TypeOK == disk \in Store /\ DOMAIN index = Fields

\* f with the value v at k.
With(f, k, v) == [i \in DOMAIN f \cup {k} |-> IF i = k THEN v ELSE f[i]]

-----------------------------------------------------------------------------
(***************************************************************************)
(* The indexes: a summary of each part of the store.                       *)
(***************************************************************************)

todos_summary(todos) ==
    [total |-> Cardinality(DOMAIN todos),
     done |-> Cardinality({i \in DOMAIN todos : todos[i].done})]

handoffs_summary(handoffs) ==
    Cardinality({i \in DOMAIN handoffs : handoffs[i].status = "open"})

\* reviews_summary asks for a review of the task's latest run.
reviews_summary(d) == d.task.latest_implementation_run /\ d.reviews # {}

Summary(field, d) ==
    CASE field = "task" -> d.task.status_stage
      [] field = "run" -> d.run.status
      [] field = "todos" -> todos_summary(d.todos)
      [] field = "handoffs" -> handoffs_summary(d.handoffs)
      [] field = "reviews" -> reviews_summary(d)
      [] field = "lock" -> d.lock
      [] field = "deps" -> DOMAIN d.reqs

Summaries(d) == [f \in Fields |-> Summary(f, d)]

-----------------------------------------------------------------------------
(***************************************************************************)
(* The writes a script is made of.  A save writes its file and then brings *)
(* the section of the index that is about it up to date.  The lock's       *)
(* section and the requirements' are written by a rebuild alone.           *)
(***************************************************************************)

Put(part, value) == [do |-> "put", part |-> part, value |-> value]
Record(part, value) == [do |-> "record", part |-> part, value |-> value]
Reindex(fields) == [do |-> "reindex", part |-> fields]

save_task(task) == <<Put("task", task), Reindex({"task"})>>
save_run(run) == <<Put("run", run), Reindex({"run"})>>
save_todos(todos) == <<Put("todos", todos), Reindex({"todos"})>>
save_handoff(i, h) == <<Record("handoffs", [id |-> i, handoff |-> h]), Reindex({"handoffs"})>>
save_code_review(i) == <<Record("reviews", {i}), Reindex({"reviews"})>>
save_change(i) == <<Record("changes", {i})>>
save_check(i) == <<Record("checks", {i})>>
save_links(links) == <<Put("links", links)>>
save_requirements(reqs) == <<Put("reqs", reqs)>>
write_lock == <<[do |-> "write_lock"]>>
remove_lock == <<[do |-> "remove_lock"]>>
release_lock == <<[do |-> "release_lock"]>>

\* The small indexes, tasks.json and task_sidecars.json, in this order.
rebuild_v2_indexes ==
    <<Reindex({"deps"}), Reindex({"task"}),
      Reindex({"run", "todos", "handoffs", "reviews", "lock"}), [do |-> "rebuilt"]>>

Idle(s) == work[s] = <<>>

Begin(s, script) ==
    /\ Idle(s) /\ commands < MaxCommands
    /\ commands' = commands + 1
    /\ work' = [work EXCEPT ![s] = script]
    /\ overlapped' = (overlapped \/ \E t \in Sessions \ {s} : ~Idle(t))
    /\ UNCHANGED <<disk, index, stale, crashes>>

Init ==
    /\ disk = [task |-> [status_stage |-> "approved", latest_implementation_run |-> FALSE,
                         code_change_log_refs |-> {}],
               run |-> [status |-> "none", worklog |-> 0, change_refs |-> {}, check_refs |-> {}],
               lock |-> FALSE, changes |-> {}, checks |-> {}, reviews |-> {},
               todos |-> <<>>, reqs |-> <<>>, links |-> <<>>, handoffs |-> <<>>]
    /\ index = Summaries(disk)
    /\ work = [s \in Sessions |-> <<>>]
    /\ overlapped = FALSE /\ stale = FALSE
    /\ commands = 0 /\ crashes = 0

-----------------------------------------------------------------------------
(***************************************************************************)
(* Runs and locks.                                                         *)
(***************************************************************************)

ensure_dependencies_done == \A t \in DOMAIN disk.reqs : disk.reqs[t]

\* A running run that holds the lock: what every record of work asks for.
implementation_mutation_decision ==
    /\ disk.task.status_stage \in {"approved", "implementing"}
    /\ disk.task.latest_implementation_run
    /\ disk.run.status = "running" /\ disk.lock

start_implementation(s) ==
    /\ disk.task.status_stage = "approved" /\ ensure_dependencies_done
    /\ ~disk.lock /\ disk.run.status = "none"
    /\ Begin(s, save_run([disk.run EXCEPT !.status = "running"]) \o write_lock
                \o <<[do |-> "enter"], Reindex({"task"})>> \o rebuild_v2_indexes)

\* After a lock was broken.
resume_implementation(s) ==
    /\ disk.task.status_stage \in {"approved", "implementing"}
    /\ disk.task.latest_implementation_run /\ disk.run.status = "running"
    /\ ~disk.lock /\ ensure_dependencies_done
    /\ Begin(s, write_lock \o save_task([disk.task EXCEPT !.status_stage = "implementing"])
                \o rebuild_v2_indexes)

finish_implementation(s) ==
    /\ disk.task.latest_implementation_run /\ disk.run.status = "running"
    /\ \A i \in DOMAIN disk.todos : disk.todos[i].done
    /\ LET implemented == [disk.task EXCEPT !.status_stage = "implemented"]
       IN  Begin(s, save_run([disk.run EXCEPT !.status = "finished"]) \o save_task(implemented)
                    \o release_lock \o save_task(implemented) \o rebuild_v2_indexes)

\* Fault: the indexes go on showing the lock.
break_lock_NoRebuild(s) == disk.lock /\ Begin(s, remove_lock)

break_lock(s) == disk.lock /\ Begin(s, remove_lock \o rebuild_v2_indexes)

-----------------------------------------------------------------------------
(***************************************************************************)
(* Records of work: log entries, deviations and artifacts; changes; the    *)
(* checks that run_implementation_command records; code reviews.           *)
(***************************************************************************)

next_project_id(existing) == Max(existing \cup {0}) + 1

log_implementation(s) ==
    /\ implementation_mutation_decision /\ disk.run.worklog < MaxRecords
    /\ Begin(s, save_run([disk.run EXCEPT !.worklog = @ + 1]))

\* Fault: the run refers to the record before it is saved.
add_change_script_Late(i) ==
    save_run([disk.run EXCEPT !.change_refs = @ \cup {i}]) \o save_change(i)
    \o save_task([disk.task EXCEPT !.code_change_log_refs = @ \cup {i}])

\* The record is saved before anything refers to it.
add_change_script(i) ==
    save_change(i) \o save_run([disk.run EXCEPT !.change_refs = @ \cup {i}])
    \o save_task([disk.task EXCEPT !.code_change_log_refs = @ \cup {i}])

add_change(s) ==
    LET i == next_project_id(disk.changes)
    IN  implementation_mutation_decision /\ i \in Ids /\ Begin(s, add_change_script(i))

add_check(s) ==
    LET i == next_project_id(disk.checks)
    IN  /\ implementation_mutation_decision /\ i \in Ids
        /\ Begin(s, save_check(i)
                    \o save_run([disk.run EXCEPT !.check_refs = @ \cup {i}])
                    \o save_task(disk.task))

record_code_review(s) ==
    LET i == next_project_id(disk.reviews)
    IN  /\ disk.task.status_stage \in {"implementing", "implemented"}
        /\ disk.task.latest_implementation_run /\ i \in Ids
        /\ Begin(s, save_code_review(i) \o save_task(disk.task))

-----------------------------------------------------------------------------
(***************************************************************************)
(* Todos, requirements and file links: collections that are saved whole,   *)
(* in one write here.  save_todos and its like write file after file and   *)
(* then remove the files they do not know; but a command that is alone     *)
(* changes one todo or one link and writes the others back as they are, so *)
(* that half-way the collection is the old one or the new one, and of the  *)
(* collections of commands that overlap no property speaks.  Requirements  *)
(* alone can be half-way, some waivers dropped and others not; only the    *)
(* refusal of a start depends on that.                                     *)
(***************************************************************************)

todo_add_decision ==
    \/ disk.task.status_stage = "approved"
    \/ disk.task.status_stage = "implementing" /\ disk.lock

add_todo(s) ==
    LET i == next_project_id(DOMAIN disk.todos)
    IN  /\ todo_add_decision /\ i \in Ids
        /\ Begin(s, save_todos(With(disk.todos, i, [done |-> FALSE, evidence |-> 0]))
                    \o save_task(disk.task))

\* Fault: the evidence is that of the last completion.
ToggledTodo_Last(todo, done, evidence) ==
    [done |-> done, evidence |-> IF done /\ evidence THEN 1 ELSE 0]

\* Reopening a todo keeps the evidence it has.
ToggledTodo(todo, done, evidence) ==
    [done |-> done, evidence |-> IF done /\ evidence THEN todo.evidence + 1 ELSE todo.evidence]

set_todo_done(s) ==
    \E i \in DOMAIN disk.todos, done, evidence \in BOOLEAN :
        LET todo == ToggledTodo(disk.todos[i], done, evidence)
        IN  /\ todo # disk.todos[i] /\ todo.evidence <= MaxRecords
            /\ Begin(s, save_todos([disk.todos EXCEPT ![i] = todo]) \o save_task(disk.task))

SaveRequirements(s, reqs) ==
    Begin(s, save_requirements(reqs) \o save_task(disk.task) \o rebuild_v2_indexes)

\* Both rebuild the collection from the ids alone: every waiver is lost.
add_requirement(s) ==
    \E t \in Tasks : SaveRequirements(s, [r \in DOMAIN disk.reqs \cup {t} |-> FALSE])

remove_requirement(s) ==
    \E t \in DOMAIN disk.reqs : SaveRequirements(s, [r \in DOMAIN disk.reqs \ {t} |-> FALSE])

\* A user's waiver also adds the requirement that it waives.
waive_requirement(s) ==
    \E t \in Tasks : SaveRequirements(s, With(disk.reqs, t, TRUE))

SaveLinks(s, links) ==
    Begin(s, save_links(links) \o save_task(disk.task) \o rebuild_v2_indexes)

\* Without a word about it a new link gets a baseline and an old one keeps
\* what it has.
LinkBaseline(path, snapshot) ==
    IF path \in DOMAIN disk.links THEN disk.links[path] \/ snapshot = "yes"
    ELSE snapshot # "no"

add_file_link(s) ==
    \E path \in Paths, snapshot \in {"yes", "no", "unsaid"} :
        SaveLinks(s, With(disk.links, path, LinkBaseline(path, snapshot)))

remove_file_link(s) ==
    \E path \in DOMAIN disk.links :
        SaveLinks(s, [p \in DOMAIN disk.links \ {path} |-> disk.links[p]])

Refreshed(path) == [disk.links EXCEPT ![path] = TRUE]

refresh_file_baseline(s) ==
    \E path \in DOMAIN disk.links : SaveLinks(s, Refreshed(path))

-----------------------------------------------------------------------------
(***************************************************************************)
(* Handoffs.  A handoff may focus on a todo, which must exist.  No command *)
(* gives one a lock policy or a source run, so that claiming one never     *)
(* moves the lock.                                                         *)
(***************************************************************************)

create_handoff(s) ==
    LET i == next_project_id(DOMAIN disk.handoffs)
    IN  \E t \in DOMAIN disk.todos \cup {0} :
            /\ i \in Ids
            /\ Begin(s, save_handoff(i, [status |-> "open", todo_id |-> t]))

SetHandoff(s, from, status) ==
    \E i \in DOMAIN disk.handoffs :
        /\ disk.handoffs[i].status \in from
        /\ Begin(s, save_handoff(i, [disk.handoffs[i] EXCEPT !.status = status]))

claim_handoff(s) == SetHandoff(s, {"open"}, "claimed")

close_handoff(s) == SetHandoff(s, {"open", "claimed"}, "closed")

cancel_handoff(s) == SetHandoff(s, {"open"}, "cancelled")

reindex(s) == Begin(s, rebuild_v2_indexes)

-----------------------------------------------------------------------------
(***************************************************************************)
(* The writes.  _acquire_lock is content with a lock that already names    *)
(* its run, and fails when one appears between its look and its exclusive  *)
(* create; _release_lock fails when there is none.  A command that fails   *)
(* ends there, with what it wrote so far on disk.                          *)
(***************************************************************************)

Done(s) == work' = [work EXCEPT ![s] = Tail(@)]
Fail(s) == work' = [work EXCEPT ![s] = <<>>]

Doing(s, do) == ~Idle(s) /\ Head(work[s]).do = do

WriteFile(s) ==
    /\ \/ /\ Doing(s, "put")
          /\ disk' = [disk EXCEPT ![Head(work[s]).part] = Head(work[s]).value]
       \/ /\ Doing(s, "record")
          /\ LET w == Head(work[s])
             IN  disk' = [disk EXCEPT ![w.part] =
                             IF w.part = "handoffs" THEN With(@, w.value.id, w.value.handoff)
                             ELSE @ \cup w.value]
    /\ Done(s)
    /\ UNCHANGED <<index, overlapped, stale, commands, crashes>>

\* _start_implementation_for_task reads the task again before it saves it.
EnterStage(s) ==
    /\ Doing(s, "enter")
    /\ disk' = [disk EXCEPT !.task.status_stage = "implementing",
                            !.task.latest_implementation_run = TRUE]
    /\ Done(s)
    /\ UNCHANGED <<index, overlapped, stale, commands, crashes>>

WriteLock(s) ==
    /\ Doing(s, "write_lock")
    /\ disk' = [disk EXCEPT !.lock = TRUE]
    /\ Done(s) \/ (disk.lock /\ Fail(s))
    /\ UNCHANGED <<index, overlapped, stale, commands, crashes>>

RemoveLock(s) ==
    /\ Doing(s, "remove_lock") \/ Doing(s, "release_lock")
    /\ disk' = [disk EXCEPT !.lock = FALSE]
    /\ IF Doing(s, "release_lock") /\ ~disk.lock THEN Fail(s) ELSE Done(s)
    /\ UNCHANGED <<index, overlapped, stale, commands, crashes>>

WriteIndex(s) ==
    /\ Doing(s, "reindex")
    /\ index' = [f \in Fields |->
                    IF f \in Head(work[s]).part THEN Summary(f, disk) ELSE index[f]]
    /\ Done(s)
    /\ UNCHANGED <<disk, overlapped, stale, commands, crashes>>

Rebuilt(s) ==
    /\ Doing(s, "rebuilt")
    /\ stale' = FALSE
    /\ Done(s)
    /\ UNCHANGED <<disk, index, overlapped, commands, crashes>>

Crash(s) ==
    /\ ~Idle(s) /\ crashes < MaxCrashes
    /\ crashes' = crashes + 1
    /\ Fail(s)
    /\ stale' = TRUE
    /\ UNCHANGED <<disk, index, overlapped, commands>>

Command(s) ==
    \/ start_implementation(s) \/ resume_implementation(s)
    \/ finish_implementation(s) \/ break_lock(s)
    \/ log_implementation(s) \/ add_change(s) \/ add_check(s) \/ record_code_review(s)
    \/ add_todo(s) \/ set_todo_done(s)
    \/ add_requirement(s) \/ remove_requirement(s) \/ waive_requirement(s)
    \/ add_file_link(s) \/ remove_file_link(s) \/ refresh_file_baseline(s)
    \/ create_handoff(s) \/ claim_handoff(s) \/ close_handoff(s) \/ cancel_handoff(s)
    \/ reindex(s)

Next ==
    \E s \in Sessions :
        \/ Command(s)
        \/ WriteFile(s) \/ EnterStage(s) \/ WriteLock(s) \/ RemoveLock(s)
        \/ WriteIndex(s) \/ Rebuilt(s)
        \/ Crash(s)

Spec == Init /\ [][Next]_vars

\* Sessions and paths are interchangeable.
Symmetry == Permutations(Sessions) \cup Permutations(Paths)

-----------------------------------------------------------------------------
(***************************************************************************)
(* Properties.                                                             *)
(***************************************************************************)

\* Whatever overlaps and wherever a command dies, the change and check
\* records that the run and the task refer to are on disk.  The todo that a
\* handoff focuses on is there too, as long as no two commands overlap:
\* save_todos removes the todos it does not know.
RefsResolve ==
    /\ disk.run.change_refs \cup disk.task.code_change_log_refs \subseteq disk.changes
    /\ disk.run.check_refs \subseteq disk.checks
    /\ ~overlapped =>
          \A i \in DOMAIN disk.handoffs : disk.handoffs[i].todo_id \in DOMAIN disk.todos \cup {0}

\* With one writer the indexes agree with the store whenever no command is
\* running, unless one died since they were last rebuilt.
IndexFresh ==
    (\A s \in Sessions : Idle(s)) /\ ~overlapped /\ ~stale => index = Summaries(disk)

Kept ==
    /\ DOMAIN disk.todos \subseteq DOMAIN disk'.todos
    /\ \A i \in DOMAIN disk.todos : disk'.todos[i].evidence >= disk.todos[i].evidence
    /\ disk.run.change_refs \subseteq disk'.run.change_refs
    /\ disk.run.check_refs \subseteq disk'.run.check_refs
    /\ disk'.run.worklog >= disk.run.worklog
    /\ \A p \in DOMAIN disk.links \cap DOMAIN disk'.links : disk.links[p] => disk'.links[p]
    /\ Cardinality(DOMAIN disk.links \ DOMAIN disk'.links) <= 1

\* With one writer no write loses a todo, its evidence, what the run refers
\* to, a baseline, or more than the one link that is being removed.
NothingLostAlone == [][~overlapped => Kept]_vars
=============================================================================
