--------------------------- MODULE TaskLifecycle ---------------------------
(***************************************************************************)
(* The life of one task: its record, plan versions, planning questions,    *)
(* runs and lock file, and every command of the services layer that moves  *)
(* them.  A command runs to its end before the next one starts; module     *)
(* RunLock opens the commands that take and give up the lock and           *)
(* interleaves their file operations.                                      *)
(*                                                                         *)
(* A command that raises before its first write changes nothing and is not *)
(* an action.  One that raises after some writes (the finish commands, at  *)
(* their trailing _release_lock) is an action that leaves those writes.    *)
(*                                                                         *)
(* Abstracted: texts, names and timestamps; the criteria, todo-count,      *)
(* lint and actor checks of plan approval, the requirements gate and the   *)
(* workspace-snapshot gate, each of which may let a command through at any *)
(* time here; at most one representative mandatory criterion per plan      *)
(* and one representative todo list per task.                              *)
(***************************************************************************)
EXTENDS Domain, Sequences, FiniteSets

CONSTANTS
    Questions,  \* planning questions that may be asked
    Required,   \* those asked with required_for_plan
    Answers,    \* answer texts
    WithoutCriteria, \* the plan versions that have no mandatory criterion
    MaxPlans,   \* bound: plan versions per task
    MaxRuns     \* bound: runs per task

ASSUME ConstantsAssumption ==
    /\ Required \subseteq Questions
    /\ Answers \cap {"absent", "open", "dismissed"} = {}
    /\ MaxPlans \in Nat
    /\ MaxRuns \in Nat

VARIABLES
    task,       \* task.md
    plans,      \* plans/plan-v*.md, by version
    runs,       \* runs/run-*.md, by id
    lock,       \* lock.yaml, NoLock when there is no file
    questions,  \* questions/q-*.md
    todos       \* todos/: the blocking plan todos, all together

vars == <<task, plans, runs, lock, questions, todos>>

-----------------------------------------------------------------------------
(* Records *)

TaskRecord ==
    [status_stage: StoredStages,
     archived: BOOLEAN,
     latest_planning_run: 0..MaxRuns,
     latest_implementation_run: 0..MaxRuns,
     latest_validation_run: 0..MaxRuns,
     latest_plan_version: 0..MaxPlans,
     accepted_plan_version: 0..MaxPlans]

QuestionStates == {"absent", "open", "dismissed"} \cup Answers

\* What based_on_answer_hash digests: the answered questions with their
\* answers; {} is the hash None.
Snapshots == SUBSET (Questions \X Answers)

\* basis is the answer snapshot of a plan generated "after_questions".
PlanRecord == [status: PlanStatuses, basis: Snapshots]

\* satisfied: the latest check of the mandatory criterion in a validation run
\* is a pass or a user waiver.  A validation run's result is "passed" or
\* "failed" exactly when its status is "finished" or "failed", so it is not a
\* field.
TaskRunRecord ==
    [run_type: RunTypes,
     status: RunStatuses,
     based_on_plan_version: 0..MaxPlans,
     based_on_implementation_run: 0..MaxRuns,
     satisfied: BOOLEAN]

TaskLock == [run_type: RunTypes, run_id: 1..MaxRuns, expired: BOOLEAN]

\* Every record read back is one the commands write: no stored "planning" or
\* "validating" stage, ids within the files that exist.
TypeOK ==
    /\ task \in TaskRecord
    /\ plans \in Seq(PlanRecord) /\ Len(plans) <= MaxPlans
    /\ runs \in Seq(TaskRunRecord) /\ Len(runs) <= MaxRuns
    /\ lock \in TaskLock \cup {NoLock}
    /\ questions \in [Questions -> QuestionStates]
    /\ todos \in {"none", "open", "done"}

-----------------------------------------------------------------------------
(* Queries *)

RunIds == 1..Len(runs)
Versions == 1..Len(plans)

running_runs == {r \in RunIds : runs[r].status = "running"}

\* r names a run record of this type and status; r = 0 names none.
RunIs(r, type, statuses) ==
    r \in RunIds /\ runs[r].run_type = type /\ runs[r].status \in statuses

\* The run the task record names as the latest of a type.
latest_run(type) ==
    CASE type = "planning" -> task.latest_planning_run
      [] type = "implementation" -> task.latest_implementation_run
      [] type = "validation" -> task.latest_validation_run

\* The accepted version is recorded and its plan record says accepted.
accepted_plan_record ==
    /\ task.accepted_plan_version \in Versions
    /\ plans[task.accepted_plan_version].status = "accepted"

latest_plan_is(status) == plans # <<>> /\ plans[Len(plans)].status = status

required_open_questions == {q \in Required : questions[q] = "open"}

required_answered_questions == {q \in Required : questions[q] \in Answers}

answer_snapshot ==
    {<<q, questions[q]>> : q \in {x \in Questions : questions[x] \in Answers}}

stale_answers(plan) ==
    required_answered_questions # {} /\ plan.basis # answer_snapshot

\* todo gate of implement finish and of validate finish --result passed
todos_complete == todos # "open"

-----------------------------------------------------------------------------
(* Writes shared by several commands *)

NewRun(type, status, impl) ==
    [run_type |-> type,
     status |-> status,
     based_on_plan_version |-> IF task.accepted_plan_version # 0
                               THEN task.accepted_plan_version
                               ELSE task.latest_plan_version,
     based_on_implementation_run |-> impl,
     satisfied |-> FALSE]

\* Fault: the search for running runs is left out.
CanStartRun_AnyRun == lock = NoLock /\ Len(runs) < MaxRuns

\* No lock file and no running run; the next run id is free.
CanStartRun == lock = NoLock /\ running_runs = {} /\ Len(runs) < MaxRuns

\* Allocates the run id, saves the running run and takes the lock.
start_run(type, impl) ==
    /\ CanStartRun
    /\ runs' = Append(runs, NewRun(type, "running", impl))
    /\ lock' = LockFor(type, Len(runs) + 1)

\* Removes the lock, expired or not, if it is the run's; otherwise the
\* command raises here, after its other writes, and leaves the lock file.
release_lock(type, r) ==
    lock' = IF lock.run_type = type /\ lock.run_id = r THEN NoLock ELSE lock

AppendPlan(basis) == Append(plans, [status |-> "proposed", basis |-> basis])

-----------------------------------------------------------------------------
(* Planning *)

Init ==
    /\ task = [status_stage |-> "draft", archived |-> FALSE,
               latest_planning_run |-> 0, latest_implementation_run |-> 0,
               latest_validation_run |-> 0, latest_plan_version |-> 0,
               accepted_plan_version |-> 0]
    /\ plans = <<>>
    /\ runs = <<>>
    /\ lock = NoLock
    /\ questions = [q \in Questions |-> "absent"]
    /\ todos = "none"

start_planning ==
    /\ ~task.archived
    /\ task.status_stage \in {"draft", "plan_review"}
    /\ start_run("planning", 0)
    /\ task' = [task EXCEPT !.latest_planning_run = Len(runs) + 1]
    /\ UNCHANGED <<plans, questions, todos>>

revise_plan ==
    /\ plan_revise_decision(task.status_stage, lock)
    /\ start_planning

\* The plan text may claim generation_reason "after_questions" or not.
propose_plan ==
    /\ ~task.archived
    /\ task.latest_planning_run \in RunIds
    /\ ~lock.expired
    /\ LET r == task.latest_planning_run IN
       /\ plan_propose_decision(task.status_stage, lock, r, runs[r])
       /\ Len(plans) < MaxPlans
       /\ \E basis \in {{}, answer_snapshot} : plans' = AppendPlan(basis)
       /\ runs' = [runs EXCEPT ![r] = WithStatus(@, "finished")]
       /\ task' = [task EXCEPT !.latest_plan_version = Len(plans) + 1,
                               !.status_stage = "plan_review"]
       /\ release_lock("planning", r)
    /\ UNCHANGED <<questions, todos>>

\* start_planning followed by propose_plan in one command: plan amend, and
\* plan upsert --auto-revise.  The lock is taken and given back.
amend_plan ==
    /\ ~task.archived
    /\ plan_revise_decision(task.status_stage, lock)
    /\ plans # <<>>
    /\ CanStartRun
    /\ Len(plans) < MaxPlans
    /\ \E basis \in {{}, answer_snapshot} : plans' = AppendPlan(basis)
    /\ runs' = Append(runs, NewRun("planning", "finished", 0))
    /\ task' = [task EXCEPT !.latest_planning_run = Len(runs) + 1,
                            !.latest_plan_version = Len(plans) + 1,
                            !.status_stage = "plan_review"]
    /\ UNCHANGED <<lock, questions, todos>>

\* plan regenerate --from-answers.  The command tests neither the stage nor
\* the archive mark.  A running run is tolerated only if it is the latest
\* planning run, either with its own live lock or with no lock file at all.
regenerate_plan_from_answers(allow_open_questions) ==
    LET r == task.latest_planning_run
        marked == [v \in Versions |->
                     IF v = Len(plans) /\ plans[v].status = "proposed"
                     THEN WithStatus(plans[v], "superseded") ELSE plans[v]]
    IN
    /\ required_open_questions = {} \/ allow_open_questions
    /\ required_answered_questions # {} \/ plans # <<>>
    /\ running_runs # {} =>
          /\ running_runs = {r}
          /\ runs[r].run_type = "planning"
          /\ lock = NoLock \/ lock_matches_run(lock, "planning", r)
    /\ Len(plans) < MaxPlans
    /\ plans' = Append(marked, [status |-> "proposed", basis |-> answer_snapshot])
    /\ runs' = [x \in RunIds |-> IF x \in running_runs
                                 THEN WithStatus(runs[x], "finished")
                                 ELSE runs[x]]
    /\ task' = [task EXCEPT !.latest_plan_version = Len(plans) + 1,
                            !.status_stage = "plan_review"]
    /\ lock' = IF running_runs # {} THEN NoLock ELSE lock
    /\ UNCHANGED <<questions, todos>>

\* plan upsert: regenerate when asked to or when answers are stale, else
\* propose, opening a revision first with --auto-revise.
upsert_plan(from_answers, allow_open_questions) ==
    LET stale == IF plans = <<>> THEN required_answered_questions # {}
                 ELSE stale_answers(plans[Len(plans)])
    IN
    /\ ~task.archived
    /\ required_open_questions = {} \/ allow_open_questions
    /\ \/ /\ from_answers \/ stale
          /\ regenerate_plan_from_answers(allow_open_questions)
       \/ /\ ~from_answers /\ ~stale
          /\ propose_plan \/ amend_plan

\* Fault: any version may be approved, whatever became of it.
approve_plan_AnyStatus(v, allow_open_questions, new_todos) ==
    /\ ~task.archived
    /\ plan_approve_decision(task.status_stage, lock)
    /\ running_runs = {}
    /\ plans' = [w \in Versions |->
                   [plans[w] EXCEPT !.status = IF w = v THEN "accepted" ELSE "superseded"]]
    /\ task' = [task EXCEPT !.accepted_plan_version = v,
                            !.status_stage = "approved"]
    /\ UNCHANGED <<runs, lock, questions, todos>>

\* new_todos: the plan has todos the task has not, and they are materialized.
approve_plan(v, allow_open_questions, new_todos) ==
    /\ ~task.archived
    /\ plan_approve_decision(task.status_stage, lock)
    /\ running_runs = {}
    /\ required_open_questions = {} \/ allow_open_questions
    /\ plans[v].status = "proposed"
    /\ ~stale_answers(plans[v])
    /\ plans' = [w \in Versions |->
                   IF w = v THEN WithStatus(plans[w], "accepted")
                   ELSE IF plans[w].status = "rejected" THEN plans[w]
                   ELSE WithStatus(plans[w], "superseded")]
    /\ task' = [task EXCEPT !.accepted_plan_version = v,
                            !.status_stage = "approved"]
    /\ todos' = IF new_todos THEN "open" ELSE todos
    /\ UNCHANGED <<runs, lock, questions>>

\* Fault: the stage is not looked at.
reject_plan_AnyStage ==
    /\ ~task.archived /\ lock = NoLock /\ plans # <<>>
    /\ plans' = [plans EXCEPT ![Len(plans)] = WithStatus(@, "rejected")]
    /\ task' = [task EXCEPT !.status_stage = "plan_review"]
    /\ UNCHANGED <<runs, lock, questions, todos>>

reject_plan ==
    /\ ~task.archived
    /\ plan_approve_decision(task.status_stage, lock)
    /\ plans # <<>>
    /\ plans' = [plans EXCEPT ![Len(plans)] = WithStatus(@, "rejected")]
    /\ task' = [task EXCEPT !.status_stage = "plan_review"]
    /\ UNCHANGED <<runs, lock, questions, todos>>

add_question(q) ==
    /\ ~task.archived /\ ~lock.expired
    /\ question_add_decision(task.status_stage, lock)
    /\ questions[q] = "absent"
    /\ questions' = [questions EXCEPT ![q] = "open"]
    /\ UNCHANGED <<task, plans, runs, lock, todos>>

\* Open, answered and dismissed questions alike take a (new) answer.
answer_question(q, a) ==
    /\ ~task.archived /\ ~lock.expired
    /\ question_mutation_decision(task.status_stage, lock)
    /\ questions[q] # "absent"
    /\ questions' = [questions EXCEPT ![q] = a]
    /\ UNCHANGED <<task, plans, runs, lock, todos>>

dismiss_question(q) ==
    /\ ~task.archived /\ ~lock.expired
    /\ question_mutation_decision(task.status_stage, lock)
    /\ questions[q] # "absent"
    /\ questions' = [questions EXCEPT ![q] = "dismissed"]
    /\ UNCHANGED <<task, plans, runs, lock, todos>>

-----------------------------------------------------------------------------
(* Implementation *)

\* The writes of implement start and implement restart.
BeginImplementation ==
    /\ ~task.archived
    /\ accepted_plan_record
    /\ start_run("implementation", 0)
    /\ task' = [task EXCEPT !.latest_implementation_run = Len(runs) + 1,
                            !.status_stage = "implementing"]
    /\ UNCHANGED <<plans, questions, todos>>

start_implementation ==
    /\ task.status_stage \in IMPLEMENTABLE_TASK_STAGES
    /\ BeginImplementation

restart_implementation ==
    /\ task.status_stage = "failed_validation"
    /\ RunIs(task.latest_validation_run, "validation", {"failed"})
    /\ RunIs(task.latest_implementation_run, "implementation", RunStatuses)
    /\ BeginImplementation

\* Takes the lock again for a running implementation run that lost it.  With
\* --repair-expired-lock the run's own expired lock is removed first.
resume_implementation(r, repair_expired_lock) ==
    /\ ~task.archived
    /\ task.status_stage \in {"approved", "implementing"}
    /\ accepted_plan_record
    /\ RunIs(r, "implementation", {"running"})
    /\ \/ lock = NoLock
       \/ /\ repair_expired_lock /\ lock.expired
          /\ lock.run_id = r /\ lock.run_type = "implementation"
    /\ lock' = LockFor("implementation", r)
    /\ task' = [task EXCEPT !.latest_implementation_run = r,
                            !.status_stage = "implementing"]
    /\ UNCHANGED <<plans, runs, questions, todos>>

\* Fault: the stage is left to the trailing release, which may raise first.
finish_implementation_LateStage ==
    LET r == task.latest_implementation_run IN
    /\ ~task.archived
    /\ RunIs(r, "implementation", {"running"})
    /\ todos_complete
    /\ runs' = [runs EXCEPT ![r] = WithStatus(@, "finished")]
    /\ task' = IF lock.run_id = r THEN [task EXCEPT !.status_stage = "implemented"]
               ELSE task
    /\ release_lock("implementation", r)
    /\ UNCHANGED <<plans, questions, todos>>

\* Neither the stage nor the lock is tested before the writes; without the
\* run's lock the command raises at its end and the writes stay.
finish_implementation ==
    LET r == task.latest_implementation_run IN
    /\ ~task.archived
    /\ RunIs(r, "implementation", {"running"})
    /\ todos_complete
    /\ runs' = [runs EXCEPT ![r] = WithStatus(@, "finished")]
    /\ task' = [task EXCEPT !.status_stage = "implemented"]
    /\ release_lock("implementation", r)
    /\ UNCHANGED <<plans, questions, todos>>

set_todo_done(done) ==
    /\ ~task.archived /\ ~lock.expired
    /\ todo_toggle_decision(task.status_stage, lock)
    /\ todos # "none"
    /\ todos' = IF done THEN "done" ELSE "open"
    /\ UNCHANGED <<task, plans, runs, lock, questions>>

-----------------------------------------------------------------------------
(* Validation *)

\* Fault: the active stage is stored, as implementation does.
start_validation_StoresStage ==
    /\ ~task.archived
    /\ task.status_stage = "implemented"
    /\ start_run("validation", task.latest_implementation_run)
    /\ task' = [task EXCEPT !.latest_validation_run = Len(runs) + 1,
                            !.status_stage = "validating"]
    /\ UNCHANGED <<plans, questions, todos>>

start_validation ==
    /\ ~task.archived
    /\ task.status_stage = "implemented"
    /\ RunIs(task.latest_implementation_run, "implementation", {"finished"})
    /\ start_run("validation", task.latest_implementation_run)
    /\ task' = [task EXCEPT !.latest_validation_run = Len(runs) + 1]
    /\ UNCHANGED <<plans, questions, todos>>

\* validate check with status pass or another one; validate waive is a pass.
add_validation_check(pass) ==
    LET r == task.latest_validation_run IN
    /\ ~task.archived /\ ~lock.expired
    /\ RunIs(r, "validation", {"running"})
    /\ validation_check_decision(task.status_stage, lock, r, runs[r])
    /\ task.accepted_plan_version \in Versions
    /\ runs' = [runs EXCEPT ![r].satisfied = pass]
    /\ UNCHANGED <<task, plans, lock, questions, todos>>

\* Fault: the criteria are not looked at.
can_finish_passed_NoCriteria(r) ==
    /\ accepted_plan_record
    /\ task.latest_implementation_run \in RunIds
    /\ runs[task.latest_implementation_run].status = "finished"
    /\ todos_complete

\* can_finish_passed of the gate report for validation run r.
can_finish_passed(r) ==
    /\ accepted_plan_record
    /\ task.latest_implementation_run \in RunIds
    /\ runs[task.latest_implementation_run].status = "finished"
    /\ task.accepted_plan_version \in WithoutCriteria \/ runs[r].satisfied
    /\ todos_complete

\* Fault: an ended run is finished again.
finish_validation_AnyRun(run_status) ==
    LET r == task.latest_validation_run IN
    /\ ~task.archived
    /\ RunIs(r, "validation", RunStatuses)
    /\ runs' = [runs EXCEPT ![r] = WithStatus(@, run_status)]
    /\ task' = [task EXCEPT !.status_stage = IF run_status = "finished"
                                             THEN "done" ELSE "failed_validation"]
    /\ release_lock("validation", r)
    /\ UNCHANGED <<plans, questions, todos>>

\* As in finish_implementation, the lock is only looked at by the trailing
\* release.  The run's status is the source's run_status.
finish_validation(run_status) ==
    LET r == task.latest_validation_run IN
    /\ ~task.archived
    /\ RunIs(r, "validation", {"running"})
    /\ run_status = "finished" => can_finish_passed(r)
    /\ runs' = [runs EXCEPT ![r] = WithStatus(@, run_status)]
    /\ task' = [task EXCEPT !.status_stage = IF run_status = "finished"
                                             THEN "done" ELSE "failed_validation"]
    /\ release_lock("validation", r)
    /\ UNCHANGED <<plans, questions, todos>>

-----------------------------------------------------------------------------
(* Locks and repair *)

\* Two hours after it was written the lock's lease is over.
LockExpires ==
    /\ lock # NoLock /\ ~lock.expired
    /\ lock' = [lock EXCEPT !.expired = TRUE]
    /\ UNCHANGED <<task, plans, runs, questions, todos>>

\* The run the lock was for stays "running".
break_lock ==
    /\ lock # NoLock
    /\ lock' = NoLock
    /\ UNCHANGED <<task, plans, runs, questions, todos>>

repair_orphaned_planning_run(r) ==
    /\ RunIs(r, "planning", {"running"})
    /\ lock = NoLock
    /\ runs' = [runs EXCEPT ![r] = WithStatus(@, "finished")]
    /\ UNCHANGED <<task, plans, lock, questions, todos>>

-----------------------------------------------------------------------------
(* Cancellation and archive *)

\* Whatever lock there is goes; a running run stays "running".
cancel_task ==
    /\ ~task.archived
    /\ require_transition(task.status_stage, "cancelled")
    /\ lock' = NoLock
    /\ task' = [task EXCEPT !.status_stage = "cancelled"]
    /\ UNCHANGED <<plans, runs, questions, todos>>

validation_run_failed ==
    RunIs(task.latest_validation_run, "validation", {"failed"})

implementation_run_finished ==
    RunIs(task.latest_implementation_run, "implementation", {"finished"})

\* The furthest stage the records give evidence of.
infer_uncancel_target ==
    IF validation_run_failed /\ accepted_plan_record THEN "failed_validation"
    ELSE IF implementation_run_finished THEN "implemented"
    ELSE IF accepted_plan_record THEN "approved"
    ELSE IF latest_plan_is("proposed") THEN "plan_review" ELSE "draft"

\* The evidence --to STAGE has to show.
validate_uncancel_target(target) ==
    \/ target = "draft"
    \/ target = "plan_review" /\ latest_plan_is("proposed")
    \/ target = "approved" /\ accepted_plan_record
    \/ target = "implemented" /\ implementation_run_finished
    \/ target = "failed_validation" /\ accepted_plan_record /\ validation_run_failed

\* to is the option --to, "none" when it is not given.
uncancel_task(to) ==
    LET target == IF to = "none" THEN infer_uncancel_target ELSE to IN
    /\ ~task.archived
    /\ task.status_stage = "cancelled"
    /\ lock = NoLock
    /\ validate_uncancel_target(target)
    /\ task' = [task EXCEPT !.status_stage = target]
    /\ UNCHANGED <<plans, runs, lock, questions, todos>>

archive_task(force) ==
    /\ ~task.archived
    /\ lock = NoLock \/ lock.expired
    /\ task.status_stage \notin ACTIVE_TASK_STAGES
    /\ task.status_stage \in {"done", "cancelled"} \/ force
    /\ task' = [task EXCEPT !.archived = TRUE]
    /\ UNCHANGED <<plans, runs, lock, questions, todos>>

unarchive_task(reopen_for_work) ==
    /\ task.archived
    /\ task.status_stage \in {"approved", "implemented", "failed_validation"}
          => reopen_for_work
    /\ task' = [task EXCEPT
                  !.archived = FALSE,
                  !.status_stage = IF reopen_for_work /\ @ = "implemented"
                                   THEN "failed_validation" ELSE @]
    /\ UNCHANGED <<plans, runs, lock, questions, todos>>

-----------------------------------------------------------------------------

PlanningCommand ==
    \/ start_planning \/ revise_plan \/ propose_plan \/ amend_plan \/ reject_plan
    \/ \E allow \in BOOLEAN : regenerate_plan_from_answers(allow)
    \/ \E from_answers, allow \in BOOLEAN : upsert_plan(from_answers, allow)
    \/ \E v \in Versions, allow, new_todos \in BOOLEAN :
          approve_plan(v, allow, new_todos)

QuestionCommand ==
    \E q \in Questions :
       \/ add_question(q) \/ dismiss_question(q)
       \/ \E a \in Answers : answer_question(q, a)

ImplementationCommand ==
    \/ start_implementation \/ restart_implementation \/ finish_implementation
    \/ \E r \in RunIds, repair \in BOOLEAN : resume_implementation(r, repair)
    \/ \E done \in BOOLEAN : set_todo_done(done)

ValidationCommand ==
    \/ start_validation
    \/ \E pass \in BOOLEAN : add_validation_check(pass)
    \/ \E s \in {"finished", "failed"} : finish_validation(s)

RepairCommand ==
    \/ break_lock
    \/ \E r \in RunIds : repair_orphaned_planning_run(r)

LifecycleCommand ==
    \/ cancel_task
    \/ \E to \in {"none"} \cup StoredStages : uncancel_task(to)
    \/ \E force \in BOOLEAN : archive_task(force)
    \/ \E reopen \in BOOLEAN : unarchive_task(reopen)

Next ==
    \/ PlanningCommand \/ QuestionCommand \/ ImplementationCommand
    \/ ValidationCommand \/ RepairCommand \/ LifecycleCommand
    \/ LockExpires

Spec == Init /\ [][Next]_vars

-----------------------------------------------------------------------------
(* Safety *)

\* The task record and the plan records agree on what is accepted: the
\* accepted plan is the one the task names, there is no other, and the plan
\* under review is one that nobody has accepted or superseded.  approve_plan
\* writes every plan record and then the task; reject_plan and
\* regenerate_plan_from_answers rewrite the latest record without looking at
\* accepted_plan_version.
AcceptedPlanCoherent ==
    /\ \A v \in Versions :
          plans[v].status = "accepted" <=> v = task.accepted_plan_version
    /\ task.accepted_plan_version \in Versions \cup {0}
    /\ task.latest_plan_version = Len(plans)
    /\ task.status_stage = "plan_review" =>
          latest_plan_is("proposed") \/ latest_plan_is("rejected")

\* Work is only ever done on approved plans: each implementation run in the
\* history was started on a plan version that was accepted and has at most
\* been superseded since.  No rejection, regeneration or cancellation undoes it.
WorkBasedOnAcceptedPlan ==
    \A r \in RunIds : runs[r].run_type = "implementation" =>
       /\ runs[r].based_on_plan_version \in Versions
       /\ plans[runs[r].based_on_plan_version].status \in {"accepted", "superseded"}

\* One run at a time, and the run and the lock belong together: at most one
\* run is running, it is the one the task record names as the latest of its
\* type (so the finish commands find it), and a lock file, expired or not,
\* is always for that run.  lock break, cancel and resume take the lock away
\* from a running run and give it back.
RunLockCoherent ==
    /\ \A r, x \in running_runs : r = x
    /\ \A r \in running_runs : r = latest_run(runs[r].run_type)
    /\ lock # NoLock => RunIs(lock.run_id, lock.run_type, {"running"})

\* A task stored as "implementing" has its implementation run still running,
\* so that implement finish or implement resume can move it on; no order of
\* lock breaks, cancellations, finishes and archivals strands it.
ImplementingHasRun ==
    task.status_stage = "implementing" =>
       RunIs(task.latest_implementation_run, "implementation", {"running"})

\* A done task carries its evidence: the latest validation run passed with
\* the mandatory criterion checked, if the plan has one; it validated the
\* latest implementation run, which is finished, against the plan version that
\* is accepted now.
DoneWasValidated ==
    task.status_stage = "done" =>
       LET v == task.latest_validation_run
           i == task.latest_implementation_run
       IN /\ RunIs(v, "validation", {"finished"})
          /\ runs[v].based_on_plan_version \in WithoutCriteria \/ runs[v].satisfied
          /\ runs[v].based_on_implementation_run = i
          /\ RunIs(i, "implementation", {"finished"})
          /\ runs[v].based_on_plan_version = task.accepted_plan_version
          /\ accepted_plan_record

-----------------------------------------------------------------------------
(* What a step may never do *)

\* The run history is append-only: a run that has ended is never rewritten
\* (in particular a failed validation stays failed), and no run disappears.
RunHistoryImmutable ==
    [][/\ Len(runs') >= Len(runs)
       /\ \A r \in RunIds : runs[r].status # "running" => runs'[r] = runs[r]]_vars

\* A plan version only ever moves proposed -> accepted -> superseded,
\* proposed -> superseded or proposed -> rejected, and keeps the answers it
\* was made from.
PlanStatusSteps ==
    {<<"proposed", "accepted">>, <<"proposed", "superseded">>,
     <<"proposed", "rejected">>, <<"accepted", "superseded">>}

PlanHistoryMonotone ==
    [][/\ Len(plans') >= Len(plans)
       /\ \A v \in Versions :
             /\ plans'[v].basis = plans[v].basis
             /\ \/ plans'[v].status = plans[v].status
                \/ <<plans[v].status, plans'[v].status>> \in PlanStatusSteps]_vars
=============================================================================
