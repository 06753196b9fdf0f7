------------------------------- MODULE Advice -------------------------------
(***************************************************************************)
(* What taskledger tells an agent about a task: next-action, can, the lock *)
(* diagnosis and doctor.  All four only read; here they are functions of   *)
(* TaskLifecycle's state.  An agent that sets out to follow next-action    *)
(* from then on runs the command it names and nothing else.                *)
(***************************************************************************)
EXTENDS TaskLifecycle

CONSTANTS
    SetupPlans,  \* bound: plan versions made before the agent sets out
    SetupRuns    \* bound: runs made before the agent sets out

ASSUME SetupAssumption == SetupPlans \in 0..MaxPlans /\ SetupRuns \in 0..MaxRuns

VARIABLES
    following,  \* the agent has set out to follow next-action
    holder      \* the lock's holder, once the agent looks at it

adviceVars == <<vars, following, holder>>

-----------------------------------------------------------------------------
(* lock show *)

\* What the lock's holder is known to be, compared with the present host and
\* actor: whether a pid was recorded and may be probed, whether it is on this
\* host, what probing it tells, whether it is the present actor.
Holders ==
    [pid: {"none", "owner", "command"}, session: BOOLEAN, local: BOOLEAN,
     probe: {"alive", "dead", "unknown"}, same_actor: BOOLEAN]

diagnose_lock(h) ==
    CASE lock = NoLock -> "none"
      [] lock.expired -> "expired"
      [] h.pid = "owner" ->
            IF ~h.local \/ h.probe = "unknown" THEN "active_unverifiable"
            ELSE IF h.probe = "dead" THEN "active_dead_local_process"
            ELSE IF h.same_actor THEN "active_same_actor" ELSE "active_other_actor"
      [] h.pid # "owner" ->
            IF h.same_actor THEN "active_same_actor"
            ELSE IF h.pid = "command" \/ h.session THEN "active_harness_session"
            ELSE IF h.local THEN "active_no_pid" ELSE "active_unverifiable"

\* Fault: every expired lock is to be resumed.
remediation_AnyStage(h) ==
    CASE diagnose_lock(h) = "expired" -> "expired-lock-resume"
      [] diagnose_lock(h) = "active_dead_local_process" -> "repair-lock"
      [] OTHER -> "none"

\* The first command the diagnosis recommends.
remediation(h) ==
    CASE diagnose_lock(h) = "expired" /\ lock.run_type = "implementation"
            -> "expired-lock-resume"
      [] diagnose_lock(h) = "expired" /\ lock.run_type # "implementation"
            -> "repair-lock"
      [] diagnose_lock(h) = "active_dead_local_process" -> "repair-lock"
      [] OTHER -> "none"

-----------------------------------------------------------------------------
(* Who holds a lock *)

\* Where a command finds its actor and its harness, which session ids it is
\* given, and whether it is told the pid of the process that outlives it.
Sources == {"option", "env", "stored", "tool", "ci", "default"}
Environments ==
    [actor: Sources, harness: Sources, session: SUBSET {"option", "env", "stored"},
     owner_pid: BOOLEAN]

\* A harness always gets an id, even when nothing is known about it.
resolve_harness(e) ==
    [harness_id |-> TRUE,
     session |-> \/ "option" \in e.session
                 \/ e.harness \in {"env", "stored"} /\ e.harness \in e.session
                 \/ e.harness = "ci"]

\* Which pid is stored: the one the environment names, none in a harness,
\* and only outside of any the command's own.
_resolve_pids(e, session, harness_id) ==
    IF e.owner_pid THEN "owner"
    ELSE IF session \/ harness_id THEN "none" ELSE "command"

\* The source of the actor decides its name and which session ids count.
resolve_actor(e, session, harness_id) ==
    LET known == \/ session
                 \/ e.actor \in {"env", "tool"} /\ "env" \in e.session
                 \/ e.actor = "stored" /\ "stored" \in e.session
                 \/ e.actor = "ci"
    IN  [pid |-> _resolve_pids(e, known, harness_id), session |-> known]

\* Fault: the actor is resolved without its harness.
resolve_cli_actor_harness_Apart(e) == resolve_actor(e, "option" \in e.session, FALSE)

resolve_cli_actor_harness(e) ==
    LET harness == resolve_harness(e)
    IN  resolve_actor(e, harness.session, harness.harness_id)

\* How a later command on the same host sees the holder.  The process that
\* took the lock has ended by then; the one that outlives it may be alive.
\* Nobody passes the present actor to the diagnosis behind next-action.
Seen(e, alive) ==
    LET actor == resolve_cli_actor_harness(e)
    IN  [pid |-> IF actor.pid = "command" THEN "owner" ELSE actor.pid,
         session |-> TRUE, local |-> TRUE,
         probe |-> IF actor.pid = "none" THEN "unknown"
                   ELSE IF actor.pid = "owner" /\ alive THEN "alive" ELSE "dead",
         same_actor |-> FALSE]

LiveHolders == {Seen(e, TRUE) : e \in Environments}
GoneHolders == {Seen(e, FALSE) : e \in Environments}

-----------------------------------------------------------------------------
(* next-action *)

\* The active stage: the type of the running run an unexpired lock names.
task_active_stage ==
    IF lock = NoLock \/ lock.expired \/ lock.run_id \notin RunIds THEN "none"
    ELSE derive_active_stage(lock, lock.run_id, runs[lock.run_id])

latest_plan_stale == plans # <<>> /\ stale_answers(plans[Len(plans)])

planning_action ==
    IF required_open_questions # {} THEN "question-answer"
    ELSE IF latest_plan_stale \/ (plans = <<>> /\ required_answered_questions # {})
    THEN "plan-regenerate" ELSE "plan-propose"

implementation_action == IF todos_complete THEN "implement-finish" ELSE "todo-work"

validation_action ==
    IF can_finish_passed(task.latest_validation_run) THEN "validate-finish"
    ELSE "validate-check"

plan_review_action ==
    IF required_open_questions # {} THEN "question-answer"
    ELSE IF latest_plan_stale THEN "plan-regenerate" ELSE "plan-approve"

\* A running implementation run without a lock that can take it again.
resumable_implementation_run ==
    /\ lock = NoLock
    /\ RunIs(task.latest_implementation_run, "implementation", {"running"})
    /\ accepted_plan_record

\* Fault: an approved task is always ready to be implemented.
approved_action_NoResume == "implement"

approved_action ==
    IF \E r \in running_runs : ~(/\ runs[r].run_type = "implementation"
                                 /\ r = task.latest_implementation_run
                                 /\ lock = NoLock)
    THEN "repair-run-state"
    ELSE IF resumable_implementation_run THEN "implement-resume" ELSE "implement"

decide_orphaned_active_stage ==
    IF task.status_stage = "implementing" /\ resumable_implementation_run
    THEN "implement-resume" ELSE "repair-active-stage"

inactive_status_next_action ==
    CASE task.status_stage = "draft" -> "plan"
      [] task.status_stage = "plan_review" -> plan_review_action
      [] task.status_stage = "approved" -> approved_action
      [] task.status_stage = "implemented" -> "validate"
      [] task.status_stage = "failed_validation" -> "implement-restart"
      [] task.status_stage \in ACTIVE_TASK_STAGES -> decide_orphaned_active_stage
      [] task.status_stage \in {"done", "cancelled"} -> "none"

decide_expired_lock_action ==
    IF /\ RunIs(task.latest_implementation_run, "implementation", {"running"})
       /\ lock.run_id = task.latest_implementation_run
    THEN "expired-lock-resume" ELSE "repair-lock"

\* The action next-action reports when the lock is held by h.
next_action(h) ==
    CASE task.archived -> "archived"
      [] ~task.archived /\ diagnose_lock(h) = "active_dead_local_process" -> "repair-lock"
      [] ~task.archived /\ diagnose_lock(h) # "active_dead_local_process" ->
            IF task_active_stage = "planning" THEN planning_action
            ELSE IF task_active_stage = "implementation" THEN implementation_action
            ELSE IF task_active_stage = "validation" THEN validation_action
            ELSE IF lock = NoLock THEN inactive_status_next_action
            ELSE IF lock.expired THEN decide_expired_lock_action ELSE "repair-lock"

-----------------------------------------------------------------------------
(* can *)

Capabilities == {"plan", "implement", "implement-restart", "implement-resume",
                 "expired-lock-resume", "validate"}

\* Fault: the stage of validation is enough for a resume, too.
can_resume_AnyStage == /\ task.accepted_plan_version # 0
                       /\ RunIs(task.latest_implementation_run, "implementation", {"running"})

can_resume == /\ task.status_stage \in {"approved", "implementing"}
              /\ task.accepted_plan_version # 0
              /\ RunIs(task.latest_implementation_run, "implementation", {"running"})

can_perform(action) ==
    /\ ~task.archived
    /\ \/ action = "plan" /\ task.status_stage \in {"draft", "plan_review"} /\ lock = NoLock
       \/ /\ action = "implement" /\ task.status_stage \in IMPLEMENTABLE_TASK_STAGES
          /\ task.accepted_plan_version # 0 /\ running_runs = {} /\ lock = NoLock
       \/ /\ action = "implement-restart" /\ task.status_stage = "failed_validation"
          /\ task.accepted_plan_version # 0 /\ lock = NoLock
          /\ RunIs(task.latest_validation_run, "validation", {"failed"})
          /\ RunIs(task.latest_implementation_run, "implementation", RunStatuses)
       \/ action = "implement-resume" /\ can_resume /\ lock = NoLock
       \/ /\ action = "expired-lock-resume" /\ can_resume
          /\ lock.expired /\ lock.run_id = task.latest_implementation_run
       \/ /\ action = "validate" /\ task.status_stage = "implemented" /\ lock = NoLock
          /\ RunIs(task.latest_implementation_run, "implementation", {"finished"})

-----------------------------------------------------------------------------
(* doctor *)

\* The findings of scan_task_integrity and of the lock scan about this task.
doctor_errors ==
    LET accepted == {v \in Versions : plans[v].status = "accepted"}
        Report(error, found) == IF found THEN {error} ELSE {}
    IN UNION {
       Report("missing accepted plan", task.accepted_plan_version \notin Versions \cup {0}),
       Report("multiple accepted plans", Cardinality(accepted) > 1),
       Report("no single accepted plan",
              task.accepted_plan_version # 0 /\ Cardinality(accepted) # 1),
       Report("transient stage", task.status_stage \in ACTIVE_TASK_STAGES),
       Report("multiple running runs", Cardinality(running_runs) > 1),
       Report("running run without lock", running_runs # {} /\ task_active_stage = "none"),
       Report("lock without running run",
              lock # NoLock /\ (lock.run_id \in RunIds => runs[lock.run_id].status # "running")),
       Report("lock of another type",
              /\ lock # NoLock /\ lock.run_id \in RunIds
              /\ runs[lock.run_id].run_type # lock.run_type),
       Report("validation of no implementation",
              \E r \in RunIds : /\ runs[r].run_type = "validation"
                                /\ runs[r].based_on_implementation_run # 0
                                /\ ~RunIs(runs[r].based_on_implementation_run,
                                          "implementation", RunStatuses))}

\* Fault: the stage is not considered.
doctor_command_AnyStage(r) ==
    CASE runs[r].run_type = "planning" -> "repair run"
      [] runs[r].run_type = "implementation" -> "implement resume"
      [] OTHER -> "task show"

\* The command proposed for a running run without a matching lock.
doctor_command(r) ==
    CASE runs[r].run_type = "planning" -> "repair run"
      [] /\ runs[r].run_type = "implementation" /\ r = task.latest_implementation_run
         /\ task.status_stage \in {"approved", "implementing", "failed_validation"}
            -> "implement resume"
      [] /\ runs[r].run_type = "implementation"
         /\ ~(/\ r = task.latest_implementation_run
              /\ task.status_stage \in {"approved", "implementing", "failed_validation"})
            -> "doctor locks"
      [] runs[r].run_type = "validation" -> "task show"

-----------------------------------------------------------------------------
(* The agent *)

\* The command an action of next-action stands for, run by an agent that has
\* what it asks for: answers, a plan, a user who approves a proposed plan and
\* has a rejected one revised, evidence.  For the actions that are missing,
\* next-action names a command that only shows something; for a validation
\* that waits for a todo, it names todo done, which is refused while the
\* validation lock is held.
perform(action) ==
    \/ action = "archived" /\ unarchive_task(FALSE)
    \/ action = "plan" /\ start_planning
    \/ action = "question-answer" /\ \E q \in required_open_questions, a \in Answers :
                                        answer_question(q, a)
    \/ action = "plan-regenerate" /\ upsert_plan(TRUE, FALSE)
    \/ action = "plan-propose" /\ upsert_plan(FALSE, FALSE)
    \/ /\ action = "plan-approve" /\ latest_plan_is("proposed")
       /\ \E new_todos \in BOOLEAN : approve_plan(Len(plans), FALSE, new_todos)
    \/ action = "plan-approve" /\ latest_plan_is("rejected") /\ revise_plan
    \/ action = "implement" /\ start_implementation
    \/ action = "implement-restart" /\ restart_implementation
    \/ /\ action = "implement-resume"
       /\ resume_implementation(task.latest_implementation_run, FALSE)
    \/ /\ action = "expired-lock-resume"
       /\ resume_implementation(task.latest_implementation_run, TRUE)
    \/ action = "todo-work" /\ set_todo_done(TRUE)
    \/ action = "implement-finish" /\ finish_implementation
    \/ action = "validate" /\ start_validation
    \/ /\ action = "validate-check" /\ ~runs[task.latest_validation_run].satisfied
       /\ add_validation_check(TRUE)
    \/ action = "validate-finish" /\ finish_validation("finished")
    \/ action = "repair-lock" /\ break_lock

\* From here on next-action's commands lead to the end: the task is not
\* cancelled, and if archived then in a stage that a plain unarchive accepts;
\* a running planning or validation run still has its lease and its holder,
\* and an implementation run can be resumed; the todos of what is to be
\* validated are done; failed_validation is due to a failed validation.
OnTrack(h) ==
    /\ task.status_stage # "cancelled"
    /\ task.archived => task.status_stage \notin {"approved", "implemented", "failed_validation"}
    /\ \A r \in running_runs :
          \/ lock_matches_run(lock, runs[r].run_type, r) /\ h \in LiveHolders
          \/ /\ runs[r].run_type = "implementation"
             /\ task.status_stage \in {"approved", "implementing"}
    /\ task.status_stage = "implemented" => todos_complete
    /\ task.status_stage = "failed_validation" => validation_run_failed

Setup ==
    /\ ~following /\ UNCHANGED <<following, holder>>
    /\ Next
    /\ Len(plans') <= SetupPlans /\ Len(runs') <= SetupRuns

SetOut ==
    /\ ~following /\ following' = TRUE
    /\ holder' \in {h \in LiveHolders \cup GoneHolders : OnTrack(h)}
    /\ UNCHANGED vars

\* A lock the agent takes names the agent, in whatever environment it runs.
Follow ==
    /\ following /\ UNCHANGED following
    /\ perform(next_action(holder))
    /\ IF lock' # lock THEN holder' \in LiveHolders ELSE UNCHANGED holder

AdviceInit ==
    Init /\ following = FALSE /\ holder = CHOOSE h \in LiveHolders : TRUE

AdviceNext == Setup \/ SetOut \/ Follow

\* The agent that has set out keeps running the command it is told; neither
\* leases nor other actors interfere.
AdviceSpec == AdviceInit /\ [][AdviceNext]_adviceVars /\ WF_adviceVars(Follow)

-----------------------------------------------------------------------------

\* Following next-action completes the task: from every reachable state that
\* is on track, whatever mix of cancelled, abandoned, rejected and failed work
\* led there, the commands it names are accepted one after the other until
\* the task is done.
AdviceLeadsToDone == following ~> task.status_stage = "done"

\* What each capability is a question about.
Accepted(action) ==
    CASE action = "plan" -> ENABLED start_planning
      [] action = "implement" -> ENABLED start_implementation
      [] action = "implement-restart" -> ENABLED restart_implementation
      [] action = "implement-resume" ->
            ENABLED resume_implementation(task.latest_implementation_run, FALSE)
      [] action = "expired-lock-resume" ->
            ENABLED resume_implementation(task.latest_implementation_run, TRUE)
      [] action = "validate" -> ENABLED start_validation

\* can answers exactly what the command would do, with two exceptions that
\* are exact themselves.  An orphaned planning or validation run makes the
\* start commands refuse although can says yes.  And can expired-lock-resume
\* says no when there is no lock at all, while implement resume
\* --repair-expired-lock is accepted then, too: the command does what either
\* of can's two questions about a resume allows, and nothing else.
CanIsExact ==
    Len(runs) < MaxRuns =>
       /\ \A action \in Capabilities \ {"expired-lock-resume"} :
             /\ Accepted(action) => can_perform(action)
             /\ can_perform(action)
                /\ (running_runs # {} => action = "implement-resume")
                   => Accepted(action)
       /\ Accepted("expired-lock-resume") <=>
             can_perform("expired-lock-resume") \/ can_perform("implement-resume")

\* The first command the lock diagnosis recommends is accepted, whoever holds
\* the lock: an expired implementation lock can be taken over by its run.
RemediationAccepted ==
    \A h \in Holders : ~task.archived =>
       /\ remediation(h) = "expired-lock-resume" =>
             ENABLED resume_implementation(lock.run_id, TRUE)
       /\ remediation(h) = "repair-lock" => ENABLED break_lock

\* No order of complete commands makes doctor report anything but a run that
\* lost its lock and the stored stage of an implementation in progress.
DoctorReportsOnlyOrphans ==
    doctor_errors \subseteq {"running run without lock", "transient stage"}

\* With the lock file gone, the command doctor proposes for an orphaned run
\* is accepted, unless the task is in failed_validation.
DoctorAdviceAccepted ==
    \A r \in running_runs :
       lock = NoLock /\ ~task.archived /\ task.status_stage # "failed_validation" =>
          /\ doctor_command(r) = "repair run" => ENABLED repair_orphaned_planning_run(r)
          /\ doctor_command(r) = "implement resume" => ENABLED resume_implementation(r, FALSE)
=============================================================================
