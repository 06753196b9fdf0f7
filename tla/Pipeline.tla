------------------------------ MODULE Pipeline ------------------------------
(***************************************************************************)
(* The worker pipeline (services/worker_pipeline.py): an optional list of  *)
(* steps in the configuration that is laid over the life of a task.  Plan  *)
(* todos, handoffs and code reviews may name a step; pipeline next and the *)
(* guided next-action derive from them the step that is due.  The          *)
(* configuration may be edited at any time, the records keep the names.    *)
(*                                                                         *)
(* Abstracted: of a step's fields only the three that decide anything;     *)
(* the handoffs of a step are one record (module Records has their full    *)
(* life), and only steps of the review stage are handed out, as nothing    *)
(* reads the handoffs of the others but doctor.                            *)
(***************************************************************************)
EXTENDS TaskLifecycle

CONSTANTS
    MaxSteps,  \* bound: steps of a pipeline
    MaxEdits   \* bound: edits of the configuration

VARIABLES
    pipeline,    \* the [worker_pipeline] table: a sequence of step ids
    enabled,     \* its enabled key
    plan_steps,  \* by plan version, the worker_step of its todos
    todo_steps,  \* worker_step_id of the materialized todos
    handoffs,    \* by review step, the status of its handoff
    reviews,     \* code reviews bound to a step, with their result
    edits,       \* edits made
    following    \* an agent works through the reviews that are due

pipelineVars ==
    <<vars, pipeline, enabled, plan_steps, todo_steps, handoffs, reviews, edits, following>>

-----------------------------------------------------------------------------
(* Steps *)

WorkerStepConfig(stage, context, kind) ==
    [lifecycle_stage |-> stage, base_context |-> context, kind |-> kind]

\* One step for each way the code treats a step.
Step ==
    [planner  |-> WorkerStepConfig("planning", "planner", "plan"),
     tester   |-> WorkerStepConfig("implementation", "implementer", "todo"),
     reviewer |-> WorkerStepConfig("review", "code-reviewer", "review"),
     auditor  |-> WorkerStepConfig("review", "full", "custom"),
     checker  |-> WorkerStepConfig("validation", "validator", "validate")]

StepIds == DOMAIN Step
ReviewSteps == {s \in StepIds : Step[s].lifecycle_stage = "review"}

HANDOFF_COMPLETION_STEP_KINDS == {"review", "custom", "check"}
ALLOWED_REVIEW_STAGES ==
    {"implementing", "implemented", "validating", "failed_validation", "done"}
ALLOWED_WORKER_REVIEW_CONTEXTS == {"code-reviewer", "reviewer", "spec-reviewer"}

\* No two steps of a pipeline have the same id.
Pipelines ==
    {steps \in UNION {[1..n -> StepIds] : n \in 0..MaxSteps} :
        \A i, j \in DOMAIN steps : steps[i] = steps[j] => i = j}

Configured == {pipeline[i] : i \in DOMAIN pipeline}

\* An unconfigured or disabled pipeline resolves no step.
resolve_worker_pipeline_step(s) == enabled /\ s \in Configured

-----------------------------------------------------------------------------
(* pipeline next *)

NoStep == "none"

\* The first configured step of a set, if there is one.
_first_matching_step(steps) ==
    LET hits == {i \in DOMAIN pipeline : pipeline[i] \in steps}
    IN  IF hits = {} THEN NoStep
        ELSE pipeline[CHOOSE i \in hits : \A j \in hits : i <= j]

_first_step_for_stage(stage) ==
    _first_matching_step({s \in StepIds : Step[s].lifecycle_stage = stage})

_open_worker_todo_step_ids == IF todos = "open" THEN todo_steps ELSE {}

_closed_worker_handoff_step_ids == {s \in ReviewSteps : handoffs[s] = "closed"}

\* Fault: only reviews complete a step.
_completed_worker_review_step_ids_Reviews ==
    {r.step : r \in {x \in reviews : x.result = "pass"}}

_completed_worker_review_step_ids ==
    _closed_worker_handoff_step_ids
        \cup {r.step : r \in {x \in reviews : x.result = "pass"}}

_first_pending_review_step ==
    _first_matching_step({s \in ReviewSteps \ _completed_worker_review_step_ids :
                             Step[s].kind \in HANDOFF_COMPLETION_STEP_KINDS})

no_validation_run == \A r \in RunIds : runs[r].run_type # "validation"

\* A review is due: the implementation is there and not validated yet.
review_due ==
    /\ task.accepted_plan_version # 0
    /\ _open_worker_todo_step_ids = {}
    /\ task.status_stage \in {"implemented", "validating", "failed_validation"}
    /\ no_validation_run
    /\ _first_pending_review_step # NoStep

determine_next_worker_step ==
    CASE task.accepted_plan_version = 0 -> _first_step_for_stage("planning")
      [] task.accepted_plan_version # 0 /\ _open_worker_todo_step_ids # {}
            -> _first_matching_step(_open_worker_todo_step_ids)
      [] review_due -> _first_pending_review_step
      [] OTHER ->
            IF task.status_stage \in {"implemented", "validating", "failed_validation"}
            THEN _first_step_for_stage("validation") ELSE NoStep

worker_pipeline_next == IF enabled THEN determine_next_worker_step ELSE NoStep

\* doctor: records that name a step no enabled pipeline has.
_warn_stale_worker_step_references ==
    {s \in todo_steps \cup {x \in ReviewSteps : handoffs[x] # "none"} :
        ~resolve_worker_pipeline_step(s)}

-----------------------------------------------------------------------------
(* Commands *)

\* The todos of a new plan may name a step that the pipeline has now.
_plan_todo_worker_step_id ==
    {NoStep} \cup {s \in StepIds : resolve_worker_pipeline_step(s)}

\* The commands a task advances, is put away and reopened by; module TaskLifecycle has the others, none
\* of which touches a worker step.
advance ==
    \/ start_planning \/ propose_plan \/ approve_plan(1, FALSE, TRUE)
    \/ start_implementation \/ restart_implementation \/ finish_implementation
    \/ set_todo_done(TRUE)
    \/ start_validation \/ finish_validation("failed")
    \/ archive_task(TRUE) \/ unarchive_task(TRUE)

\* They carry the step names along: from the plan's front matter to the plan
\* record, and with its approval to the todos.
lifecycle_command ==
    /\ advance
    /\ IF Len(plans') > Len(plans)
       THEN \E s \in _plan_todo_worker_step_id : plan_steps' = Append(plan_steps, s)
       ELSE UNCHANGED plan_steps
    /\ IF todos = "none" /\ todos' = "open"
       THEN todo_steps' = {plan_steps[task'.accepted_plan_version]} \ {NoStep}
       ELSE UNCHANGED todo_steps
    /\ UNCHANGED <<pipeline, enabled, handoffs, reviews, edits, following>>

edit_config ==
    /\ edits < MaxEdits
    /\ edits' = edits + 1
    /\ pipeline' \in Pipelines
    /\ enabled' \in {e \in BOOLEAN : e => pipeline' # <<>>}
    /\ UNCHANGED <<vars, plan_steps, todo_steps, handoffs, reviews, following>>

\* review record --worker s
_validate_worker_step(s) ==
    /\ resolve_worker_pipeline_step(s)
    /\ Step[s].lifecycle_stage = "review"
    /\ Step[s].base_context \in ALLOWED_WORKER_REVIEW_CONTEXTS

\* Fault: reviews belong to the implementation in progress.
review_stage_allowed_Early == task.status_stage = "implementing"

review_stage_allowed == task.status_stage \in ALLOWED_REVIEW_STAGES

record_code_review(s, result) ==
    /\ ~task.archived
    /\ review_stage_allowed
    /\ RunIs(task.latest_implementation_run, "implementation", RunStatuses)
    /\ _validate_worker_step(s)
    /\ reviews' = reviews \cup {[step |-> s, result |-> result]}
    /\ UNCHANGED <<vars, pipeline, enabled, plan_steps, todo_steps, handoffs, edits, following>>

SetHandoff(s, from, status) ==
    /\ handoffs[s] \in from
    /\ handoffs' = [handoffs EXCEPT ![s] = status]
    /\ UNCHANGED <<vars, pipeline, enabled, plan_steps, todo_steps, reviews, edits, following>>

\* handoff create --worker s, in any stage
create_handoff(s) ==
    resolve_worker_pipeline_step(s) /\ SetHandoff(s, {"none", "cancelled"}, "open")

close_handoff(s) == SetHandoff(s, {"open"}, "closed")

cancel_handoff(s) == SetHandoff(s, {"open"}, "cancelled")

worker_command ==
    \/ \E s \in StepIds, result \in {"pass", "fail"} : record_code_review(s, result)
    \/ \E s \in ReviewSteps : create_handoff(s) \/ close_handoff(s) \/ cancel_handoff(s)

-----------------------------------------------------------------------------
(* An agent that works through the due reviews *)

SetOut ==
    /\ ~following /\ following' = TRUE
    /\ enabled /\ review_due /\ ~task.archived
    /\ UNCHANGED <<vars, pipeline, enabled, plan_steps, todo_steps, handoffs, reviews, edits>>

\* It records a passing review, or hands the step out and closes the handoff.
Follow ==
    /\ following /\ review_due
    /\ LET s == _first_pending_review_step
       IN  record_code_review(s, "pass") \/ create_handoff(s) \/ close_handoff(s)

PipelineInit ==
    /\ Init
    /\ pipeline \in Pipelines /\ enabled = (pipeline # <<>>)
    /\ plan_steps = <<>> /\ todo_steps = {}
    /\ handoffs = [s \in ReviewSteps |-> "none"] /\ reviews = {}
    /\ edits = 0 /\ following = FALSE

PipelineNext ==
    \/ ~following /\ (lifecycle_command \/ edit_config \/ worker_command \/ SetOut)
    \/ Follow

\* An agent that has set out goes on; nobody interferes.
PipelineSpec == PipelineInit /\ [][PipelineNext]_pipelineVars /\ WF_pipelineVars(Follow)

-----------------------------------------------------------------------------

\* Whatever was edited since the records were made: when todos wait for a
\* step and an enabled pipeline names none, doctor reports the stale name;
\* and when it names a review that is due, review record accepts that step,
\* provided its context is a reviewer's.
GuidanceIsSound ==
    enabled =>
       /\ _open_worker_todo_step_ids # {} /\ task.accepted_plan_version # 0
             /\ worker_pipeline_next = NoStep
             => _open_worker_todo_step_ids \subseteq _warn_stale_worker_step_references
       /\ review_due /\ ~task.archived
             /\ Step[worker_pipeline_next].base_context \in ALLOWED_WORKER_REVIEW_CONTEXTS
             => ENABLED record_code_review(worker_pipeline_next, "pass")

\* The reviews that are due come to an end: each is completed by a passing
\* review or, where the step's context admits none, by closing its handoff,
\* and pipeline next moves on.
ReviewsEnd == following ~> ~review_due
=============================================================================
