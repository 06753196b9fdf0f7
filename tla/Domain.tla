------------------------------- MODULE Domain -------------------------------
(***************************************************************************)
(* The vocabulary of taskledger's domain layer (domain/states.py,          *)
(* domain/lock.py, domain/run.py) and the pure policy functions of         *)
(* domain/policies.py.  Nothing here has state: the services' modules pass *)
(* the stored records in and use the decisions as guards.                  *)
(*                                                                         *)
(* A run id is the run's position in the task's run directory and a plan   *)
(* version is its position in the plan directory, both counted from 1; 0   *)
(* is the source's None.                                                   *)
(***************************************************************************)
EXTENDS Naturals

\* The ten names TaskStatusStage admits.
TaskStatusStage == {"draft", "planning", "plan_review", "approved",
                    "implementing", "implemented", "validating", "done",
                    "failed_validation", "cancelled"}

\* Stages during which a run is in progress.
ACTIVE_TASK_STAGES == {"planning", "implementing", "validating"}

\* The stages a task record is ever written with: planning and validation
\* leave the stored stage alone, implementation stores "implementing".
StoredStages == TaskStatusStage \ {"planning", "validating"}

IMPLEMENTABLE_TASK_STAGES == {"approved", "failed_validation"}

ALLOWED_STAGE_TRANSITIONS ==
    [draft             |-> {"plan_review", "cancelled"},
     planning          |-> {"plan_review", "cancelled"},
     plan_review       |-> {"draft", "approved", "cancelled"},
     approved          |-> {"implemented", "cancelled"},
     implementing      |-> {"implemented", "cancelled"},
     implemented       |-> {"done", "failed_validation", "cancelled"},
     validating        |-> {"done", "failed_validation", "cancelled"},
     failed_validation |-> {"implementing", "approved", "plan_review", "cancelled"},
     done              |-> {},
     cancelled         |-> {}]

require_transition(current, target) == target \in ALLOWED_STAGE_TRANSITIONS[current]

RunTypes == {"planning", "implementation", "validation"}

\* The run statuses the lifecycle commands write; "failed" stands for
\* "blocked" too, which every command treats alike.
RunStatuses == {"running", "finished", "failed"}

\* replace(record, status=...) on a run or plan record.
WithStatus(record, status) == [record EXCEPT !.status = status]

PlanStatuses == {"proposed", "accepted", "superseded", "rejected"}

(***************************************************************************)
(* lock.yaml of a task: its stage determines the run type, so one field    *)
(* stands for both; expired is lock_is_expired at the present time.        *)
(***************************************************************************)
NoLock == [run_type |-> "none", run_id |-> 0, expired |-> FALSE]

LockFor(type, r) == [run_type |-> type, run_id |-> r, expired |-> FALSE]

\* An unexpired lock of the run's stage that names the run.
lock_matches_run(lock, type, r) ==
    lock.run_type = type /\ lock.run_id = r /\ ~lock.expired

-----------------------------------------------------------------------------
(***************************************************************************)
(* domain/policies.py.  stage is the task's stored stage; r and run are    *)
(* the id and the record of the run a command works on.                    *)
(***************************************************************************)

\* With a run at hand the active stage is the run's type, provided the lock
\* names that very run and the run is still running; otherwise there is none.
derive_active_stage(lock, r, run) ==
    IF lock.run_id = r /\ lock.run_type = run.run_type /\ run.status = "running"
    THEN run.run_type ELSE "none"

\* Without a run at hand the lock alone tells the active stage.
active_stage(lock) == lock.run_type

plan_propose_decision(stage, lock, r, run) ==
    /\ stage \in {"draft", "plan_review"}
    /\ derive_active_stage(lock, r, run) = "planning"

plan_approve_decision(stage, lock) ==
    stage = "plan_review" /\ active_stage(lock) = "none"

plan_revise_decision(stage, lock) ==
    stage = "plan_review" /\ active_stage(lock) = "none"

validation_check_decision(stage, lock, r, run) ==
    /\ stage = "implemented"
    /\ derive_active_stage(lock, r, run) = "validation"

question_add_decision(stage, lock) ==
    /\ active_stage(lock) \in {"none", "planning"}
    /\ stage \in {"draft", "plan_review"}

question_mutation_decision(stage, lock) ==
    /\ active_stage(lock) \in {"none", "planning"}
    /\ stage \in {"draft", "plan_review"}

\* The command always passes actor_role "user".
todo_toggle_decision(stage, lock) ==
    \/ active_stage(lock) = "implementation"
    \/ active_stage(lock) # "validation" /\ stage \notin {"cancelled", "done"}
=============================================================================
