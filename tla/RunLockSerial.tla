---------------------------- MODULE RunLockSerial ----------------------------
(***************************************************************************)
(* RunLock when commands do not overlap.  committed is what the files held *)
(* when the last command ended.  A command that is not cut short is one    *)
(* step of TaskLifecycle, whatever earlier deaths left behind; one that is *)
(* may leave the files in states TaskLifecycle does not have, and the      *)
(* properties below say in which.                                          *)
(***************************************************************************)
EXTENDS RunLock

VARIABLE committed

serialVars == <<vars, committed>>

AllIdle == \A p \in Procs : pc[p] = "idle"

SerialInit == Init /\ committed = files

\* Only one process is in the middle of a command; a lease that runs out
\* during a command is noticed by the next one.
SerialNext ==
    /\ \/ AllIdle /\ (LockExpires \/ \E p \in Procs : Issue(p))
       \/ \E p \in Procs : Step(p) \/ Crash(p)
    /\ committed' = IF AllIdle' THEN files' ELSE committed

SerialSpec == SerialInit /\ [][SerialNext]_serialVars

-----------------------------------------------------------------------------

\* TaskLifecycle's view of the records: plan version 1 is accepted and
\* has a mandatory criterion.
LifecycleTask(t) ==
    [status_stage |-> t.status_stage, archived |-> FALSE, latest_planning_run |-> 0,
     latest_implementation_run |-> t.latest_implementation_run,
     latest_validation_run |-> t.latest_validation_run,
     latest_plan_version |-> 1, accepted_plan_version |-> 1]

LifecycleRun(run) ==
    [run_type |-> run.run_type, status |-> run.status, based_on_plan_version |-> 1,
     based_on_implementation_run |-> run.based_on_implementation_run,
     satisfied |-> run.satisfied]

LifecycleRuns(s) == [r \in 1..Len(s) |-> LifecycleRun(s[r])]

Lifecycle == INSTANCE TaskLifecycle WITH
    Questions <- {}, Required <- {}, Answers <- {}, WithoutCriteria <- {},
    MaxPlans <- 1,
    task <- LifecycleTask(committed[1]),
    plans <- <<[status |-> "accepted", basis |-> {}]>>,
    runs <- LifecycleRuns(committed[2]),
    lock <- committed[3],
    questions <- [q \in {} |-> "absent"],
    todos <- "none"

\* A command that runs from its first read to its last write undisturbed
\* does to the files what the one TaskLifecycle action for it does, also
\* when it begins on what a dead process left behind.  (A last write that
\* changes nothing looks like a death; it is no exception.)
CommandsAreAtomic ==
    [][(\E p \in Procs : Crash(p) /\ ~Step(p)) \/ Lifecycle!Next]_committed

\* Even when processes die: there is at most one running run, and a lock on
\* it or on a run whose finish was cut short.
OneRunUnderCrashes ==
    /\ \A r, x \in running_runs : r = x
    /\ lock # NoLock => \A r \in running_runs : r = lock.run_id

\* Even when processes die: the stage never runs ahead of the run records it
\* rests on.  finish writes the run before the task.
EvidenceBeforeStage ==
    /\ task.status_stage = "implemented" =>
          RunIs(task.latest_implementation_run, "implementation", {"finished"})
    /\ task.status_stage = "done" =>
          RunIs(task.latest_validation_run, "validation", {"finished"})
    /\ task.status_stage = "failed_validation" =>
          RunIs(task.latest_validation_run, "validation", {"failed"})
=============================================================================
