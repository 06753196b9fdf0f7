---------------------------- MODULE AdviceProofs ----------------------------
(***************************************************************************)
(* What doctor can find, for any questions, answers and bounds.  The agent *)
(* that follows next-action only runs commands of TaskLifecycle, so the    *)
(* invariant of TaskLifecycleProofs holds for it too; what doctor reads    *)
(* besides is the implementation run a validation run is based on.         *)
(***************************************************************************)
EXTENDS Advice, TaskLifecycleProofs, FiniteSetTheorems

-----------------------------------------------------------------------------
(* The agent is one of the actors of TaskLifecycle *)

\* Whatever next-action names, what the agent then runs is a command of
\* TaskLifecycle with arguments it admits.
LEMMA PerformIsCommand ==
    ASSUME TypeOK, NEW action, perform(action)
    PROVE  Next
<1>1. CASE \E q \in required_open_questions, a \in Answers : answer_question(q, a)
  BY <1>1, ConstantsAssumption DEF Next, QuestionCommand, required_open_questions
<1>2. CASE /\ latest_plan_is("proposed")
           /\ \E new_todos \in BOOLEAN : approve_plan(Len(plans), FALSE, new_todos)
  <2>1. Len(plans) \in Versions
    BY <1>2 DEF latest_plan_is, TypeOK, Versions
  <2> QED BY <1>2, <2>1, Zenon DEF Next, PlanningCommand
<1>3. ASSUME NEW repair \in BOOLEAN,
             resume_implementation(task.latest_implementation_run, repair)
      PROVE  Next
  <2>1. task.latest_implementation_run \in RunIds
    BY <1>3 DEF resume_implementation, RunIs
  <2> QED BY <1>3, <2>1, Zenon DEF Next, ImplementationCommand
<1>4. ASSUME NEW from_answers \in BOOLEAN, upsert_plan(from_answers, FALSE)
      PROVE  Next
  BY <1>4, Zenon DEF Next, PlanningCommand
<1>5. CASE start_planning \/ revise_plan
  BY <1>5 DEF Next, PlanningCommand
<1>6. CASE start_implementation \/ restart_implementation \/ finish_implementation
  BY <1>6 DEF Next, ImplementationCommand
<1>7. CASE set_todo_done(TRUE)
  BY <1>7, Zenon DEF Next, ImplementationCommand
<1>8. CASE start_validation \/ add_validation_check(TRUE) \/ finish_validation("finished")
  BY <1>8, Zenon DEF Next, ValidationCommand
<1>9. CASE break_lock
  BY <1>9 DEF Next, RepairCommand
<1>10. CASE unarchive_task(FALSE)
  BY <1>10, Zenon DEF Next, LifecycleCommand
<1> QED BY <1>1, <1>2, <1>3, <1>4, <1>5, <1>6, <1>7, <1>8, <1>9, <1>10, Zenon DEF perform

\* A step of the agent, or before it sets out, is a command or none.
LEMMA AdviceStep ==
    ASSUME TypeOK, [AdviceNext]_adviceVars
    PROVE  [Next]_vars
<1>1. CASE Setup
  BY <1>1 DEF Setup
<1>2. CASE SetOut
  BY <1>2 DEF SetOut
<1>3. CASE Follow
  BY <1>3, PerformIsCommand DEF Follow
<1>4. CASE UNCHANGED adviceVars
  BY <1>4 DEF adviceVars
<1> QED BY <1>1, <1>2, <1>3, <1>4 DEF AdviceNext

-----------------------------------------------------------------------------
(* The implementation run a validation run names *)

\* A validation run names an implementation run, or none.
BasesKnown ==
    \A r \in RunIds :
       runs[r].run_type = "validation" /\ runs[r].based_on_implementation_run # 0 =>
          RunIs(runs[r].based_on_implementation_run, "implementation", RunStatuses)

\* A step keeps what a saved run is and is based on, and a new one is based on
\* no implementation run or on one there is.
BasesKept ==
    /\ Len(runs') >= Len(runs)
    /\ \A r \in RunIds :
          /\ runs'[r].run_type = runs[r].run_type
          /\ runs'[r].based_on_implementation_run = runs[r].based_on_implementation_run
    /\ \A r \in RunIds' \ RunIds :
          \/ runs'[r].based_on_implementation_run = 0
          \/ RunIs(runs'[r].based_on_implementation_run, "implementation", RunStatuses)

\* Such a step leaves every validation run with its implementation run.
LEMMA BasesCarry ==
    ASSUME TypeOK, TypeOK', BasesKnown, BasesKept
    PROVE  BasesKnown'
<1>1. RunIds \subseteq RunIds'
  BY DEF TypeOK, RunIds, BasesKept
<1>2. \A r \in RunIds' : runs'[r].status \in RunStatuses
  <2>1. runs' \in Seq(TaskRunRecord)
    BY DEF TypeOK
  <2>2. \A r \in RunIds' : runs'[r] \in TaskRunRecord
    BY <2>1 DEF RunIds
  <2> QED BY <2>2 DEF TaskRunRecord
<1>3. ASSUME NEW i, RunIs(i, "implementation", RunStatuses)
      PROVE  RunIs(i, "implementation", RunStatuses)'
  BY <1>1, <1>2, <1>3 DEF RunIs, BasesKept
<1>4. ASSUME NEW r \in RunIds', runs'[r].run_type = "validation",
             runs'[r].based_on_implementation_run # 0
      PROVE  RunIs(runs'[r].based_on_implementation_run, "implementation", RunStatuses)
  BY <1>4 DEF BasesKept, BasesKnown
<1> QED BY <1>3, <1>4 DEF BasesKnown

\* Ending a run changes nothing else about it.
LEMMA EndKeepsBases ==
    ASSUME TypeOK, NEW r \in RunIds, NEW st \in RunStatuses,
           runs' = [runs EXCEPT ![r] = WithStatus(@, st)]
    PROVE  BasesKept
<1>1. runs[r] \in TaskRunRecord /\ Len(runs) \in Nat
  BY DEF TypeOK, RunIds
<1>2. RunIds' = RunIds
  BY EndRun DEF RunIds
<1> QED BY <1>1, <1>2, EndRun, RunWithStatus DEF BasesKept

\* A new run is based on what the command says.
LEMMA AddKeepsBases ==
    ASSUME TypeOK, NEW type \in RunTypes, NEW st \in RunStatuses, NEW i \in 0..MaxRuns,
           Len(runs) < MaxRuns, runs' = Append(runs, NewRun(type, st, i)),
           i = 0 \/ RunIs(i, "implementation", RunStatuses)
    PROVE  BasesKept
<1>1. Len(runs) \in Nat
  BY DEF TypeOK
<1>2. \A r \in RunIds' \ RunIds : r = Len(runs) + 1
  BY <1>1, AddRun DEF RunIds
<1>3. runs'[Len(runs) + 1].based_on_implementation_run = i
  BY AddRun DEF NewRun
<1>4. Len(runs') = Len(runs) + 1 /\ \A r \in RunIds : runs'[r] = runs[r]
  BY AddRun
<1>5. Len(runs') >= Len(runs)
  BY <1>1, <1>4
<1> QED BY <1>2, <1>3, <1>4, <1>5 DEF BasesKept

\* No command changes the base of a run, and the one that starts a validation
\* has looked at the implementation run.
LEMMA BasesStep ==
    ASSUME TypeOK, [Next]_vars
    PROVE  BasesKept
<1> USE DEF RunStatuses
<1>1. 0 \in 0..MaxRuns /\ task.latest_implementation_run \in 0..MaxRuns /\ Len(runs) \in Nat
  BY ConstantsAssumption DEF TypeOK, TaskRecord
<1>2. CASE start_planning
  BY <1>1, <1>2, AddKeepsBases DEF start_planning, start_run, CanStartRun, RunTypes
<1>3. CASE amend_plan
  BY <1>1, <1>3, AddKeepsBases DEF amend_plan, CanStartRun, RunTypes
<1>4. CASE BeginImplementation
  BY <1>1, <1>4, AddKeepsBases DEF BeginImplementation, start_run, CanStartRun, RunTypes
<1>5. CASE start_validation
  <2>1. RunIs(task.latest_implementation_run, "implementation", RunStatuses)
    BY <1>5 DEF start_validation, RunIs
  <2> QED BY <1>1, <1>5, <2>1, AddKeepsBases DEF start_validation, start_run, CanStartRun, RunTypes
<1>6. CASE propose_plan
  BY <1>6, EndKeepsBases DEF propose_plan
<1>7. ASSUME NEW allow, regenerate_plan_from_answers(allow)
      PROVE  BasesKept
  <2>1. \A r \in RunIds : runs[r] \in TaskRunRecord
    BY DEF TypeOK, RunIds
  <2>2. RunIds' = RunIds
    BY <1>7, RegenerateEffect DEF RunIds
  <2> QED BY <1>1, <1>7, <2>1, <2>2, RegenerateEffect, RunWithStatus DEF BasesKept
<1>8. CASE finish_implementation
  BY <1>8, EndKeepsBases DEF finish_implementation, RunIs
<1>9. ASSUME NEW st \in {"finished", "failed"}, finish_validation(st)
      PROVE  BasesKept
  BY <1>9, EndKeepsBases DEF finish_validation, RunIs
<1>10. ASSUME NEW pass \in BOOLEAN, add_validation_check(pass)
       PROVE  BasesKept
  <2>1. RunIds' = RunIds
    BY <1>10, CheckEffect DEF RunIds
  <2> QED BY <1>1, <1>10, <2>1, CheckEffect DEF BasesKept
<1>11. ASSUME NEW r \in RunIds, repair_orphaned_planning_run(r)
       PROVE  BasesKept
  BY <1>11, EndKeepsBases DEF repair_orphaned_planning_run
<1>12. CASE runs' = runs
  BY <1>1, <1>12 DEF BasesKept, RunIds
<1>13. CASE PlanningCommand
  BY <1>2, <1>3, <1>6, <1>7, <1>12, <1>13, UpsertCases
     DEF PlanningCommand, revise_plan, approve_plan, reject_plan
<1>14. CASE ImplementationCommand
  BY <1>4, <1>8, <1>12, <1>14
     DEF ImplementationCommand, start_implementation, restart_implementation,
         resume_implementation, set_todo_done
<1>15. CASE ValidationCommand
  BY <1>5, <1>9, <1>10, <1>15 DEF ValidationCommand
<1>16. CASE RepairCommand
  BY <1>11, <1>12, <1>16 DEF RepairCommand, break_lock
<1>17. CASE QuestionCommand \/ LifecycleCommand \/ LockExpires \/ UNCHANGED vars
  BY <1>12, <1>17 DEF QuestionCommand, add_question, answer_question, dismiss_question,
     LifecycleCommand, cancel_task, uncancel_task, archive_task, unarchive_task,
     LockExpires, vars
<1> QED BY <1>13, <1>14, <1>15, <1>16, <1>17 DEF Next

-----------------------------------------------------------------------------
(* doctor *)

\* What doctor's findings are read from.
AdviceInv == IInv /\ BasesKnown

\* The invariant holds however the agent got its task and follows the advice.
LEMMA AdviceInvariant == AdviceSpec => []AdviceInv
<1>1. AdviceInit => AdviceInv
  <2> SUFFICES ASSUME Init PROVE AdviceInv
    BY DEF AdviceInit
  <2>1. RunIds = {}
    BY DEF Init, RunIds
  <2> QED BY <2>1, InvInit DEF AdviceInv, BasesKnown
<1>2. AdviceInv /\ [AdviceNext]_adviceVars => AdviceInv'
  <2> SUFFICES ASSUME AdviceInv, [AdviceNext]_adviceVars PROVE AdviceInv'
    OBVIOUS
  <2>1. TypeOK
    BY DEF AdviceInv, IInv
  <2>2. [Next]_vars
    BY <2>1, AdviceStep
  <2>3. IInv'
    BY <2>2, InvPreserved DEF AdviceInv
  <2>4. BasesKnown'
    BY <2>1, <2>2, TypePreserved, BasesStep, BasesCarry DEF AdviceInv
  <2> QED BY <2>3, <2>4 DEF AdviceInv
<1> QED BY <1>1, <1>2, PTL DEF AdviceSpec

\* The accepted plans are the one the task names, if it names any.
LEMMA AcceptedPlans ==
    ASSUME AcceptedPlanCoherent, NEW accepted,
           accepted = {v \in Versions : plans[v].status = "accepted"}
    PROVE  /\ task.accepted_plan_version # 0 => Cardinality(accepted) = 1
           /\ ~(Cardinality(accepted) > 1)
<1>1. CASE task.accepted_plan_version \in Versions
  <2>1. accepted = {task.accepted_plan_version}
    BY <1>1 DEF AcceptedPlanCoherent
  <2>2. Cardinality(accepted) = 1
    BY <2>1, FS_Singleton, Zenon
  <2> QED BY <2>2
<1>2. CASE task.accepted_plan_version \notin Versions
  <2>1. accepted = {} /\ task.accepted_plan_version = 0
    BY <1>2 DEF AcceptedPlanCoherent
  <2> QED BY <2>1, FS_EmptySet
<1> QED BY <1>1, <1>2

\* There is at most one running run.
LEMMA RunningRuns ==
    ASSUME RunLockCoherent
    PROVE  ~(Cardinality(running_runs) > 1)
<1>1. CASE running_runs = {}
  BY <1>1, FS_EmptySet
<1>2. ASSUME NEW r \in running_runs PROVE ~(Cardinality(running_runs) > 1)
  <2>1. running_runs = {r}
    BY DEF RunLockCoherent
  <2> QED BY <2>1, FS_Singleton
<1> QED BY <1>1, <1>2

\* However commands follow one another, whatever locks expire or are broken,
\* doctor finds nothing wrong but a run that lost its lock and the stored
\* stage of an implementation in progress.
THEOREM DoctorTheorem == AdviceSpec => []DoctorReportsOnlyOrphans
<1>1. ASSUME AdviceInv PROVE DoctorReportsOnlyOrphans
  <2> DEFINE accepted == {v \in Versions : plans[v].status = "accepted"}
  <2>1. AcceptedPlanCoherent /\ RunLockCoherent /\ BasesKnown
    BY <1>1 DEF AdviceInv, IInv
  <2>2. /\ task.accepted_plan_version # 0 => Cardinality(accepted) = 1
        /\ ~(Cardinality(accepted) > 1)
    BY <2>1, AcceptedPlans
  <2>3. task.accepted_plan_version \in Versions \cup {0}
    BY <2>1 DEF AcceptedPlanCoherent
  <2>4. ~(Cardinality(running_runs) > 1)
    BY <2>1, RunningRuns
  <2>5. lock # NoLock => /\ lock.run_id \in RunIds
                         /\ runs[lock.run_id].status = "running"
                         /\ runs[lock.run_id].run_type = lock.run_type
    BY <2>1 DEF RunLockCoherent, RunIs
  <2>6. ~ \E r \in RunIds : /\ runs[r].run_type = "validation"
                            /\ runs[r].based_on_implementation_run # 0
                            /\ ~RunIs(runs[r].based_on_implementation_run,
                                      "implementation", RunStatuses)
    BY <2>1 DEF BasesKnown
  <2> HIDE DEF accepted
  <2> QED BY <2>2, <2>3, <2>4, <2>5, <2>6 DEF DoctorReportsOnlyOrphans, doctor_errors, accepted
<1> QED BY <1>1, AdviceInvariant, PTL

=============================================================================
