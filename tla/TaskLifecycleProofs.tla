------------------------- MODULE TaskLifecycleProofs -------------------------
(***************************************************************************)
(* Theorems about TaskLifecycle, for every set of questions and answers    *)
(* and every bound on plans and runs.                                      *)
(***************************************************************************)
EXTENDS TaskLifecycle, TLAPS

-----------------------------------------------------------------------------
(* Sequences of records, as the run and plan directories are modelled *)

\* A sequence is a function on its index set, and the other way round.
LEMMA SeqAsFunction ==
    ASSUME NEW S, NEW s \in Seq(S)
    PROVE  /\ Len(s) \in Nat
           /\ s \in [1..Len(s) -> S]
           /\ DOMAIN s = 1..Len(s)
OBVIOUS

\* A function on 1..n is a sequence of length n.
LEMMA FunctionAsSeq ==
    ASSUME NEW S, NEW n \in Nat, NEW f \in [1..n -> S]
    PROVE  f \in Seq(S) /\ Len(f) = n
OBVIOUS

\* Saving a new record after the last one.
LEMMA AppendRecord ==
    ASSUME NEW S, NEW s \in Seq(S), NEW e \in S
    PROVE  /\ Append(s, e) \in Seq(S)
           /\ Len(Append(s, e)) = Len(s) + 1
           /\ \A i \in 1..Len(s) : Append(s, e)[i] = s[i]
           /\ Append(s, e)[Len(s) + 1] = e
OBVIOUS

\* Overwriting one record.
LEMMA ReplaceRecord ==
    ASSUME NEW S, NEW s \in Seq(S), NEW i \in 1..Len(s), NEW e \in S
    PROVE  /\ [s EXCEPT ![i] = e] \in Seq(S)
           /\ Len([s EXCEPT ![i] = e]) = Len(s)
           /\ [s EXCEPT ![i] = e][i] = e
           /\ \A j \in 1..Len(s) : j # i => [s EXCEPT ![i] = e][j] = s[j]
OBVIOUS

-----------------------------------------------------------------------------
(* Records *)

\* replace(run, status=...) changes the status of a run and nothing else.
LEMMA RunWithStatus ==
    ASSUME NEW run \in TaskRunRecord, NEW st \in RunStatuses
    PROVE  /\ WithStatus(run, st) \in TaskRunRecord
           /\ WithStatus(run, st).status = st
           /\ WithStatus(run, st).run_type = run.run_type
           /\ WithStatus(run, st).based_on_plan_version = run.based_on_plan_version
           /\ WithStatus(run, st).based_on_implementation_run = run.based_on_implementation_run
           /\ WithStatus(run, st).satisfied = run.satisfied
BY DEF TaskRunRecord, WithStatus

\* replace(plan, status=...) changes the status of a plan and nothing else.
LEMMA PlanWithStatus ==
    ASSUME NEW plan \in PlanRecord, NEW st \in PlanStatuses
    PROVE  /\ WithStatus(plan, st) \in PlanRecord
           /\ WithStatus(plan, st).status = st
           /\ WithStatus(plan, st).basis = plan.basis
BY DEF PlanRecord, WithStatus

\* A command that ends run r leaves the other runs alone.
LEMMA EndRun ==
    ASSUME TypeOK, NEW r \in RunIds, NEW st \in RunStatuses,
           runs' = [runs EXCEPT ![r] = WithStatus(@, st)]
    PROVE  /\ runs' \in Seq(TaskRunRecord) /\ Len(runs') = Len(runs)
           /\ runs'[r] = WithStatus(runs[r], st)
           /\ \A x \in RunIds : x # r => runs'[x] = runs[x]
<1>1. runs[r] \in TaskRunRecord
  BY DEF TypeOK, RunIds
<1>2. WithStatus(runs[r], st) \in TaskRunRecord
  BY <1>1, RunWithStatus
<1>3. runs' = [runs EXCEPT ![r] = WithStatus(runs[r], st)]
  OBVIOUS
<1> QED BY <1>2, <1>3, ReplaceRecord DEF TypeOK, RunIds

\* A command that saves a new run leaves the old ones alone.
LEMMA AddRun ==
    ASSUME TypeOK, NEW type \in RunTypes, NEW st \in RunStatuses, NEW i \in 0..MaxRuns,
           Len(runs) < MaxRuns, runs' = Append(runs, NewRun(type, st, i))
    PROVE  /\ runs' \in Seq(TaskRunRecord)
           /\ Len(runs') = Len(runs) + 1 /\ Len(runs') <= MaxRuns
           /\ Len(runs) + 1 \in 1..MaxRuns
           /\ runs'[Len(runs) + 1] = NewRun(type, st, i)
           /\ \A x \in RunIds : runs'[x] = runs[x]
<1>1. NewRun(type, st, i) \in TaskRunRecord
  BY DEF TypeOK, NewRun, TaskRunRecord, TaskRecord
<1> QED BY <1>1, AppendRecord, ConstantsAssumption DEF TypeOK, RunIds

\* The field updates the commands make keep the task record well formed.
LEMMA TaskUpdate ==
    ASSUME NEW t \in TaskRecord
    PROVE  /\ \A n \in 0..MaxRuns :
                /\ [t EXCEPT !.latest_planning_run = n] \in TaskRecord
                /\ [t EXCEPT !.latest_validation_run = n] \in TaskRecord
           /\ \A n \in 0..MaxRuns, st \in StoredStages :
                [t EXCEPT !.latest_implementation_run = n, !.status_stage = st] \in TaskRecord
           /\ \A v \in 0..MaxPlans, st \in StoredStages :
                /\ [t EXCEPT !.latest_plan_version = v, !.status_stage = st] \in TaskRecord
                /\ [t EXCEPT !.accepted_plan_version = v, !.status_stage = st] \in TaskRecord
           /\ \A n \in 0..MaxRuns, v \in 0..MaxPlans, st \in StoredStages :
                [t EXCEPT !.latest_planning_run = n, !.latest_plan_version = v,
                          !.status_stage = st] \in TaskRecord
BY DEF TaskRecord

\* The stages the commands of this module store.
LEMMA StageNames ==
    {"draft", "plan_review", "approved", "implementing", "implemented", "done",
     "failed_validation", "cancelled"} \subseteq StoredStages
BY DEF StoredStages, TaskStatusStage

\* A number that names a new or an existing file is within the bounds.
LEMMA IdInBounds ==
    ASSUME NEW n, NEW max \in Nat, n \in 1..max
    PROVE  n \in 0..max
OBVIOUS

\* The answers a plan is based on are answers of known questions.
LEMMA SnapshotType ==
    ASSUME TypeOK
    PROVE  answer_snapshot \in Snapshots
BY DEF TypeOK, answer_snapshot, Snapshots, QuestionStates

\* A command that saves a new plan version leaves the old ones alone.
LEMMA AddPlan ==
    ASSUME TypeOK, NEW basis \in {{}, answer_snapshot},
           Len(plans) < MaxPlans, plans' = AppendPlan(basis)
    PROVE  /\ plans' \in Seq(PlanRecord)
           /\ Len(plans') = Len(plans) + 1 /\ Len(plans') <= MaxPlans
           /\ Len(plans) + 1 \in 1..MaxPlans
           /\ plans'[Len(plans) + 1] = [status |-> "proposed", basis |-> basis]
           /\ \A v \in Versions : plans'[v] = plans[v]
<1>1. [status |-> "proposed", basis |-> basis] \in PlanRecord
  BY SnapshotType DEF PlanRecord, PlanStatuses, Snapshots
<1> QED BY <1>1, AppendRecord, ConstantsAssumption DEF TypeOK, Versions, AppendPlan

\* plan regenerate appends a version and may supersede the one before it.
LEMMA RegenerateEffect ==
    ASSUME TypeOK, NEW allow, regenerate_plan_from_answers(allow)
    PROVE  /\ plans' \in Seq(PlanRecord)
           /\ Len(plans') = Len(plans) + 1 /\ Len(plans') <= MaxPlans
           /\ Len(plans) + 1 \in 1..MaxPlans
           /\ plans'[Len(plans) + 1] = [status |-> "proposed", basis |-> answer_snapshot]
           /\ \A v \in Versions :
                plans'[v] = IF v = Len(plans) /\ plans[v].status = "proposed"
                            THEN WithStatus(plans[v], "superseded") ELSE plans[v]
           /\ runs' \in Seq(TaskRunRecord) /\ Len(runs') = Len(runs)
           /\ \A x \in RunIds : runs'[x] = IF x \in running_runs
                                           THEN WithStatus(runs[x], "finished")
                                           ELSE runs[x]
           /\ running_runs # {} => runs[task.latest_planning_run].run_type = "planning"
                                   /\ running_runs = {task.latest_planning_run}
           /\ task' = [task EXCEPT !.latest_plan_version = Len(plans) + 1,
                                   !.status_stage = "plan_review"]
           /\ lock' = IF running_runs # {} THEN NoLock ELSE lock
           /\ UNCHANGED <<questions, todos>>
<1> DEFINE mark(v) == IF v = Len(plans) /\ plans[v].status = "proposed"
                      THEN WithStatus(plans[v], "superseded") ELSE plans[v]
           end(x) == IF x \in running_runs THEN WithStatus(runs[x], "finished") ELSE runs[x]
           marked == [v \in Versions |-> mark(v)]
           new == [status |-> "proposed", basis |-> answer_snapshot]
<1>1. /\ plans' = Append(marked, new)
      /\ runs' = [x \in RunIds |-> end(x)]
      /\ Len(plans) < MaxPlans
      /\ running_runs # {} => runs[task.latest_planning_run].run_type = "planning"
                              /\ running_runs = {task.latest_planning_run}
      /\ task' = [task EXCEPT !.latest_plan_version = Len(plans) + 1,
                              !.status_stage = "plan_review"]
      /\ lock' = IF running_runs # {} THEN NoLock ELSE lock
      /\ UNCHANGED <<questions, todos>>
  BY DEF regenerate_plan_from_answers
<1>2. \A v \in Versions : mark(v) \in PlanRecord
  <2> SUFFICES ASSUME NEW v \in Versions PROVE mark(v) \in PlanRecord
    OBVIOUS
  <2>1. plans[v] \in PlanRecord
    BY DEF TypeOK, Versions
  <2> QED BY <2>1, PlanWithStatus DEF PlanStatuses
<1>3. marked \in Seq(PlanRecord) /\ Len(marked) = Len(plans)
  <2>1. marked \in [1..Len(plans) -> PlanRecord]
    BY <1>2 DEF Versions
  <2>2. Len(plans) \in Nat
    BY DEF TypeOK
  <2> QED BY <2>1, <2>2, FunctionAsSeq
<1>4. new \in PlanRecord
  BY SnapshotType DEF PlanRecord, PlanStatuses
<1>5. \A x \in RunIds : end(x) \in TaskRunRecord
  <2> SUFFICES ASSUME NEW x \in RunIds PROVE end(x) \in TaskRunRecord
    OBVIOUS
  <2>1. runs[x] \in TaskRunRecord
    BY DEF TypeOK, RunIds
  <2> QED BY <2>1, RunWithStatus DEF RunStatuses
<1>6. runs' \in Seq(TaskRunRecord) /\ Len(runs') = Len(runs)
  <2>1. runs' \in [1..Len(runs) -> TaskRunRecord]
    BY <1>1, <1>5 DEF RunIds
  <2>2. Len(runs) \in Nat
    BY DEF TypeOK
  <2> QED BY <2>1, <2>2, FunctionAsSeq
<1>7. \A v \in Versions : marked[v] = mark(v)
  OBVIOUS
<1>8. /\ plans' \in Seq(PlanRecord)
      /\ Len(plans') = Len(plans) + 1 /\ Len(plans') <= MaxPlans
      /\ Len(plans) + 1 \in 1..MaxPlans
      /\ plans'[Len(plans) + 1] = new
      /\ \A v \in Versions : plans'[v] = mark(v)
  <2> HIDE DEF marked, new, mark
  <2> QED BY <1>1, <1>3, <1>4, <1>7, AppendRecord, ConstantsAssumption DEF TypeOK, Versions
<1>9. \A x \in RunIds : runs'[x] = end(x)
  BY <1>1
<1> QED BY <1>1, <1>6, <1>8, <1>9

\* plan approve accepts one version and supersedes every other that was not
\* rejected.
LEMMA ApproveEffect ==
    ASSUME TypeOK, NEW v \in Versions, NEW allow, NEW new_todos \in BOOLEAN,
           approve_plan(v, allow, new_todos)
    PROVE  /\ plans' \in Seq(PlanRecord) /\ Len(plans') = Len(plans)
           /\ \A w \in Versions :
                plans'[w] = IF w = v THEN WithStatus(plans[w], "accepted")
                            ELSE IF plans[w].status = "rejected" THEN plans[w]
                            ELSE WithStatus(plans[w], "superseded")
<1> DEFINE g(w) == IF w = v THEN WithStatus(plans[w], "accepted")
                   ELSE IF plans[w].status = "rejected" THEN plans[w]
                   ELSE WithStatus(plans[w], "superseded")
<1>1. plans' = [w \in Versions |-> g(w)]
  BY DEF approve_plan
<1>2. \A w \in Versions : g(w) \in PlanRecord
  <2> SUFFICES ASSUME NEW w \in Versions PROVE g(w) \in PlanRecord
    OBVIOUS
  <2>1. plans[w] \in PlanRecord
    BY DEF TypeOK, Versions
  <2> QED BY <2>1, PlanWithStatus DEF PlanStatuses
<1>3. plans' \in [1..Len(plans) -> PlanRecord]
  BY <1>1, <1>2 DEF Versions
<1>4. Len(plans) \in Nat
  BY DEF TypeOK
<1>5. plans' \in Seq(PlanRecord) /\ Len(plans') = Len(plans)
  BY <1>3, <1>4, FunctionAsSeq
<1> QED BY <1>1, <1>5

\* plan reject rewrites the latest version only.
LEMMA RejectEffect ==
    ASSUME TypeOK, reject_plan
    PROVE  /\ plans' \in Seq(PlanRecord) /\ Len(plans') = Len(plans)
           /\ Len(plans) \in Versions
           /\ plans'[Len(plans)] = WithStatus(plans[Len(plans)], "rejected")
           /\ \A w \in Versions : w # Len(plans) => plans'[w] = plans[w]
<1>1. Len(plans) \in 1..Len(plans)
  BY DEF TypeOK, reject_plan
<1>2. WithStatus(plans[Len(plans)], "rejected") \in PlanRecord
  BY <1>1, PlanWithStatus DEF TypeOK, PlanStatuses
<1>3. plans' = [plans EXCEPT ![Len(plans)] = WithStatus(plans[Len(plans)], "rejected")]
  BY DEF reject_plan
<1> QED BY <1>1, <1>2, <1>3, ReplaceRecord DEF TypeOK, Versions

-----------------------------------------------------------------------------
(* Type correctness *)

\* upsert_plan is one of the commands it delegates to.
LEMMA UpsertCases ==
    ASSUME NEW from_answers, NEW allow, upsert_plan(from_answers, allow)
    PROVE  \/ regenerate_plan_from_answers(allow)
           \/ propose_plan
           \/ amend_plan
BY DEF upsert_plan

\* plan start leaves well-formed records.
LEMMA TypeStartPlanning ==
    ASSUME TypeOK, start_planning
    PROVE  TypeOK'
<1>1. 0 \in 0..MaxRuns /\ "planning" \in RunTypes /\ "running" \in RunStatuses
  BY ConstantsAssumption DEF RunTypes, RunStatuses
<1>2. runs' = Append(runs, NewRun("planning", "running", 0)) /\ Len(runs) < MaxRuns
  BY DEF start_planning, start_run, CanStartRun
<1>3. runs' \in Seq(TaskRunRecord) /\ Len(runs') <= MaxRuns /\ Len(runs) + 1 \in 1..MaxRuns
  BY <1>1, <1>2, AddRun
<1>4. lock' \in TaskLock
  BY <1>3 DEF start_planning, start_run, LockFor, TaskLock, RunTypes
<1>5. task' \in TaskRecord
  BY <1>3, IdInBounds, TaskUpdate, ConstantsAssumption DEF TypeOK, start_planning
<1> QED BY <1>3, <1>4, <1>5 DEF TypeOK, start_planning

\* plan propose leaves well-formed records.
LEMMA TypePropose ==
    ASSUME TypeOK, propose_plan
    PROVE  TypeOK'
<1>1. PICK basis \in {{}, answer_snapshot} : plans' = AppendPlan(basis)
  BY DEF propose_plan
<1>2. plans' \in Seq(PlanRecord) /\ Len(plans') <= MaxPlans /\ Len(plans) + 1 \in 1..MaxPlans
  BY <1>1, AddPlan DEF propose_plan
<1>3. runs' \in Seq(TaskRunRecord) /\ Len(runs') = Len(runs)
  BY EndRun DEF propose_plan, RunStatuses
<1>4. lock' \in TaskLock \cup {NoLock}
  BY DEF propose_plan, release_lock, TypeOK
<1>5. task' \in TaskRecord
  BY <1>2, IdInBounds, StageNames, TaskUpdate, ConstantsAssumption DEF TypeOK, propose_plan
<1> QED BY <1>2, <1>3, <1>4, <1>5 DEF TypeOK, propose_plan

\* plan amend leaves well-formed records.
LEMMA TypeAmend ==
    ASSUME TypeOK, amend_plan
    PROVE  TypeOK'
<1>1. PICK basis \in {{}, answer_snapshot} : plans' = AppendPlan(basis)
  BY DEF amend_plan
<1>2. plans' \in Seq(PlanRecord) /\ Len(plans') <= MaxPlans /\ Len(plans) + 1 \in 1..MaxPlans
  BY <1>1, AddPlan DEF amend_plan
<1>3. 0 \in 0..MaxRuns /\ "planning" \in RunTypes /\ "finished" \in RunStatuses
  BY ConstantsAssumption DEF RunTypes, RunStatuses
<1>4. runs' \in Seq(TaskRunRecord) /\ Len(runs') <= MaxRuns /\ Len(runs) + 1 \in 1..MaxRuns
  BY <1>3, AddRun DEF amend_plan, CanStartRun
<1>5. task' \in TaskRecord
  BY <1>2, <1>4, IdInBounds, StageNames, TaskUpdate, ConstantsAssumption
     DEF TypeOK, amend_plan
<1> QED BY <1>2, <1>4, <1>5 DEF TypeOK, amend_plan

\* plan regenerate leaves well-formed records.
LEMMA TypeRegenerate ==
    ASSUME TypeOK, NEW allow, regenerate_plan_from_answers(allow)
    PROVE  TypeOK'
<1>1. task' \in TaskRecord
  <2>1. /\ Len(plans) + 1 \in 1..MaxPlans
        /\ task' = [task EXCEPT !.latest_plan_version = Len(plans) + 1,
                                !.status_stage = "plan_review"]
    BY RegenerateEffect
  <2> QED BY <2>1, IdInBounds, StageNames, TaskUpdate, ConstantsAssumption DEF TypeOK
<1>2. lock' \in TaskLock \cup {NoLock}
  BY RegenerateEffect DEF TypeOK
<1> QED BY <1>1, <1>2, RegenerateEffect DEF TypeOK

\* plan approve leaves well-formed records.
LEMMA TypeApprove ==
    ASSUME TypeOK, NEW v \in Versions, NEW allow, NEW new_todos \in BOOLEAN,
           approve_plan(v, allow, new_todos)
    PROVE  TypeOK'
<1>1. v \in 0..MaxPlans
  BY ConstantsAssumption DEF TypeOK, Versions
<1>2. task' \in TaskRecord
  BY <1>1, StageNames, TaskUpdate DEF TypeOK, approve_plan
<1> QED BY <1>2, ApproveEffect DEF TypeOK, approve_plan

\* plan reject leaves well-formed records.
LEMMA TypeReject ==
    ASSUME TypeOK, reject_plan
    PROVE  TypeOK'
<1>1. task' \in TaskRecord
  BY DEF TypeOK, reject_plan, TaskRecord, StoredStages, TaskStatusStage
<1> QED BY <1>1, RejectEffect DEF TypeOK, reject_plan

\* The question commands leave well-formed records.
LEMMA TypeQuestions ==
    ASSUME TypeOK, QuestionCommand
    PROVE  TypeOK'
BY DEF TypeOK, QuestionCommand, add_question, answer_question, dismiss_question,
       QuestionStates

\* implement start and restart leave well-formed records.
LEMMA TypeBeginImplementation ==
    ASSUME TypeOK, BeginImplementation
    PROVE  TypeOK'
<1>1. 0 \in 0..MaxRuns /\ "implementation" \in RunTypes /\ "running" \in RunStatuses
  BY ConstantsAssumption DEF RunTypes, RunStatuses
<1>2. runs' = Append(runs, NewRun("implementation", "running", 0)) /\ Len(runs) < MaxRuns
  BY DEF BeginImplementation, start_run, CanStartRun
<1>3. runs' \in Seq(TaskRunRecord) /\ Len(runs') <= MaxRuns /\ Len(runs) + 1 \in 1..MaxRuns
  BY <1>1, <1>2, AddRun
<1>4. lock' \in TaskLock
  BY <1>3 DEF BeginImplementation, start_run, LockFor, TaskLock, RunTypes
<1>5. task' \in TaskRecord
  BY <1>3, IdInBounds, StageNames, TaskUpdate, ConstantsAssumption
     DEF TypeOK, BeginImplementation
<1> QED BY <1>3, <1>4, <1>5 DEF TypeOK, BeginImplementation

\* implement resume leaves well-formed records.
LEMMA TypeResume ==
    ASSUME TypeOK, NEW r \in RunIds, NEW repair, resume_implementation(r, repair)
    PROVE  TypeOK'
<1>1. r \in 1..MaxRuns
  BY ConstantsAssumption DEF TypeOK, RunIds
<1>2. task' \in TaskRecord
  BY <1>1, IdInBounds, StageNames, TaskUpdate, ConstantsAssumption
     DEF TypeOK, resume_implementation
<1>3. lock' \in TaskLock
  BY <1>1 DEF resume_implementation, LockFor, TaskLock, RunTypes
<1> QED BY <1>2, <1>3 DEF TypeOK, resume_implementation

\* implement finish leaves well-formed records.
LEMMA TypeFinishImplementation ==
    ASSUME TypeOK, finish_implementation
    PROVE  TypeOK'
<1>1. runs' \in Seq(TaskRunRecord) /\ Len(runs') = Len(runs)
  BY EndRun DEF finish_implementation, RunStatuses, RunIs
<1>2. task' \in TaskRecord
  BY DEF TypeOK, finish_implementation, TaskRecord, StoredStages, TaskStatusStage
<1> QED BY <1>1, <1>2 DEF TypeOK, finish_implementation, release_lock

\* todo done leaves well-formed records.
LEMMA TypeTodos ==
    ASSUME TypeOK, NEW done \in BOOLEAN, set_todo_done(done)
    PROVE  TypeOK'
BY DEF TypeOK, set_todo_done

\* validate start leaves well-formed records.
LEMMA TypeStartValidation ==
    ASSUME TypeOK, start_validation
    PROVE  TypeOK'
<1> DEFINE i == task.latest_implementation_run
<1>1. i \in 0..MaxRuns /\ "validation" \in RunTypes /\ "running" \in RunStatuses
  BY DEF TypeOK, TaskRecord, RunTypes, RunStatuses
<1>2. runs' = Append(runs, NewRun("validation", "running", i)) /\ Len(runs) < MaxRuns
  BY DEF start_validation, start_run, CanStartRun
<1>3. runs' \in Seq(TaskRunRecord) /\ Len(runs') <= MaxRuns /\ Len(runs) + 1 \in 1..MaxRuns
  BY <1>1, <1>2, AddRun
<1>4. lock' \in TaskLock
  BY <1>3 DEF start_validation, start_run, LockFor, TaskLock, RunTypes
<1>5. task' \in TaskRecord
  BY <1>3, IdInBounds, TaskUpdate, ConstantsAssumption DEF TypeOK, start_validation
<1> QED BY <1>3, <1>4, <1>5 DEF TypeOK, start_validation

\* validate check rewrites one field of the running validation run.
LEMMA CheckEffect ==
    ASSUME TypeOK, NEW pass \in BOOLEAN, add_validation_check(pass)
    PROVE  LET r == task.latest_validation_run IN
           /\ r \in running_runs
           /\ runs' \in Seq(TaskRunRecord) /\ Len(runs') = Len(runs)
           /\ \A x \in RunIds : x # r => runs'[x] = runs[x]
           /\ runs'[r].status = runs[r].status
           /\ runs'[r].run_type = runs[r].run_type
           /\ runs'[r].based_on_plan_version = runs[r].based_on_plan_version
           /\ runs'[r].based_on_implementation_run = runs[r].based_on_implementation_run
<1> DEFINE r == task.latest_validation_run
           e == [runs[r] EXCEPT !.satisfied = pass]
<1>1. r \in RunIds /\ r \in running_runs
  BY DEF add_validation_check, RunIs, running_runs
<1>2. runs[r] \in TaskRunRecord
  BY <1>1 DEF TypeOK, RunIds
<1>3. \A run \in TaskRunRecord :
        /\ [run EXCEPT !.satisfied = pass] \in TaskRunRecord
        /\ [run EXCEPT !.satisfied = pass].status = run.status
        /\ [run EXCEPT !.satisfied = pass].run_type = run.run_type
        /\ [run EXCEPT !.satisfied = pass].based_on_plan_version = run.based_on_plan_version
        /\ [run EXCEPT !.satisfied = pass].based_on_implementation_run
             = run.based_on_implementation_run
  BY DEF TaskRunRecord
<1>4. runs' = [runs EXCEPT ![r] = e]
  BY DEF add_validation_check
<1>5. /\ e \in TaskRunRecord
      /\ e.status = runs[r].status
      /\ e.run_type = runs[r].run_type
      /\ e.based_on_plan_version = runs[r].based_on_plan_version
      /\ e.based_on_implementation_run = runs[r].based_on_implementation_run
  BY <1>2, <1>3
<1> HIDE DEF e
<1> QED BY <1>1, <1>4, <1>5, ReplaceRecord DEF TypeOK, RunIds

\* validate check leaves well-formed records.
LEMMA TypeCheck ==
    ASSUME TypeOK, NEW pass \in BOOLEAN, add_validation_check(pass)
    PROVE  TypeOK'
BY CheckEffect DEF TypeOK, add_validation_check

\* validate finish leaves well-formed records.
LEMMA TypeFinishValidation ==
    ASSUME TypeOK, NEW st \in {"finished", "failed"}, finish_validation(st)
    PROVE  TypeOK'
<1>1. runs' \in Seq(TaskRunRecord) /\ Len(runs') = Len(runs)
  BY EndRun DEF finish_validation, RunStatuses, RunIs
<1>2. task' \in TaskRecord
  BY DEF TypeOK, finish_validation, TaskRecord, StoredStages, TaskStatusStage
<1> QED BY <1>1, <1>2 DEF TypeOK, finish_validation, release_lock

\* lock break and repair run leave well-formed records.
LEMMA TypeRepair ==
    ASSUME TypeOK, RepairCommand
    PROVE  TypeOK'
<1>1. CASE break_lock
  BY <1>1 DEF TypeOK, break_lock
<1>2. ASSUME NEW r \in RunIds, repair_orphaned_planning_run(r)
      PROVE  TypeOK'
  <2>1. runs' \in Seq(TaskRunRecord) /\ Len(runs') = Len(runs)
    BY <1>2, EndRun DEF repair_orphaned_planning_run, RunStatuses
  <2> QED BY <1>2, <2>1 DEF TypeOK, repair_orphaned_planning_run
<1> QED BY <1>1, <1>2 DEF RepairCommand

\* An expired lock is still a lock record.
LEMMA TypeExpires ==
    ASSUME TypeOK, LockExpires
    PROVE  TypeOK'
<1>1. lock \in TaskLock
  BY DEF TypeOK, LockExpires
<1>2. lock' \in TaskLock
  BY <1>1 DEF LockExpires, TaskLock
<1> QED BY <1>2 DEF TypeOK, LockExpires

\* Cancellation and archive leave well-formed records.
LEMMA TypeLifecycle ==
    ASSUME TypeOK, LifecycleCommand
    PROVE  TypeOK'
<1>1. CASE cancel_task
  BY <1>1 DEF TypeOK, cancel_task, TaskRecord, StoredStages, TaskStatusStage
<1>2. ASSUME NEW to \in {"none"} \cup StoredStages, uncancel_task(to)
      PROVE  TypeOK'
  <2> DEFINE target == IF to = "none" THEN infer_uncancel_target ELSE to
  <2>1. task' = [task EXCEPT !.status_stage = target]
    BY <1>2 DEF uncancel_task
  <2>2. target \in StoredStages
    BY DEF infer_uncancel_target, StoredStages, TaskStatusStage
  <2> HIDE DEF target
  <2> QED BY <1>2, <2>1, <2>2 DEF TypeOK, TaskRecord, uncancel_task
<1>3. ASSUME NEW force \in BOOLEAN, archive_task(force)
      PROVE  TypeOK'
  BY <1>3 DEF TypeOK, archive_task, TaskRecord
<1>4. ASSUME NEW reopen \in BOOLEAN, unarchive_task(reopen)
      PROVE  TypeOK'
  BY <1>4 DEF TypeOK, unarchive_task, TaskRecord, StoredStages, TaskStatusStage
<1> QED BY <1>1, <1>2, <1>3, <1>4 DEF LifecycleCommand

\* Every command leaves well-formed records behind.
LEMMA TypePreserved ==
    ASSUME TypeOK, [Next]_vars
    PROVE  TypeOK'
<1>1. CASE PlanningCommand
  BY <1>1, UpsertCases, TypeStartPlanning, TypePropose, TypeAmend, TypeRegenerate,
     TypeApprove, TypeReject DEF PlanningCommand, revise_plan
<1>2. CASE QuestionCommand
  BY <1>2, TypeQuestions
<1>3. CASE ImplementationCommand
  BY <1>3, TypeBeginImplementation, TypeResume, TypeFinishImplementation, TypeTodos
     DEF ImplementationCommand, start_implementation, restart_implementation
<1>4. CASE ValidationCommand
  BY <1>4, TypeStartValidation, TypeCheck, TypeFinishValidation DEF ValidationCommand
<1>5. CASE RepairCommand
  BY <1>5, TypeRepair
<1>6. CASE LifecycleCommand
  BY <1>6, TypeLifecycle
<1>7. CASE LockExpires
  BY <1>7, TypeExpires
<1>8. CASE UNCHANGED vars
  BY <1>8 DEF TypeOK, vars
<1> QED BY <1>1, <1>2, <1>3, <1>4, <1>5, <1>6, <1>7, <1>8 DEF Next

\* A task as created is well formed.
LEMMA TypeInit ==
    ASSUME Init
    PROVE  TypeOK
BY ConstantsAssumption
   DEF Init, TypeOK, TaskRecord, StoredStages, TaskStatusStage, QuestionStates

\* The records read back are always ones the commands can have written: in
\* particular no command stores the stage "planning" or "validating".
THEOREM TypeCorrect == Spec => []TypeOK
<1>1. Init => TypeOK
  BY TypeInit
<1>2. TypeOK /\ [Next]_vars => TypeOK'
  BY TypePreserved
<1> QED BY <1>1, <1>2, PTL DEF Spec

-----------------------------------------------------------------------------
(* The inductive invariant *)

\* The run ids in the task record are those of saved runs of their type.
LatestRunsKnown ==
    /\ task.latest_planning_run # 0 => RunIs(task.latest_planning_run, "planning", RunStatuses)
    /\ task.latest_implementation_run # 0 =>
          RunIs(task.latest_implementation_run, "implementation", RunStatuses)
    /\ task.latest_validation_run # 0 =>
          RunIs(task.latest_validation_run, "validation", RunStatuses)

\* Once work has started the task keeps an accepted plan.
WorkHasPlan == task.latest_implementation_run # 0 => task.accepted_plan_version # 0

\* A validation that is under way is of the latest implementation run, on
\* the plan version that is accepted: neither moves until it ends.
ValidationInProgress ==
    \A r \in running_runs : runs[r].run_type = "validation" =>
       /\ runs[r].based_on_implementation_run = task.latest_implementation_run
       /\ runs[r].based_on_plan_version = task.accepted_plan_version

IInv ==
    /\ TypeOK
    /\ LatestRunsKnown
    /\ RunLockCoherent
    /\ AcceptedPlanCoherent
    /\ WorkHasPlan
    /\ WorkBasedOnAcceptedPlan
    /\ ImplementingHasRun
    /\ ValidationInProgress
    /\ DoneWasValidated

-----------------------------------------------------------------------------
(* What a class of commands has to show to preserve the invariant *)

\* The task record keeps the run ids and the accepted version.
SameIds ==
    /\ task'.latest_planning_run = task.latest_planning_run
    /\ task'.latest_implementation_run = task.latest_implementation_run
    /\ task'.latest_validation_run = task.latest_validation_run
    /\ task'.accepted_plan_version = task.accepted_plan_version

\* No plan version disappears, and none that was accepted once is forgotten.
PlansGrow ==
    \A v \in Versions :
       /\ v \in Versions'
       /\ plans[v].status \in {"accepted", "superseded"} =>
             plans'[v].status \in {"accepted", "superseded"}

\* The task record's run id of each type, before and after a step.
LEMMA LatestRunIs ==
    /\ latest_run("planning") = task.latest_planning_run
    /\ latest_run("implementation") = task.latest_implementation_run
    /\ latest_run("validation") = task.latest_validation_run
    /\ latest_run("planning")' = task'.latest_planning_run
    /\ latest_run("implementation")' = task'.latest_implementation_run
    /\ latest_run("validation")' = task'.latest_validation_run
BY DEF latest_run

\* A saved run has the fields of one.
LEMMA RunFields ==
    ASSUME TypeOK, NEW r \in RunIds
    PROVE  /\ runs[r] \in TaskRunRecord
           /\ runs[r].run_type \in RunTypes
           /\ runs[r].status \in RunStatuses
<1>1. runs[r] \in TaskRunRecord
  BY DEF TypeOK, RunIds
<1> QED BY <1>1 DEF TaskRunRecord

\* A command that leaves plans, runs and ids alone: questions, todos, lock
\* repair, cancellation and archive.
LEMMA SameRecords ==
    ASSUME IInv, TypeOK', SameIds, runs' = runs, plans' = plans,
           task'.latest_plan_version = task.latest_plan_version,
           lock' # NoLock => RunIs(lock'.run_id, lock'.run_type, {"running"}),
           task'.status_stage = "plan_review" =>
              latest_plan_is("proposed") \/ latest_plan_is("rejected"),
           task'.status_stage = "implementing" =>
              RunIs(task.latest_implementation_run, "implementation", {"running"}),
           task'.status_stage = "done" => task.status_stage = "done"
    PROVE  IInv'
<1>1. LatestRunsKnown'
  BY DEF IInv, LatestRunsKnown, SameIds, RunIs, RunIds
<1>2. RunLockCoherent'
  <2>1. running_runs' = running_runs
    BY DEF running_runs, RunIds
  <2>2. \A type \in RunTypes : latest_run(type)' = latest_run(type)
    BY LatestRunIs DEF SameIds, RunTypes
  <2>3. \A r \in running_runs : runs[r].run_type \in RunTypes
    BY RunFields DEF IInv, running_runs
  <2> QED BY <2>1, <2>2, <2>3 DEF IInv, RunLockCoherent, RunIs, RunIds
<1>3. AcceptedPlanCoherent'
  BY DEF IInv, AcceptedPlanCoherent, SameIds, Versions, latest_plan_is
<1>4. WorkHasPlan' /\ WorkBasedOnAcceptedPlan'
  BY DEF IInv, WorkHasPlan, WorkBasedOnAcceptedPlan, SameIds, Versions, RunIds
<1>5. ImplementingHasRun'
  BY DEF ImplementingHasRun, SameIds, RunIs, RunIds
<1>6. ValidationInProgress'
  BY DEF IInv, ValidationInProgress, SameIds, running_runs, RunIds
<1>7. DoneWasValidated'
  BY DEF IInv, DoneWasValidated, SameIds, RunIs, RunIds, accepted_plan_record, Versions
<1> QED BY <1>1, <1>2, <1>3, <1>4, <1>5, <1>6, <1>7 DEF IInv

\* Every run stays on a plan that was accepted once.
LEMMA WorkStaysOnPlan ==
    ASSUME IInv, PlansGrow,
           \A x \in RunIds' : runs'[x].run_type = "implementation" =>
              \/ /\ x \in RunIds
                 /\ runs[x].run_type = "implementation"
                 /\ runs'[x].based_on_plan_version = runs[x].based_on_plan_version
              \/ /\ runs'[x].based_on_plan_version \in Versions
                 /\ plans[runs'[x].based_on_plan_version].status = "accepted"
    PROVE  WorkBasedOnAcceptedPlan'
BY DEF IInv, WorkBasedOnAcceptedPlan, PlansGrow

\* A command that ends the running run r and gives up its lock: plan propose,
\* plan regenerate, the finish commands and the repair of a planning run.
LEMMA RunEnded ==
    ASSUME IInv, TypeOK', SameIds, PlansGrow, AcceptedPlanCoherent', DoneWasValidated',
           NEW r \in running_runs, NEW st \in {"finished", "failed"},
           Len(runs') = Len(runs), runs'[r] = WithStatus(runs[r], st),
           \A x \in RunIds : x # r => runs'[x] = runs[x],
           lock' = NoLock,
           task'.status_stage = "implementing" =>
              task.status_stage = "implementing" /\ runs[r].run_type # "implementation"
    PROVE  IInv'
<1>1. RunIds' = RunIds
  BY DEF RunIds
<1>2. r \in RunIds /\ runs[r] \in TaskRunRecord
  BY RunFields DEF IInv, running_runs
<1>3. /\ runs'[r].status = st
      /\ runs'[r].run_type = runs[r].run_type
      /\ runs'[r].based_on_plan_version = runs[r].based_on_plan_version
      /\ runs'[r].based_on_implementation_run = runs[r].based_on_implementation_run
  BY <1>2, RunWithStatus DEF RunStatuses
<1>4. \A x \in RunIds : /\ runs'[x].run_type = runs[x].run_type
                        /\ runs'[x].based_on_plan_version = runs[x].based_on_plan_version
                        /\ runs'[x].status \in RunStatuses
  BY <1>3, RunFields DEF IInv, RunStatuses
<1>5. running_runs' = {}
  <2> SUFFICES ASSUME NEW x \in running_runs' PROVE FALSE
    OBVIOUS
  <2>1. x \in RunIds /\ runs'[x].status = "running"
    BY <1>1 DEF running_runs
  <2>2. x # r
    BY <1>3, <2>1
  <2>3. x \in running_runs
    BY <2>1, <2>2 DEF running_runs
  <2> QED BY <2>2, <2>3 DEF IInv, RunLockCoherent
<1>6. LatestRunsKnown'
  BY <1>1, <1>4 DEF IInv, LatestRunsKnown, SameIds, RunIs
<1>7. RunLockCoherent'
  BY <1>5 DEF RunLockCoherent
<1>8. WorkHasPlan'
  BY DEF IInv, WorkHasPlan, SameIds
<1>9. WorkBasedOnAcceptedPlan'
  BY <1>1, <1>4, WorkStaysOnPlan
<1>10. ImplementingHasRun'
  <2> SUFFICES ASSUME task'.status_stage = "implementing"
               PROVE  RunIs(task.latest_implementation_run, "implementation", {"running"})'
    BY DEF ImplementingHasRun
  <2>1. RunIs(task.latest_implementation_run, "implementation", {"running"})
    BY DEF IInv, ImplementingHasRun
  <2> QED BY <1>1, <2>1 DEF RunIs, SameIds
<1>11. ValidationInProgress'
  BY <1>5 DEF ValidationInProgress
<1> QED BY <1>6, <1>7, <1>8, <1>9, <1>10, <1>11 DEF IInv

\* A command that saves a new run: the start commands, which leave it running
\* under a lock, and plan amend, which finishes it at once.
LEMMA RunAdded ==
    ASSUME IInv, TypeOK', PlansGrow, AcceptedPlanCoherent',
           NEW type \in RunTypes, NEW st \in RunStatuses, NEW i \in 0..MaxRuns,
           Len(runs') = Len(runs) + 1, runs'[Len(runs) + 1] = NewRun(type, st, i),
           \A x \in RunIds : runs'[x] = runs[x],
           running_runs = {},
           lock' = IF st = "running" THEN LockFor(type, Len(runs) + 1) ELSE NoLock,
           task'.latest_planning_run =
              IF type = "planning" THEN Len(runs) + 1 ELSE task.latest_planning_run,
           task'.latest_implementation_run =
              IF type = "implementation" THEN Len(runs) + 1 ELSE task.latest_implementation_run,
           task'.latest_validation_run =
              IF type = "validation" THEN Len(runs) + 1 ELSE task.latest_validation_run,
           task'.accepted_plan_version = task.accepted_plan_version,
           type = "implementation" => accepted_plan_record /\ st = "running",
           type = "validation" => /\ i = task.latest_implementation_run
                                  /\ task.latest_implementation_run # 0,
           task'.status_stage = "implementing" => type = "implementation",
           task'.status_stage # "done"
    PROVE  IInv'
<1> DEFINE n == Len(runs) + 1
<1>1. /\ RunIds' = RunIds \cup {n}
      /\ n \notin RunIds
      /\ n # 0
  BY DEF RunIds, IInv, TypeOK
<1>2. /\ runs'[n].run_type = type
      /\ runs'[n].status = st
      /\ runs'[n].based_on_implementation_run = i
      /\ task.accepted_plan_version # 0 =>
            runs'[n].based_on_plan_version = task.accepted_plan_version
  BY DEF NewRun
<1> HIDE DEF n
<1>3. running_runs' = IF st = "running" THEN {n} ELSE {}
  BY <1>1, <1>2 DEF running_runs
<1>4. LatestRunsKnown'
  BY <1>1, <1>2 DEF IInv, LatestRunsKnown, RunIs, n
<1>5. RunLockCoherent'
  <2>1. latest_run(type)' = n
    BY LatestRunIs DEF RunTypes, n
  <2>2. \A r \in running_runs' : r = latest_run(runs[r].run_type)'
    BY <1>2, <1>3, <2>1
  <2>3. lock' # NoLock => RunIs(lock.run_id, lock.run_type, {"running"})'
    BY <1>1, <1>2 DEF LockFor, RunIs, n
  <2> QED BY <1>3, <2>2, <2>3 DEF RunLockCoherent
<1>6. type = "implementation" => /\ task.accepted_plan_version \in Versions
                                 /\ task.accepted_plan_version # 0
                                 /\ plans[task.accepted_plan_version].status = "accepted"
  BY DEF accepted_plan_record, IInv, TypeOK, Versions
<1>7. WorkHasPlan'
  BY <1>6 DEF IInv, WorkHasPlan
<1>8. WorkBasedOnAcceptedPlan'
  BY <1>1, <1>2, <1>6, WorkStaysOnPlan
<1>9. ImplementingHasRun'
  BY <1>1, <1>2 DEF ImplementingHasRun, RunIs, n
<1>10. ValidationInProgress'
  <2>1. type = "validation" => task.accepted_plan_version # 0
    BY DEF IInv, WorkHasPlan
  <2> QED BY <1>2, <1>3, <2>1 DEF ValidationInProgress
<1>11. DoneWasValidated'
  BY DEF DoneWasValidated
<1> QED BY <1>4, <1>5, <1>7, <1>8, <1>9, <1>10, <1>11 DEF IInv

\* A command that touches plan versions while no run is in progress.
LEMMA PlansChanged ==
    ASSUME IInv, TypeOK', PlansGrow, AcceptedPlanCoherent',
           runs' = runs, lock' = lock,
           task'.latest_planning_run = task.latest_planning_run,
           task'.latest_implementation_run = task.latest_implementation_run,
           task'.latest_validation_run = task.latest_validation_run,
           task.accepted_plan_version # 0 => task'.accepted_plan_version # 0,
           running_runs = {} \/ task'.accepted_plan_version = task.accepted_plan_version,
           task'.status_stage \notin {"implementing", "done"}
    PROVE  IInv'
<1>1. RunIds' = RunIds /\ running_runs' = running_runs
  BY DEF RunIds, running_runs
<1>2. LatestRunsKnown'
  BY <1>1 DEF IInv, LatestRunsKnown, RunIs
<1>3. RunLockCoherent'
  <2>1. \A type \in RunTypes : latest_run(type)' = latest_run(type)
    BY LatestRunIs DEF RunTypes
  <2>2. \A r \in running_runs : runs[r].run_type \in RunTypes
    BY RunFields DEF IInv, running_runs
  <2> QED BY <1>1, <2>1, <2>2 DEF IInv, RunLockCoherent, RunIs
<1>4. WorkHasPlan'
  BY DEF IInv, WorkHasPlan
<1>5. WorkBasedOnAcceptedPlan'
  BY <1>1, WorkStaysOnPlan
<1>6. ImplementingHasRun' /\ DoneWasValidated'
  BY DEF ImplementingHasRun, DoneWasValidated
<1>7. ValidationInProgress'
  BY <1>1 DEF IInv, ValidationInProgress
<1> QED BY <1>2, <1>3, <1>4, <1>5, <1>6, <1>7 DEF IInv

-----------------------------------------------------------------------------
(* The plan records, command by command *)

\* The plan under review has not been accepted.
LEMMA ReviewedPlan ==
    ASSUME IInv, task.status_stage = "plan_review"
    PROVE  /\ Len(plans) \in Versions
           /\ plans[Len(plans)].status \in {"proposed", "rejected"}
BY DEF IInv, TypeOK, AcceptedPlanCoherent, latest_plan_is, Versions

\* The accepted version is never 0 once there is an accepted plan.
LEMMA AcceptedVersion ==
    ASSUME IInv
    PROVE  task.accepted_plan_version \in Versions \cup {0}
BY DEF IInv, AcceptedPlanCoherent

\* Appending a version leaves the accepted one accepted, whether or not the
\* version before is superseded.
LEMMA VersionAppended ==
    ASSUME IInv,
           Len(plans') = Len(plans) + 1,
           plans'[Len(plans) + 1].status = "proposed",
           \A v \in Versions :
              \/ plans'[v].status = plans[v].status
              \/ plans[v].status = "proposed" /\ plans'[v].status = "superseded",
           task'.accepted_plan_version = task.accepted_plan_version,
           task'.latest_plan_version = Len(plans) + 1
    PROVE  PlansGrow /\ AcceptedPlanCoherent'
<1> DEFINE n == Len(plans) + 1
<1>1. /\ Versions' = Versions \cup {n}
      /\ n \notin Versions
      /\ n # 0
      /\ Len(plans') = n
  BY DEF Versions, IInv, TypeOK
<1>2. PlansGrow
  BY <1>1 DEF PlansGrow
<1>3. \A v \in Versions' : plans'[v].status = "accepted" <=> v = task'.accepted_plan_version
  BY <1>1, AcceptedVersion DEF IInv, AcceptedPlanCoherent
<1>4. task'.accepted_plan_version \in Versions' \cup {0}
  BY <1>1, AcceptedVersion
<1>5. latest_plan_is("proposed")'
  BY <1>1 DEF latest_plan_is, IInv, TypeOK
<1> QED BY <1>2, <1>3, <1>4, <1>5 DEF AcceptedPlanCoherent

\* plan start takes the lock for a run the task record names.
LEMMA StartPlanningKeeps ==
    ASSUME IInv, start_planning
    PROVE  IInv'
<1>1. TypeOK'
  BY TypeStartPlanning DEF IInv
<1>2. 0 \in 0..MaxRuns /\ "planning" \in RunTypes /\ "running" \in RunStatuses
  BY ConstantsAssumption DEF RunTypes, RunStatuses
<1>3. /\ Len(runs) < MaxRuns /\ running_runs = {} /\ plans' = plans
      /\ runs' = Append(runs, NewRun("planning", "running", 0))
      /\ lock' = LockFor("planning", Len(runs) + 1)
      /\ task.status_stage \in {"draft", "plan_review"}
  BY DEF start_planning, start_run, CanStartRun
<1>4. /\ Len(runs') = Len(runs) + 1
      /\ runs'[Len(runs) + 1] = NewRun("planning", "running", 0)
      /\ \A x \in RunIds : runs'[x] = runs[x]
  BY <1>2, <1>3, AddRun DEF IInv
<1>5. /\ task'.latest_planning_run = Len(runs) + 1
      /\ task'.latest_implementation_run = task.latest_implementation_run
      /\ task'.latest_validation_run = task.latest_validation_run
      /\ task'.accepted_plan_version = task.accepted_plan_version
      /\ task'.latest_plan_version = task.latest_plan_version
      /\ task'.status_stage = task.status_stage
  BY DEF IInv, TypeOK, TaskRecord, start_planning
<1>6. PlansGrow /\ AcceptedPlanCoherent'
  BY <1>3, <1>5 DEF IInv, PlansGrow, AcceptedPlanCoherent, Versions, latest_plan_is
<1> QED BY <1>1, <1>2, <1>3, <1>4, <1>5, <1>6, RunAdded

\* plan propose ends its run, releases its lock and adds a proposed version.
LEMMA ProposeKeeps ==
    ASSUME IInv, propose_plan
    PROVE  IInv'
<1> DEFINE r == task.latest_planning_run
<1>1. TypeOK'
  BY TypePropose DEF IInv
<1>2. r \in running_runs /\ lock.run_id = r /\ lock.run_type = "planning"
  BY DEF propose_plan, plan_propose_decision, derive_active_stage, running_runs
<1>3. lock' = NoLock
  BY <1>2 DEF propose_plan, release_lock
<1>4. /\ Len(runs') = Len(runs) /\ runs'[r] = WithStatus(runs[r], "finished")
      /\ \A x \in RunIds : x # r => runs'[x] = runs[x]
  BY EndRun DEF IInv, propose_plan, RunStatuses
<1>5. PICK basis \in {{}, answer_snapshot} : plans' = AppendPlan(basis)
  BY DEF propose_plan
<1>6. /\ Len(plans') = Len(plans) + 1
      /\ plans'[Len(plans) + 1].status = "proposed"
      /\ \A v \in Versions : plans'[v] = plans[v]
  <2>1. TypeOK /\ Len(plans) < MaxPlans
    BY DEF IInv, propose_plan
  <2>2. /\ Len(plans') = Len(plans) + 1
        /\ plans'[Len(plans) + 1] = [status |-> "proposed", basis |-> basis]
        /\ \A v \in Versions : plans'[v] = plans[v]
    BY <1>5, <2>1, AddPlan
  <2> QED BY <2>2
<1>7. SameIds /\ task'.latest_plan_version = Len(plans) + 1
              /\ task'.status_stage = "plan_review"
  BY DEF IInv, TypeOK, TaskRecord, propose_plan, SameIds
<1>8. PlansGrow /\ AcceptedPlanCoherent'
  BY <1>6, <1>7, VersionAppended DEF SameIds
<1>9. DoneWasValidated'
  BY <1>7 DEF DoneWasValidated
<1> QED BY <1>1, <1>2, <1>3, <1>4, <1>7, <1>8, <1>9, RunEnded

\* plan amend saves a finished run and a proposed version.
LEMMA AmendKeeps ==
    ASSUME IInv, amend_plan
    PROVE  IInv'
<1>1. TypeOK'
  BY TypeAmend DEF IInv
<1>2. 0 \in 0..MaxRuns /\ "planning" \in RunTypes /\ "finished" \in RunStatuses
  BY ConstantsAssumption DEF RunTypes, RunStatuses
<1>3. /\ Len(runs) < MaxRuns /\ running_runs = {} /\ lock' = NoLock
      /\ runs' = Append(runs, NewRun("planning", "finished", 0))
  BY DEF amend_plan, CanStartRun
<1>4. /\ Len(runs') = Len(runs) + 1
      /\ runs'[Len(runs) + 1] = NewRun("planning", "finished", 0)
      /\ \A x \in RunIds : runs'[x] = runs[x]
  BY <1>2, <1>3, AddRun DEF IInv
<1>5. PICK basis \in {{}, answer_snapshot} : plans' = AppendPlan(basis)
  BY DEF amend_plan
<1>6. /\ Len(plans') = Len(plans) + 1
      /\ plans'[Len(plans) + 1].status = "proposed"
      /\ \A v \in Versions : plans'[v] = plans[v]
  <2>1. TypeOK /\ Len(plans) < MaxPlans
    BY DEF IInv, amend_plan
  <2>2. /\ Len(plans') = Len(plans) + 1
        /\ plans'[Len(plans) + 1] = [status |-> "proposed", basis |-> basis]
        /\ \A v \in Versions : plans'[v] = plans[v]
    BY <1>5, <2>1, AddPlan
  <2> QED BY <2>2
<1>7. /\ task'.latest_planning_run = Len(runs) + 1
      /\ task'.latest_implementation_run = task.latest_implementation_run
      /\ task'.latest_validation_run = task.latest_validation_run
      /\ task'.accepted_plan_version = task.accepted_plan_version
      /\ task'.latest_plan_version = Len(plans) + 1
      /\ task'.status_stage = "plan_review"
  BY DEF IInv, TypeOK, TaskRecord, amend_plan
<1>8. PlansGrow /\ AcceptedPlanCoherent'
  BY <1>6, <1>7, VersionAppended
<1> QED BY <1>1, <1>2, <1>3, <1>4, <1>7, <1>8, RunAdded

\* plan regenerate, with or without a planning run in progress.
LEMMA RegenerateKeeps ==
    ASSUME IInv, NEW allow, regenerate_plan_from_answers(allow)
    PROVE  IInv'
<1>1. TypeOK'
  BY TypeRegenerate DEF IInv
<1>2. /\ SameIds /\ task'.latest_plan_version = Len(plans) + 1
      /\ task'.status_stage = "plan_review"
  <2>1. task' = [task EXCEPT !.latest_plan_version = Len(plans) + 1,
                             !.status_stage = "plan_review"]
    BY RegenerateEffect DEF IInv
  <2> QED BY <2>1 DEF IInv, TypeOK, TaskRecord, SameIds
<1>3. \A v \in Versions :
        \/ plans'[v].status = plans[v].status
        \/ plans[v].status = "proposed" /\ plans'[v].status = "superseded"
  <2> SUFFICES ASSUME NEW v \in Versions
               PROVE  \/ plans'[v].status = plans[v].status
                      \/ plans[v].status = "proposed" /\ plans'[v].status = "superseded"
    OBVIOUS
  <2>1. plans'[v] = plans[v] \/ /\ plans[v].status = "proposed"
                                /\ plans'[v] = WithStatus(plans[v], "superseded")
    BY RegenerateEffect DEF IInv
  <2>2. plans[v] \in PlanRecord
    BY DEF IInv, TypeOK, Versions
  <2> QED BY <2>1, <2>2, PlanWithStatus DEF PlanStatuses
<1>4. PlansGrow /\ AcceptedPlanCoherent'
  <2>1. Len(plans') = Len(plans) + 1 /\ plans'[Len(plans) + 1].status = "proposed"
    BY RegenerateEffect DEF IInv
  <2> QED BY <1>2, <1>3, <2>1, VersionAppended DEF SameIds
<1>5. CASE running_runs = {}
  <2>1. runs' = runs
    <3>1. runs' \in Seq(TaskRunRecord) /\ Len(runs') = Len(runs)
      BY RegenerateEffect DEF IInv
    <3>2. \A x \in 1..Len(runs) : runs'[x] = runs[x]
      BY <1>5, RegenerateEffect DEF IInv, RunIds
    <3>3. runs' \in [1..Len(runs) -> TaskRunRecord] /\ runs \in [1..Len(runs) -> TaskRunRecord]
      BY <3>1, SeqAsFunction DEF IInv, TypeOK
    <3> QED BY <3>2, <3>3
  <2>2. lock' = lock
    BY <1>5, RegenerateEffect DEF IInv
  <2> QED BY <1>1, <1>2, <1>4, <2>1, <2>2, PlansChanged DEF SameIds
<1>6. CASE running_runs # {}
  <2> DEFINE r == task.latest_planning_run
  <2>1. running_runs = {r} /\ runs[r].run_type = "planning" /\ lock' = NoLock
    BY <1>6, RegenerateEffect DEF IInv
  <2>2. r \in RunIds
    BY <2>1 DEF running_runs
  <2>3. /\ Len(runs') = Len(runs) /\ runs'[r] = WithStatus(runs[r], "finished")
        /\ \A x \in RunIds : x # r => runs'[x] = runs[x]
    BY <2>1, <2>2, RegenerateEffect DEF IInv
  <2>4. DoneWasValidated'
    BY <1>2 DEF DoneWasValidated
  <2> QED BY <1>1, <1>2, <1>4, <2>1, <2>3, <2>4, RunEnded
<1> QED BY <1>5, <1>6

\* plan approve moves the accepted version while nothing runs.
LEMMA ApproveKeeps ==
    ASSUME IInv, NEW v \in Versions, NEW allow, NEW new_todos \in BOOLEAN,
           approve_plan(v, allow, new_todos)
    PROVE  IInv'
<1>1. TypeOK'
  BY TypeApprove DEF IInv
<1>2. /\ task'.latest_planning_run = task.latest_planning_run
      /\ task'.latest_implementation_run = task.latest_implementation_run
      /\ task'.latest_validation_run = task.latest_validation_run
      /\ task'.accepted_plan_version = v
      /\ task'.latest_plan_version = task.latest_plan_version
      /\ task'.status_stage = "approved"
  BY DEF IInv, TypeOK, TaskRecord, approve_plan
<1>3. v # 0 /\ Versions' = Versions /\ Len(plans') = Len(plans)
  BY ApproveEffect DEF IInv, Versions
<1>4. \A w \in Versions :
        /\ w = v => plans'[w].status = "accepted"
        /\ w # v => plans'[w].status \in {plans[w].status, "superseded"} \ {"accepted"}
        /\ plans'[w].status = plans[w].status \/ plans'[w].status \in {"accepted", "superseded"}
  <2> SUFFICES ASSUME NEW w \in Versions
               PROVE  /\ w = v => plans'[w].status = "accepted"
                      /\ w # v => plans'[w].status \in {plans[w].status, "superseded"} \ {"accepted"}
                      /\ \/ plans'[w].status = plans[w].status
                         \/ plans'[w].status \in {"accepted", "superseded"}
    OBVIOUS
  <2>1. plans[w] \in PlanRecord
    BY DEF IInv, TypeOK, Versions
  <2>2. plans'[w] = IF w = v THEN WithStatus(plans[w], "accepted")
                    ELSE IF plans[w].status = "rejected" THEN plans[w]
                    ELSE WithStatus(plans[w], "superseded")
    BY ApproveEffect DEF IInv
  <2> QED BY <2>1, <2>2, PlanWithStatus DEF PlanStatuses
<1>5. PlansGrow
  BY <1>3, <1>4 DEF PlansGrow
<1>6. AcceptedPlanCoherent'
  BY <1>2, <1>3, <1>4 DEF AcceptedPlanCoherent, IInv
<1>7. runs' = runs /\ lock' = lock /\ running_runs = {}
  BY DEF approve_plan
<1> QED BY <1>1, <1>2, <1>3, <1>5, <1>6, <1>7, PlansChanged

\* plan reject never touches an accepted version.
LEMMA RejectKeeps ==
    ASSUME IInv, reject_plan
    PROVE  IInv'
<1>1. TypeOK'
  BY TypeReject DEF IInv
<1>2. SameIds /\ task'.latest_plan_version = task.latest_plan_version
              /\ task'.status_stage = "plan_review"
  BY DEF IInv, TypeOK, TaskRecord, SameIds, reject_plan
<1>3. /\ Len(plans) \in Versions
      /\ plans[Len(plans)].status \in {"proposed", "rejected"}
  BY ReviewedPlan DEF reject_plan, plan_approve_decision
<1>4. Len(plans') = Len(plans) /\ Versions' = Versions
  BY RejectEffect DEF IInv, Versions
<1>5. plans'[Len(plans)].status = "rejected"
  <2>1. plans[Len(plans)] \in PlanRecord
    BY <1>3 DEF IInv, TypeOK, Versions
  <2>2. plans'[Len(plans)] = WithStatus(plans[Len(plans)], "rejected")
    BY RejectEffect DEF IInv
  <2> QED BY <2>1, <2>2, PlanWithStatus DEF PlanStatuses
<1>6. \A w \in Versions : w # Len(plans) => plans'[w] = plans[w]
  BY RejectEffect DEF IInv
<1>7. PlansGrow
  BY <1>3, <1>4, <1>6 DEF PlansGrow
<1>8. AcceptedPlanCoherent'
  <2>1. latest_plan_is("rejected")'
    BY <1>3, <1>4, <1>5 DEF latest_plan_is, Versions, IInv, TypeOK
  <2>2. \A v \in Versions : plans'[v].status = "accepted" <=> v = task.accepted_plan_version
    BY <1>3, <1>5, <1>6 DEF IInv, AcceptedPlanCoherent
  <2> QED BY <1>2, <1>4, <2>1, <2>2 DEF AcceptedPlanCoherent, SameIds, IInv
<1>9. runs' = runs /\ lock' = lock
  BY DEF reject_plan
<1> QED BY <1>1, <1>2, <1>7, <1>8, <1>9, PlansChanged DEF SameIds

-----------------------------------------------------------------------------
(* The run records, command by command *)

\* implement start and restart begin on the accepted version.
LEMMA BeginImplementationKeeps ==
    ASSUME IInv, BeginImplementation
    PROVE  IInv'
<1>1. TypeOK'
  BY TypeBeginImplementation DEF IInv
<1>2. 0 \in 0..MaxRuns /\ "implementation" \in RunTypes /\ "running" \in RunStatuses
  BY ConstantsAssumption DEF RunTypes, RunStatuses
<1>3. /\ Len(runs) < MaxRuns /\ running_runs = {} /\ plans' = plans
      /\ runs' = Append(runs, NewRun("implementation", "running", 0))
      /\ lock' = LockFor("implementation", Len(runs) + 1)
      /\ accepted_plan_record
  BY DEF BeginImplementation, start_run, CanStartRun
<1>4. /\ Len(runs') = Len(runs) + 1
      /\ runs'[Len(runs) + 1] = NewRun("implementation", "running", 0)
      /\ \A x \in RunIds : runs'[x] = runs[x]
  BY <1>2, <1>3, AddRun DEF IInv
<1>5. /\ task'.latest_planning_run = task.latest_planning_run
      /\ task'.latest_implementation_run = Len(runs) + 1
      /\ task'.latest_validation_run = task.latest_validation_run
      /\ task'.accepted_plan_version = task.accepted_plan_version
      /\ task'.latest_plan_version = task.latest_plan_version
      /\ task'.status_stage = "implementing"
  BY DEF IInv, TypeOK, TaskRecord, BeginImplementation
<1>6. PlansGrow /\ AcceptedPlanCoherent'
  BY <1>3, <1>5 DEF IInv, PlansGrow, AcceptedPlanCoherent, Versions, latest_plan_is
<1> QED BY <1>1, <1>2, <1>3, <1>4, <1>5, <1>6, RunAdded

\* validate start is for the latest implementation run.
LEMMA StartValidationKeeps ==
    ASSUME IInv, start_validation
    PROVE  IInv'
<1> DEFINE i == task.latest_implementation_run
<1>1. TypeOK'
  BY TypeStartValidation DEF IInv
<1>2. i \in 0..MaxRuns /\ "validation" \in RunTypes /\ "running" \in RunStatuses
  BY DEF IInv, TypeOK, TaskRecord, RunTypes, RunStatuses
<1>3. /\ Len(runs) < MaxRuns /\ running_runs = {} /\ plans' = plans
      /\ runs' = Append(runs, NewRun("validation", "running", i))
      /\ lock' = LockFor("validation", Len(runs) + 1)
      /\ i # 0
      /\ task.status_stage = "implemented"
  BY DEF start_validation, start_run, CanStartRun, RunIs, RunIds
<1>4. /\ Len(runs') = Len(runs) + 1
      /\ runs'[Len(runs) + 1] = NewRun("validation", "running", i)
      /\ \A x \in RunIds : runs'[x] = runs[x]
  BY <1>2, <1>3, AddRun DEF IInv
<1>5. /\ task'.latest_planning_run = task.latest_planning_run
      /\ task'.latest_implementation_run = task.latest_implementation_run
      /\ task'.latest_validation_run = Len(runs) + 1
      /\ task'.accepted_plan_version = task.accepted_plan_version
      /\ task'.latest_plan_version = task.latest_plan_version
      /\ task'.status_stage = task.status_stage
  BY DEF IInv, TypeOK, TaskRecord, start_validation
<1>6. PlansGrow /\ AcceptedPlanCoherent'
  BY <1>3, <1>5 DEF IInv, PlansGrow, AcceptedPlanCoherent, Versions, latest_plan_is
<1> QED BY <1>1, <1>2, <1>3, <1>4, <1>5, <1>6, RunAdded

\* A lock, if there is one, is the lock of the run that is running.
LEMMA LockOfRun ==
    ASSUME IInv, NEW r \in running_runs, lock # NoLock
    PROVE  lock.run_id = r /\ lock.run_type = runs[r].run_type
BY DEF IInv, RunLockCoherent, RunIs, running_runs

\* implement finish ends the run of an implementing task.
LEMMA FinishImplementationKeeps ==
    ASSUME IInv, finish_implementation
    PROVE  IInv'
<1> DEFINE r == task.latest_implementation_run
<1>1. TypeOK'
  BY TypeFinishImplementation DEF IInv
<1>2. r \in RunIds /\ r \in running_runs /\ runs[r].run_type = "implementation"
  BY DEF finish_implementation, RunIs, running_runs
<1>3. lock' = NoLock
  BY <1>2, LockOfRun DEF finish_implementation, release_lock
<1>4. /\ Len(runs') = Len(runs) /\ runs'[r] = WithStatus(runs[r], "finished")
      /\ \A x \in RunIds : x # r => runs'[x] = runs[x]
  BY <1>2, EndRun DEF IInv, finish_implementation, RunStatuses
<1>5. SameIds /\ task'.latest_plan_version = task.latest_plan_version
              /\ task'.status_stage = "implemented"
  BY DEF IInv, TypeOK, TaskRecord, SameIds, finish_implementation
<1>6. PlansGrow /\ AcceptedPlanCoherent'
  BY <1>5 DEF IInv, finish_implementation, PlansGrow, AcceptedPlanCoherent, SameIds,
              Versions, latest_plan_is
<1>7. DoneWasValidated'
  BY <1>5 DEF DoneWasValidated
<1> QED BY <1>1, <1>2, <1>3, <1>4, <1>5, <1>6, <1>7, RunEnded

\* validate finish records the evidence of a done task.
LEMMA FinishValidationKeeps ==
    ASSUME IInv, NEW st \in {"finished", "failed"}, finish_validation(st)
    PROVE  IInv'
<1> DEFINE r == task.latest_validation_run
           i == task.latest_implementation_run
<1>1. TypeOK'
  BY TypeFinishValidation DEF IInv
<1>2. r \in RunIds /\ r \in running_runs /\ runs[r].run_type = "validation"
  BY DEF finish_validation, RunIs, running_runs
<1>3. lock' = NoLock
  BY <1>2, LockOfRun DEF finish_validation, release_lock
<1>4. /\ Len(runs') = Len(runs) /\ runs'[r] = WithStatus(runs[r], st)
      /\ \A x \in RunIds : x # r => runs'[x] = runs[x]
  BY <1>2, EndRun DEF IInv, finish_validation, RunStatuses
<1>5. SameIds /\ task'.latest_plan_version = task.latest_plan_version
              /\ task'.status_stage = IF st = "finished" THEN "done" ELSE "failed_validation"
  BY DEF IInv, TypeOK, TaskRecord, SameIds, finish_validation
<1>6. PlansGrow /\ AcceptedPlanCoherent'
  BY <1>5 DEF IInv, finish_validation, PlansGrow, AcceptedPlanCoherent, SameIds,
              Versions, latest_plan_is
<1>7. DoneWasValidated'
  <2> SUFFICES ASSUME st = "finished" PROVE DoneWasValidated'
    BY <1>5 DEF DoneWasValidated
  <2>1. /\ accepted_plan_record
        /\ task.accepted_plan_version \in WithoutCriteria \/ runs[r].satisfied
        /\ i \in RunIds /\ runs[i].status = "finished"
    BY DEF finish_validation, can_finish_passed
  <2>2. /\ runs[r].based_on_implementation_run = i
        /\ runs[r].based_on_plan_version = task.accepted_plan_version
    BY <1>2 DEF IInv, ValidationInProgress
  <2>3. /\ runs'[r].run_type = "validation" /\ runs'[r].status = "finished"
        /\ runs'[r].satisfied = runs[r].satisfied
        /\ runs'[r].based_on_implementation_run = i
        /\ runs'[r].based_on_plan_version = task.accepted_plan_version
    BY <1>2, <1>4, <2>2, RunFields, RunWithStatus DEF IInv, RunStatuses
  <2>4. runs'[i] = runs[i] /\ runs[i].run_type = "implementation"
    BY <1>2, <1>4, <2>1 DEF IInv, LatestRunsKnown, RunIs, RunIds, running_runs
  <2>5. RunIds' = RunIds /\ accepted_plan_record'
    BY <1>4, <1>5, <2>1 DEF RunIds, accepted_plan_record, finish_validation, SameIds, Versions
  <2> QED BY <1>2, <1>5, <2>1, <2>3, <2>4, <2>5 DEF DoneWasValidated, RunIs, SameIds
<1> QED BY <1>1, <1>2, <1>3, <1>4, <1>5, <1>6, <1>7, RunEnded

\* validate check changes only what the running validation has established.
LEMMA CheckKeeps ==
    ASSUME IInv, NEW pass \in BOOLEAN, add_validation_check(pass)
    PROVE  IInv'
<1> DEFINE r == task.latest_validation_run
<1>1. TypeOK'
  BY TypeCheck DEF IInv
<1>2. /\ task' = task /\ plans' = plans /\ lock' = lock
      /\ task.status_stage = "implemented"
  BY DEF add_validation_check, validation_check_decision
<1>3. r \in running_runs /\ r \in RunIds /\ RunIds' = RunIds
  BY CheckEffect DEF IInv, running_runs, RunIds
<1>4. \A x \in RunIds :
        /\ runs'[x].run_type = runs[x].run_type
        /\ runs'[x].status = runs[x].status
        /\ runs'[x].based_on_plan_version = runs[x].based_on_plan_version
        /\ runs'[x].based_on_implementation_run = runs[x].based_on_implementation_run
  BY CheckEffect DEF IInv
<1>5. running_runs' = running_runs
  BY <1>3, <1>4 DEF running_runs
<1>6. LatestRunsKnown'
  BY <1>2, <1>3, <1>4 DEF IInv, LatestRunsKnown, RunIs
<1>7. RunLockCoherent'
  <2>1. \A type \in RunTypes : latest_run(type)' = latest_run(type)
    BY <1>2, LatestRunIs DEF RunTypes
  <2>2. \A x \in running_runs : runs[x].run_type \in RunTypes /\ x \in RunIds
    BY RunFields DEF IInv, running_runs
  <2> QED BY <1>2, <1>3, <1>4, <1>5, <2>1, <2>2 DEF IInv, RunLockCoherent, RunIs
<1>8. AcceptedPlanCoherent' /\ WorkHasPlan'
  BY <1>2 DEF IInv, AcceptedPlanCoherent, WorkHasPlan, Versions, latest_plan_is
<1>9. WorkBasedOnAcceptedPlan'
  BY <1>2, <1>3, <1>4, WorkStaysOnPlan DEF PlansGrow, Versions
<1>10. ImplementingHasRun' /\ DoneWasValidated'
  BY <1>2 DEF ImplementingHasRun, DoneWasValidated
<1>11. ValidationInProgress'
  BY <1>2, <1>4, <1>5 DEF IInv, ValidationInProgress, running_runs
<1> QED BY <1>1, <1>6, <1>7, <1>8, <1>9, <1>10, <1>11 DEF IInv

\* repair run ends a planning run that lost its lock.
LEMMA RepairPlanningKeeps ==
    ASSUME IInv, NEW r \in RunIds, repair_orphaned_planning_run(r)
    PROVE  IInv'
<1>1. TypeOK'
  BY TypeRepair DEF IInv, RepairCommand
<1>2. r \in running_runs /\ runs[r].run_type = "planning"
  BY DEF repair_orphaned_planning_run, RunIs, running_runs
<1>3. lock' = NoLock /\ task' = task /\ plans' = plans
  BY DEF repair_orphaned_planning_run
<1>4. /\ Len(runs') = Len(runs) /\ runs'[r] = WithStatus(runs[r], "finished")
      /\ \A x \in RunIds : x # r => runs'[x] = runs[x]
  BY EndRun DEF IInv, repair_orphaned_planning_run, RunStatuses
<1>5. SameIds /\ PlansGrow /\ AcceptedPlanCoherent'
  BY <1>3 DEF IInv, SameIds, PlansGrow, AcceptedPlanCoherent, Versions, latest_plan_is
<1>6. DoneWasValidated'
  BY <1>2, <1>3, <1>4 DEF IInv, DoneWasValidated, RunIs, RunIds, accepted_plan_record, Versions
<1> QED BY <1>1, <1>2, <1>3, <1>4, <1>5, <1>6, RunEnded

-----------------------------------------------------------------------------
(* The commands that leave plans and runs alone *)

\* The stage is left as it is, and so is the lock, or it goes.
LEMMA SameTask ==
    ASSUME IInv, TypeOK', task' = task, plans' = plans, runs' = runs,
           lock' # NoLock => /\ lock # NoLock
                             /\ lock'.run_id = lock.run_id
                             /\ lock'.run_type = lock.run_type
    PROVE  IInv'
<1>1. SameIds
  BY DEF SameIds
<1>2. lock' # NoLock => RunIs(lock'.run_id, lock'.run_type, {"running"})
  BY DEF IInv, RunLockCoherent
<1>3. task.status_stage = "plan_review" =>
         latest_plan_is("proposed") \/ latest_plan_is("rejected")
  BY DEF IInv, AcceptedPlanCoherent
<1>4. task.status_stage = "implementing" =>
         RunIs(task.latest_implementation_run, "implementation", {"running"})
  BY DEF IInv, ImplementingHasRun
<1> QED BY <1>1, <1>2, <1>3, <1>4, SameRecords

\* Questions touch neither the plans nor the runs.
LEMMA QuestionsKeep ==
    ASSUME IInv, QuestionCommand
    PROVE  IInv'
<1>1. TypeOK'
  BY TypeQuestions DEF IInv
<1>2. UNCHANGED <<task, plans, runs, lock>>
  BY DEF QuestionCommand, add_question, answer_question, dismiss_question
<1> QED BY <1>1, <1>2, SameTask

\* Todos touch neither the plans nor the runs.
LEMMA TodosKeep ==
    ASSUME IInv, NEW done \in BOOLEAN, set_todo_done(done)
    PROVE  IInv'
<1>1. TypeOK'
  BY TypeTodos DEF IInv
<1> QED BY <1>1, SameTask DEF set_todo_done

\* lock break only takes the lock away.
LEMMA BreakLockKeeps ==
    ASSUME IInv, break_lock
    PROVE  IInv'
<1>1. TypeOK'
  BY TypeRepair DEF IInv, RepairCommand
<1> QED BY <1>1, SameTask DEF break_lock

\* A lock that expires still names its run.
LEMMA ExpiryKeeps ==
    ASSUME IInv, LockExpires
    PROVE  IInv'
<1>1. TypeOK'
  BY TypeExpires DEF IInv
<1>2. lock \in TaskLock
  BY DEF IInv, TypeOK, LockExpires
<1>3. lock # NoLock /\ lock'.run_id = lock.run_id /\ lock'.run_type = lock.run_type
  BY <1>2 DEF LockExpires, TaskLock
<1> QED BY <1>1, <1>3, SameTask DEF LockExpires

\* implement resume gives the lock back to the one running run.
LEMMA ResumeKeeps ==
    ASSUME IInv, NEW r \in RunIds, NEW repair, resume_implementation(r, repair)
    PROVE  IInv'
<1>1. TypeOK'
  BY TypeResume DEF IInv
<1>2. RunIs(r, "implementation", {"running"}) /\ r \in running_runs
  BY DEF resume_implementation, RunIs, running_runs
<1>3. r = task.latest_implementation_run
  BY <1>2, LatestRunIs DEF IInv, RunLockCoherent, RunIs
<1>4. SameIds /\ task'.latest_plan_version = task.latest_plan_version
              /\ task'.status_stage = "implementing"
  BY <1>3 DEF IInv, TypeOK, TaskRecord, SameIds, resume_implementation
<1>5. RunIs(lock'.run_id, lock'.run_type, {"running"})
  BY <1>2 DEF resume_implementation, LockFor
<1>6. runs' = runs /\ plans' = plans
  BY DEF resume_implementation
<1> QED BY <1>1, <1>2, <1>3, <1>4, <1>5, <1>6, SameRecords

\* Cancellation and archive restore only stages the records support.
LEMMA LifecycleKeeps ==
    ASSUME IInv, LifecycleCommand
    PROVE  IInv'
<1>1. TypeOK'
  BY TypeLifecycle DEF IInv
<1>2. runs' = runs /\ plans' = plans
  BY DEF LifecycleCommand, cancel_task, uncancel_task, archive_task, unarchive_task
<1>3. lock' # NoLock => RunIs(lock'.run_id, lock'.run_type, {"running"})
  BY DEF LifecycleCommand, cancel_task, uncancel_task, archive_task, unarchive_task,
         IInv, RunLockCoherent
<1>4. SameIds /\ task'.latest_plan_version = task.latest_plan_version
  BY DEF LifecycleCommand, cancel_task, uncancel_task, archive_task, unarchive_task,
         IInv, TypeOK, TaskRecord, SameIds
<1>5. \/ task'.status_stage = task.status_stage
      \/ task'.status_stage \in {"cancelled", "failed_validation"}
      \/ validate_uncancel_target(task'.status_stage)
  <2>1. CASE cancel_task
    BY <2>1 DEF cancel_task, IInv, TypeOK, TaskRecord
  <2>2. ASSUME NEW to \in {"none"} \cup StoredStages, uncancel_task(to)
        PROVE  validate_uncancel_target(task'.status_stage)
    <3> DEFINE target == IF to = "none" THEN infer_uncancel_target ELSE to
    <3>1. task' = [task EXCEPT !.status_stage = target] /\ validate_uncancel_target(target)
      BY <2>2 DEF uncancel_task
    <3> HIDE DEF target
    <3>2. task'.status_stage = target
      BY <3>1 DEF IInv, TypeOK, TaskRecord
    <3> QED BY <3>1, <3>2
  <2>3. ASSUME NEW force \in BOOLEAN, archive_task(force)
        PROVE  task'.status_stage = task.status_stage
    BY <2>3 DEF archive_task, IInv, TypeOK, TaskRecord
  <2>4. ASSUME NEW reopen \in BOOLEAN, unarchive_task(reopen)
        PROVE  task'.status_stage \in {task.status_stage, "failed_validation"}
    BY <2>4 DEF unarchive_task, IInv, TypeOK, TaskRecord
  <2> QED BY <2>1, <2>2, <2>3, <2>4 DEF LifecycleCommand
<1>6. /\ task'.status_stage = "plan_review" =>
            latest_plan_is("proposed") \/ latest_plan_is("rejected")
      /\ task'.status_stage = "implementing" =>
            RunIs(task.latest_implementation_run, "implementation", {"running"})
      /\ task'.status_stage = "done" => task.status_stage = "done"
  BY <1>5 DEF validate_uncancel_target, IInv, AcceptedPlanCoherent, ImplementingHasRun
<1> QED BY <1>1, <1>2, <1>3, <1>4, <1>6, SameRecords

-----------------------------------------------------------------------------
(* The invariant is inductive *)

\* The invariant holds of a task as created.
LEMMA InvInit ==
    ASSUME Init
    PROVE  IInv
<1>1. TypeOK
  BY TypeInit
<1>2. /\ plans = <<>> /\ runs = <<>> /\ lock = NoLock
      /\ task.status_stage = "draft" /\ task.latest_planning_run = 0
      /\ task.latest_implementation_run = 0 /\ task.latest_validation_run = 0
      /\ task.latest_plan_version = 0 /\ task.accepted_plan_version = 0
  BY DEF Init
<1>3. RunIds = {} /\ running_runs = {} /\ Versions = {}
  BY <1>2 DEF RunIds, running_runs, Versions
<1> QED BY <1>1, <1>2, <1>3
        DEF IInv, LatestRunsKnown, RunLockCoherent, AcceptedPlanCoherent, WorkHasPlan,
            WorkBasedOnAcceptedPlan, ImplementingHasRun, ValidationInProgress,
            DoneWasValidated

\* Every command preserves the invariant.
LEMMA InvPreserved ==
    ASSUME IInv, [Next]_vars
    PROVE  IInv'
<1>1. CASE PlanningCommand
  BY <1>1, UpsertCases, StartPlanningKeeps, ProposeKeeps, AmendKeeps, RegenerateKeeps,
     ApproveKeeps, RejectKeeps DEF PlanningCommand, revise_plan
<1>2. CASE QuestionCommand
  BY <1>2, QuestionsKeep
<1>3. CASE ImplementationCommand
  BY <1>3, BeginImplementationKeeps, ResumeKeeps, FinishImplementationKeeps, TodosKeep
     DEF ImplementationCommand, start_implementation, restart_implementation
<1>4. CASE ValidationCommand
  BY <1>4, StartValidationKeeps, CheckKeeps, FinishValidationKeeps DEF ValidationCommand
<1>5. CASE RepairCommand
  BY <1>5, BreakLockKeeps, RepairPlanningKeeps DEF RepairCommand
<1>6. CASE LifecycleCommand
  BY <1>6, LifecycleKeeps
<1>7. CASE LockExpires
  BY <1>7, ExpiryKeeps
<1>8. CASE UNCHANGED vars
  <2>1. TypeOK'
    BY <1>8, TypePreserved DEF IInv
  <2> QED BY <1>8, <2>1, SameTask DEF vars
<1> QED BY <1>1, <1>2, <1>3, <1>4, <1>5, <1>6, <1>7, <1>8 DEF Next

\* The invariant holds in every state a task can reach.
LEMMA InvariantHolds == Spec => []IInv
<1>1. Init => IInv
  BY InvInit
<1>2. IInv /\ [Next]_vars => IInv'
  BY InvPreserved
<1> QED BY <1>1, <1>2, PTL DEF Spec

\* However often a plan is revised, regenerated, rejected or approved, the
\* task and its plan records agree on which version is accepted.
THEOREM AcceptedPlanTheorem == Spec => []AcceptedPlanCoherent
<1>1. IInv => AcceptedPlanCoherent
  BY DEF IInv
<1> QED BY <1>1, InvariantHolds, PTL

\* Every implementation run was started on an approved plan, for any number
\* of revisions and runs.
THEOREM WorkTheorem == Spec => []WorkBasedOnAcceptedPlan
<1>1. IInv => WorkBasedOnAcceptedPlan
  BY DEF IInv
<1> QED BY <1>1, InvariantHolds, PTL

\* At most one run is running, the task record knows it and the lock is its
\* own, whatever locks expire or are broken.
THEOREM RunLockTheorem == Spec => []RunLockCoherent
<1>1. IInv => RunLockCoherent
  BY DEF IInv
<1> QED BY <1>1, InvariantHolds, PTL

\* A task stored as "implementing" can always be finished or resumed.
THEOREM ImplementingTheorem == Spec => []ImplementingHasRun
<1>1. IInv => ImplementingHasRun
  BY DEF IInv
<1> QED BY <1>1, InvariantHolds, PTL

\* A done task has passed a validation of its latest implementation run.
THEOREM DoneTheorem == Spec => []DoneWasValidated
<1>1. IInv => DoneWasValidated
  BY DEF IInv
<1> QED BY <1>1, InvariantHolds, PTL

-----------------------------------------------------------------------------
(* What a step may never do *)

\* A step's effect on the run history, the body of RunHistoryImmutable.
RunHistoryKept ==
    /\ Len(runs') >= Len(runs)
    /\ \A r \in RunIds : runs[r].status # "running" => runs'[r] = runs[r]

\* Ending or checking the running run r touches no other run.
LEMMA OneRunRewritten ==
    ASSUME TypeOK, NEW r \in running_runs, Len(runs') = Len(runs),
           \A x \in RunIds : x # r => runs'[x] = runs[x]
    PROVE  RunHistoryKept
BY DEF TypeOK, RunHistoryKept, running_runs

\* Neither does saving a new run.
LEMMA RunsExtended ==
    ASSUME Len(runs) \in Nat, Len(runs') = Len(runs) + 1,
           \A x \in RunIds : runs'[x] = runs[x]
    PROVE  RunHistoryKept
BY DEF RunHistoryKept

\* Saving a new run keeps the history.
LEMMA OneRunAdded ==
    ASSUME TypeOK, NEW type \in RunTypes, NEW st \in RunStatuses, NEW i \in 0..MaxRuns,
           Len(runs) < MaxRuns, runs' = Append(runs, NewRun(type, st, i))
    PROVE  RunHistoryKept
<1>1. Len(runs') = Len(runs) + 1 /\ \A x \in RunIds : runs'[x] = runs[x]
  BY AddRun
<1>2. Len(runs) \in Nat
  BY DEF TypeOK
<1> QED BY <1>1, <1>2, RunsExtended

\* No command rewrites a run that has ended.
LEMMA RunHistoryStep ==
    ASSUME TypeOK, [Next]_vars
    PROVE  RunHistoryKept
<1> USE DEF RunStatuses
<1>1. 0 \in 0..MaxRuns /\ task.latest_implementation_run \in 0..MaxRuns
  BY ConstantsAssumption DEF TypeOK, TaskRecord
<1>2. CASE start_planning
  BY <1>1, <1>2, OneRunAdded DEF start_planning, start_run, CanStartRun, RunTypes
<1>3. CASE amend_plan
  BY <1>1, <1>3, OneRunAdded DEF amend_plan, CanStartRun, RunTypes
<1>4. CASE BeginImplementation
  BY <1>1, <1>4, OneRunAdded DEF BeginImplementation, start_run, CanStartRun, RunTypes
<1>5. CASE start_validation
  BY <1>1, <1>5, OneRunAdded DEF start_validation, start_run, CanStartRun, RunTypes
<1>6. CASE propose_plan
  <2>1. task.latest_planning_run \in running_runs
    BY <1>6 DEF propose_plan, plan_propose_decision, derive_active_stage, running_runs
  <2> QED BY <1>6, <2>1, EndRun, OneRunRewritten DEF propose_plan
<1>7. ASSUME NEW allow, regenerate_plan_from_answers(allow)
      PROVE  RunHistoryKept
  BY <1>7, RegenerateEffect DEF RunHistoryKept, running_runs, TypeOK
<1>8. CASE finish_implementation
  <2>1. task.latest_implementation_run \in running_runs
    BY <1>8 DEF finish_implementation, RunIs, running_runs
  <2> QED BY <1>8, <2>1, EndRun, OneRunRewritten DEF finish_implementation, running_runs
<1>9. ASSUME NEW st \in {"finished", "failed"}, finish_validation(st)
      PROVE  RunHistoryKept
  <2>1. task.latest_validation_run \in running_runs
    BY <1>9 DEF finish_validation, RunIs, running_runs
  <2> QED BY <1>9, <2>1, EndRun, OneRunRewritten DEF finish_validation, running_runs
<1>10. ASSUME NEW pass \in BOOLEAN, add_validation_check(pass)
       PROVE  RunHistoryKept
  BY <1>10, CheckEffect, OneRunRewritten
<1>11. ASSUME NEW r \in RunIds, repair_orphaned_planning_run(r)
       PROVE  RunHistoryKept
  <2>1. r \in running_runs
    BY <1>11 DEF repair_orphaned_planning_run, RunIs, running_runs
  <2> QED BY <1>11, <2>1, EndRun, OneRunRewritten DEF repair_orphaned_planning_run
<1>12. CASE runs' = runs
  BY <1>12 DEF RunHistoryKept, TypeOK
<1>13. CASE PlanningCommand
  BY <1>2, <1>3, <1>6, <1>7, <1>12, <1>13, UpsertCases
     DEF PlanningCommand, revise_plan, approve_plan, reject_plan
<1>14. CASE ImplementationCommand
  BY <1>4, <1>8, <1>12, <1>14
     DEF ImplementationCommand, start_implementation, restart_implementation,
         resume_implementation, set_todo_done
<1>15. CASE ValidationCommand
  BY <1>5, <1>9, <1>10, <1>15 DEF ValidationCommand
<1>16. CASE RepairCommand
  BY <1>11, <1>12, <1>16 DEF RepairCommand, break_lock
<1>17. CASE QuestionCommand \/ LifecycleCommand \/ LockExpires \/ UNCHANGED vars
  BY <1>12, <1>17 DEF QuestionCommand, add_question, answer_question, dismiss_question,
     LifecycleCommand, cancel_task, uncancel_task, archive_task, unarchive_task,
     LockExpires, vars
<1> QED BY <1>13, <1>14, <1>15, <1>16, <1>17 DEF Next

\* No command rewrites or removes a run that has ended: the evidence of past
\* planning, implementation and validation is kept.
THEOREM RunHistoryTheorem == Spec => RunHistoryImmutable
<1>1. TypeOK /\ [Next]_vars => [RunHistoryKept]_vars
  BY RunHistoryStep
<1> QED BY <1>1, TypeCorrect, PTL DEF Spec, RunHistoryImmutable, RunHistoryKept

\* A step's effect on the plan history, the body of PlanHistoryMonotone.
PlanHistoryKept ==
    /\ Len(plans') >= Len(plans)
    /\ \A v \in Versions :
          /\ plans'[v].basis = plans[v].basis
          /\ \/ plans'[v].status = plans[v].status
             \/ <<plans[v].status, plans'[v].status>> \in PlanStatusSteps

\* A saved plan has the fields of one.
LEMMA PlanFields ==
    ASSUME TypeOK, NEW v \in Versions
    PROVE  plans[v] \in PlanRecord /\ plans[v].status \in PlanStatuses
<1>1. plans[v] \in PlanRecord
  BY DEF TypeOK, Versions
<1> QED BY <1>1 DEF PlanRecord

\* Overwriting a plan's status along PlanStatusSteps keeps the history.
LEMMA PlanStep ==
    ASSUME TypeOK, NEW v \in Versions, NEW st \in PlanStatuses,
           plans'[v] = WithStatus(plans[v], st),
           st = plans[v].status \/ <<plans[v].status, st>> \in PlanStatusSteps
    PROVE  /\ plans'[v].basis = plans[v].basis
           /\ \/ plans'[v].status = plans[v].status
              \/ <<plans[v].status, plans'[v].status>> \in PlanStatusSteps
<1>1. plans'[v].status = st /\ plans'[v].basis = plans[v].basis
  BY PlanFields, PlanWithStatus
<1> QED BY <1>1

\* No command moves a plan version backwards.
LEMMA PlanHistoryStep ==
    ASSUME IInv, [Next]_vars
    PROVE  PlanHistoryKept
<1>1. TypeOK /\ Len(plans) \in Nat
  BY DEF IInv, TypeOK
<1>2. CASE \E basis \in {{}, answer_snapshot} : plans' = AppendPlan(basis) /\ Len(plans) < MaxPlans
  <2>1. Len(plans') = Len(plans) + 1 /\ \A v \in Versions : plans'[v] = plans[v]
    BY <1>1, <1>2, AddPlan
  <2> QED BY <1>1, <2>1 DEF PlanHistoryKept
<1>3. ASSUME NEW allow, regenerate_plan_from_answers(allow)
      PROVE  PlanHistoryKept
  <2>1. Len(plans') = Len(plans) + 1
    BY <1>1, <1>3, RegenerateEffect
  <2> SUFFICES ASSUME NEW v \in Versions
               PROVE  /\ plans'[v].basis = plans[v].basis
                      /\ \/ plans'[v].status = plans[v].status
                         \/ <<plans[v].status, plans'[v].status>> \in PlanStatusSteps
    BY <1>1, <2>1 DEF PlanHistoryKept
  <2>2. plans'[v] = plans[v] \/ /\ plans[v].status = "proposed"
                                /\ plans'[v] = WithStatus(plans[v], "superseded")
    BY <1>1, <1>3, RegenerateEffect
  <2>3. <<"proposed", "superseded">> \in PlanStatusSteps /\ "superseded" \in PlanStatuses
    BY DEF PlanStatusSteps, PlanStatuses
  <2> QED BY <1>1, <2>2, <2>3, PlanStep
<1>4. ASSUME NEW v \in Versions, NEW allow, NEW new_todos \in BOOLEAN,
             approve_plan(v, allow, new_todos)
      PROVE  PlanHistoryKept
  <2>1. Len(plans') = Len(plans) /\ plans[v].status = "proposed"
    BY <1>1, <1>4, ApproveEffect DEF approve_plan
  <2> SUFFICES ASSUME NEW w \in Versions
               PROVE  /\ plans'[w].basis = plans[w].basis
                      /\ \/ plans'[w].status = plans[w].status
                         \/ <<plans[w].status, plans'[w].status>> \in PlanStatusSteps
    BY <1>1, <2>1 DEF PlanHistoryKept
  <2>2. plans'[w] = IF w = v THEN WithStatus(plans[w], "accepted")
                    ELSE IF plans[w].status = "rejected" THEN plans[w]
                    ELSE WithStatus(plans[w], "superseded")
    BY <1>1, <1>4, ApproveEffect
  <2>3. /\ <<"proposed", "accepted">> \in PlanStatusSteps
        /\ <<"proposed", "superseded">> \in PlanStatusSteps
        /\ <<"accepted", "superseded">> \in PlanStatusSteps
        /\ "superseded" \in PlanStatuses /\ "accepted" \in PlanStatuses
    BY DEF PlanStatusSteps, PlanStatuses
  <2>4. plans[w].status \in {"proposed", "accepted", "superseded", "rejected"}
    BY <1>1, PlanFields DEF PlanStatuses
  <2>5. CASE w = v
    BY <1>1, <2>1, <2>2, <2>3, <2>5, PlanStep
  <2>6. CASE w # v /\ plans[w].status = "rejected"
    BY <2>2, <2>6
  <2>7. CASE w # v /\ plans[w].status # "rejected"
    BY <1>1, <2>2, <2>3, <2>4, <2>7, PlanStep
  <2> QED BY <2>5, <2>6, <2>7
<1>5. CASE reject_plan
  <2>1. /\ Len(plans') = Len(plans)
        /\ plans[Len(plans)].status \in {"proposed", "rejected"}
    BY <1>1, <1>5, RejectEffect, ReviewedPlan DEF reject_plan, plan_approve_decision
  <2> SUFFICES ASSUME NEW w \in Versions
               PROVE  /\ plans'[w].basis = plans[w].basis
                      /\ \/ plans'[w].status = plans[w].status
                         \/ <<plans[w].status, plans'[w].status>> \in PlanStatusSteps
    BY <1>1, <2>1 DEF PlanHistoryKept
  <2>2. plans'[w] = plans[w] \/ /\ w = Len(plans)
                                /\ plans'[w] = WithStatus(plans[w], "rejected")
    BY <1>1, <1>5, RejectEffect
  <2>3. <<"proposed", "rejected">> \in PlanStatusSteps /\ "rejected" \in PlanStatuses
    BY DEF PlanStatusSteps, PlanStatuses
  <2> QED BY <1>1, <2>1, <2>2, <2>3, PlanStep
<1>6. CASE plans' = plans
  BY <1>1, <1>6 DEF PlanHistoryKept
<1>7. CASE propose_plan \/ amend_plan
  BY <1>2, <1>7 DEF propose_plan, amend_plan
<1>8. CASE PlanningCommand
  BY <1>3, <1>4, <1>5, <1>6, <1>7, <1>8, UpsertCases
     DEF PlanningCommand, revise_plan, start_planning
<1>9. CASE ImplementationCommand \/ ValidationCommand
  BY <1>6, <1>9
     DEF ImplementationCommand, start_implementation, restart_implementation,
         BeginImplementation, finish_implementation, resume_implementation, set_todo_done,
         ValidationCommand, start_validation, add_validation_check, finish_validation
<1>10. CASE RepairCommand \/ QuestionCommand \/ LifecycleCommand \/ LockExpires \/ UNCHANGED vars
  BY <1>6, <1>10
     DEF RepairCommand, break_lock, repair_orphaned_planning_run,
         QuestionCommand, add_question, answer_question, dismiss_question,
         LifecycleCommand, cancel_task, uncancel_task, archive_task, unarchive_task,
         LockExpires, vars
<1> QED BY <1>8, <1>9, <1>10 DEF Next

\* A plan version's status only moves forward and its answers never change:
\* a rejected or superseded version is never accepted again.
THEOREM PlanHistoryTheorem == Spec => PlanHistoryMonotone
<1>1. IInv /\ [Next]_vars => [PlanHistoryKept]_vars
  BY PlanHistoryStep
<1> QED BY <1>1, InvariantHolds, PTL DEF Spec, PlanHistoryMonotone, PlanHistoryKept

=============================================================================
