---------------------------- MODULE RunLockProofs ----------------------------
(***************************************************************************)
(* Theorems about RunLock and RunLockSerial, for every number of processes *)
(* and runs.  Part one, whatever the commands do to each other: the lock   *)
(* file names a saved run and behaves as a lease, however commands overlap *)
(* and die.  Part two, one command at a time: what the files may look like *)
(* after a process died, and that a command nobody cut short is one step   *)
(* of TaskLifecycle.                                                       *)
(***************************************************************************)
EXTENDS RunLockSerial, SequenceTheorems, TLAPS

\* The steps at which a process holds the id of a run that has a record.
RunSaved == {"acquire", "create", "link", "reread", "record", "resume", "expire",
             "save_check", "finish_run", "finish_task", "release", "unlink", "finish_save"}

\* What a process remembers: a run id it is about to save is the next free
\* one or was taken by someone else meanwhile; any other names a record.
IdsKnown ==
    \A p \in Procs :
        /\ pc[p] = "save_run" => mem[p].run_id \in 1..Len(runs) + 1 /\ mem[p].run_id <= MaxRuns
        /\ pc[p] \in RunSaved => mem[p].run_id \in RunIds

RunLockInv == TypeOK /\ IdsKnown /\ LockNamesSavedRun

-----------------------------------------------------------------------------
(* The run directory *)

\* save_run replaces a record or adds the next one; no record goes away.
LEMMA SaveRun ==
    ASSUME runs \in Seq(TaskRunRecord), Len(runs) <= MaxRuns,
           NEW r \in 1..Len(runs) + 1, r <= MaxRuns,
           NEW run \in TaskRunRecord, save_run(r, run)
    PROVE  /\ runs' \in Seq(TaskRunRecord) /\ Len(runs') <= MaxRuns
           /\ Len(runs') >= Len(runs)
           /\ r \in 1..Len(runs')
           /\ runs'[r] = run
           /\ \A x \in 1..Len(runs) : x # r => runs'[x] = runs[x]
           /\ r \in RunIds => Len(runs') = Len(runs)
           /\ r \notin RunIds => r = Len(runs) + 1 /\ Len(runs') = Len(runs) + 1
<1> USE RunLockAssumption DEF RunIds
<1>1. CASE r \in 1..Len(runs)
  <2>1. runs' = [runs EXCEPT ![r] = run]
    BY <1>1 DEF save_run
  <2> QED BY <1>1, <2>1
<1>2. CASE r \notin 1..Len(runs)
  <2>1. runs' = Append(runs, run) /\ r = Len(runs) + 1
    BY <1>2 DEF save_run
  <2> QED BY <1>2, <2>1
<1> QED BY <1>1, <1>2

-----------------------------------------------------------------------------
(* What a step does to the memory of a process *)

\* A fresh command holds well-formed data.
LEMMA NoTaskType == NoTask \in TaskRecord /\ NoRun \in TaskRunRecord
BY RunLockAssumption DEF NoTask, NoRun, TaskRecord, TaskRunRecord, WorkTypes, RunStatuses

\* A command that begins holds the task record it read.
LEMMA BlankType ==
    ASSUME NEW t \in TaskRecord
    PROVE  Blank(t) \in Memory
BY NoTaskType, RunLockAssumption DEF Blank, Memory, Commands, WorkTypes, RunStatuses

\* An idle process holds nothing.
LEMMA NothingType == Nothing \in Memory
BY BlankType, NoTaskType DEF Nothing

\* The id of a saved run is within the bound.
LEMMA RunIdBound ==
    ASSUME TypeOK, NEW r \in RunIds
    PROVE  r \in 0..MaxRuns /\ r \in 1..MaxRuns /\ runs[r] \in TaskRunRecord
BY RunLockAssumption DEF TypeOK, RunIds

\* Begin, Goto and Leave keep the types of pc and mem, and touch one process.
LEMMA GotoType ==
    ASSUME TypeOK, NEW p \in Procs, NEW step \in Steps, Goto(p, step)
    PROVE  pc' \in [Procs -> Steps] /\ pc'[p] = step
           /\ \A q \in Procs : q # p => pc'[q] = pc[q]
BY DEF TypeOK, Goto

\* The end of a command touches one process.
LEMMA LeaveType ==
    ASSUME TypeOK, NEW p \in Procs, Leave(p)
    PROVE  /\ pc' \in [Procs -> Steps] /\ mem' \in [Procs -> Memory]
           /\ pc'[p] = "idle"
           /\ \A q \in Procs : q # p => pc'[q] = pc[q] /\ mem'[q] = mem[q]
BY NothingType DEF TypeOK, Leave, Goto, Steps

\* The beginning of a command touches one process.
LEMMA BeginType ==
    ASSUME TypeOK, NEW p \in Procs, NEW step \in Steps, NEW m \in Memory, Begin(p, step, m)
    PROVE  /\ pc' \in [Procs -> Steps] /\ mem' \in [Procs -> Memory]
           /\ pc[p] = "idle" /\ pc'[p] = step /\ mem'[p] = m
           /\ \A q \in Procs : q # p => pc'[q] = pc[q] /\ mem'[q] = mem[q]
BY DEF TypeOK, Begin, Goto

-----------------------------------------------------------------------------
(* The invariant holds initially and is preserved by every step *)

\* The invariant holds before the first command.
LEMMA InitInv == Init => RunLockInv
<1> SUFFICES ASSUME Init PROVE RunLockInv
  OBVIOUS
<1>1. TypeOK
  BY NothingType, NoTaskType, RunLockAssumption DEF Init, TypeOK, Steps
<1>2. IdsKnown
  BY DEF Init, IdsKnown, RunSaved
<1>3. LockNamesSavedRun
  BY DEF Init, LockNamesSavedRun
<1> QED BY <1>1, <1>2, <1>3 DEF RunLockInv

\* A command that begins reads and writes nothing.
LEMMA IssueInv ==
    ASSUME RunLockInv, NEW p \in Procs, Issue(p)
    PROVE  RunLockInv'
<1> USE RunLockAssumption DEF RunLockInv
<1>1. ASSUME NEW step \in Steps, NEW m \in Memory, Begin(p, step, m), UNCHANGED files,
             step # "save_run", step \in RunSaved => m.run_id \in RunIds
      PROVE  RunLockInv'
  <2>1. TypeOK'
    BY <1>1, BeginType DEF TypeOK, files
  <2>2. IdsKnown'
    BY <1>1, BeginType DEF IdsKnown, files, RunIds
  <2>3. LockNamesSavedRun'
    BY <1>1 DEF LockNamesSavedRun, files, RunIds
  <2> QED BY <2>1, <2>2, <2>3
<1>2. task \in TaskRecord /\ Blank(task) \in Memory /\ Nothing \in Memory
  BY BlankType, NothingType DEF TypeOK
<1>3. ASSUME NEW type \in WorkTypes, start(p, type)
      PROVE  RunLockInv'
  <2> DEFINE m == [Blank(task) EXCEPT !.command = "start", !.type = type,
                                      !.run = [NoRun EXCEPT !.run_type = type]]
  <2>1. [NoRun EXCEPT !.run_type = type] \in TaskRunRecord
    BY NoTaskType DEF TaskRunRecord
  <2>2. m \in Memory
    BY <1>2, <2>1 DEF Memory, Commands
  <2> QED BY <1>1, <1>3, <2>2 DEF start, Steps, RunSaved
<1>4. ASSUME NEW r \in RunIds, resume(p, r)
      PROVE  RunLockInv'
  <2> DEFINE m == [Blank(task) EXCEPT !.command = "resume", !.run_id = r]
  <2>1. m \in Memory /\ m.run_id = r
    BY <1>2, RunIdBound DEF Memory, Commands
  <2> QED BY <1>1, <1>4, <2>1 DEF resume, Steps, RunSaved
<1>5. ASSUME check(p)
      PROVE  RunLockInv'
  <2> DEFINE r == task.latest_validation_run
             m == [Blank(task) EXCEPT !.command = "check", !.type = "validation",
                                      !.run_id = r, !.run = runs[r]]
  <2>1. r \in RunIds /\ runs[r] \in TaskRunRecord
    BY <1>5 DEF check, RunIs, RunIds, TypeOK
  <2>2. m \in Memory /\ m.run_id = r
    BY <1>2, <2>1, RunIdBound DEF Memory, Commands, WorkTypes
  <2> QED BY <1>1, <1>5, <2>1, <2>2 DEF check, Steps, RunSaved
<1>6. ASSUME NEW type \in WorkTypes, NEW status \in {"finished", "failed"},
             finish(p, type, status)
      PROVE  RunLockInv'
  <2> DEFINE r == latest_run(task, type)
             m == [Blank(task) EXCEPT !.command = "finish", !.type = type, !.status = status,
                                      !.run_id = r, !.run = runs[r]]
  <2>1. r \in RunIds /\ runs[r] \in TaskRunRecord
    BY <1>6 DEF finish, RunIs, RunIds, TypeOK
  <2>2. m \in Memory /\ m.run_id = r
    BY <1>2, <2>1, RunIdBound DEF Memory, Commands, WorkTypes, RunStatuses
  <2> QED BY <1>1, <1>6, <2>1, <2>2 DEF finish, Steps, RunSaved
<1>7. ASSUME break_read(p)
      PROVE  RunLockInv'
  <2>1. [Nothing EXCEPT !.command = "break"] \in Memory
    BY <1>2 DEF Memory, Commands
  <2> QED BY <1>1, <1>7, <2>1 DEF break_read, Steps, RunSaved
<1> QED BY <1>3, <1>4, <1>5, <1>6, <1>7 DEF Issue

\* One step of a command.
LEMMA StepInv ==
    ASSUME RunLockInv, NEW p \in Procs, Step(p)
    PROVE  RunLockInv'
<1> USE RunLockAssumption DEF RunLockInv
<1>0. mem[p] \in Memory /\ mem[p].run_id \in 0..MaxRuns /\ mem[p].run \in TaskRunRecord
      /\ mem[p].task \in TaskRecord /\ mem[p].type \in WorkTypes /\ mem[p].status \in RunStatuses
  BY DEF TypeOK, Memory
\* A step that leaves the run directory alone.
<1>1. ASSUME NEW step \in Steps, Goto(p, step), step # "save_run", UNCHANGED <<runs, mem>>,
             task' \in TaskRecord,
             lock' \in {lock, NoLock}, step \in RunSaved => mem[p].run_id \in RunIds
      PROVE  RunLockInv'
  <2>1. TypeOK'
    BY <1>1, GotoType DEF TypeOK
  <2>2. IdsKnown'
    BY <1>1, GotoType DEF IdsKnown, RunIds
  <2>3. LockNamesSavedRun'
    BY <1>1 DEF LockNamesSavedRun, RunIds
  <2> QED BY <2>1, <2>2, <2>3
<1>2. ASSUME Leave(p), UNCHANGED runs, task' \in TaskRecord, lock' \in {lock, NoLock}
      PROVE  RunLockInv'
  <2>1. TypeOK'
    BY <1>2, LeaveType DEF TypeOK
  <2>2. IdsKnown'
    BY <1>2, LeaveType DEF IdsKnown, RunIds, RunSaved
  <2>3. LockNamesSavedRun'
    BY <1>2 DEF LockNamesSavedRun, RunIds
  <2> QED BY <2>1, <2>2, <2>3
\* A step that saves a run, and whatever it does then.
<1>3. ASSUME NEW r \in 1..Len(runs) + 1, r <= MaxRuns, NEW run \in TaskRunRecord,
             save_run(r, run), UNCHANGED <<task, lock>>,
             \/ Leave(p)
             \/ r = mem[p].run_id /\ UNCHANGED mem /\ \E step \in RunSaved : Goto(p, step)
      PROVE  RunLockInv'
  <2>1. /\ runs' \in Seq(TaskRunRecord) /\ Len(runs') <= MaxRuns
        /\ Len(runs') \in Nat /\ Len(runs) \in Nat
        /\ Len(runs') >= Len(runs) /\ r \in 1..Len(runs')
    BY <1>3, SaveRun DEF TypeOK
  <2>2. RunSaved \subseteq Steps /\ "save_run" \notin RunSaved /\ "idle" \notin RunSaved
    BY DEF RunSaved, Steps
  <2>3. TypeOK' /\ (\A q \in Procs : q # p => pc'[q] = pc[q] /\ mem'[q] = mem[q])
        /\ pc'[p] \in RunSaved \cup {"idle"} /\ (pc'[p] # "idle" => mem'[p].run_id = r)
    <3>1. CASE Leave(p)
      BY <1>3, <2>1, <3>1, LeaveType DEF TypeOK
    <3>2. CASE r = mem[p].run_id /\ UNCHANGED mem /\ \E step \in RunSaved : Goto(p, step)
      <4>1. PICK step \in RunSaved : Goto(p, step)
        BY <3>2
      <4> QED BY <1>3, <2>1, <2>2, <3>2, <4>1, GotoType DEF TypeOK
    <3> QED BY <1>3, <3>1, <3>2
  <2>4. IdsKnown'
    <3> SUFFICES ASSUME NEW q \in Procs
                 PROVE  /\ pc'[q] = "save_run" =>
                              mem'[q].run_id \in 1..Len(runs') + 1 /\ mem'[q].run_id <= MaxRuns
                        /\ pc'[q] \in RunSaved => mem'[q].run_id \in 1..Len(runs')
      BY DEF IdsKnown, RunIds
    <3>1. CASE q = p
      BY <2>1, <2>2, <2>3, <3>1
    <3>2. CASE q # p
      BY <2>1, <2>3, <3>2 DEF IdsKnown, RunIds
    <3> QED BY <3>1, <3>2
  <2>5. LockNamesSavedRun'
    BY <1>3, <2>1 DEF LockNamesSavedRun, RunIds, TypeOK
  <2> QED BY <2>3, <2>4, <2>5
<1>4. ASSUME pc[p] \in RunSaved
      PROVE  mem[p].run_id \in 1..Len(runs) /\ mem[p].run_id \in 1..Len(runs) + 1
             /\ mem[p].run_id <= MaxRuns /\ mem[p].run_id \in 1..MaxRuns
  BY <1>4 DEF IdsKnown, RunIds, TypeOK
<1>5. CASE start_check(p)
  <2>1. CASE lock = NoLock /\ running_runs = {} /\ Len(runs) < MaxRuns
    <3>1. Goto(p, "save_run") /\ mem' = [mem EXCEPT ![p].run_id = Len(runs) + 1]
          /\ UNCHANGED files
      BY <1>5, <2>1 DEF start_check
    <3>2. Len(runs) + 1 \in 0..MaxRuns /\ Len(runs) \in Nat
      BY <2>1 DEF TypeOK
    <3>3. mem' \in [Procs -> Memory] /\ mem'[p].run_id = Len(runs) + 1
          /\ \A q \in Procs : q # p => mem'[q] = mem[q]
      <4>1. [mem[p] EXCEPT !.run_id = Len(runs) + 1] \in Memory
        BY <1>0, <3>2 DEF Memory
      <4> QED BY <1>0, <3>1, <4>1 DEF TypeOK, Memory
    <3>4. TypeOK' /\ pc'[p] = "save_run" /\ \A q \in Procs : q # p => pc'[q] = pc[q]
      BY <3>1, <3>3, GotoType DEF TypeOK, Steps, files
    <3>5. IdsKnown'
      BY <2>1, <3>1, <3>2, <3>3, <3>4 DEF IdsKnown, RunIds, RunSaved, files
    <3>6. LockNamesSavedRun'
      BY <3>1 DEF LockNamesSavedRun, RunIds, files
    <3> QED BY <3>4, <3>5, <3>6
  <2>2. CASE ~(lock = NoLock /\ running_runs = {} /\ Len(runs) < MaxRuns)
    BY <1>2, <1>5, <2>2 DEF start_check, files, TypeOK
  <2> QED BY <2>1, <2>2
<1>6. CASE start_save_run(p)
  <2>1. mem[p].run_id \in 1..Len(runs) + 1 /\ mem[p].run_id <= MaxRuns
    BY <1>6 DEF start_save_run, IdsKnown
  <2> QED BY <1>0, <1>3, <1>6, <2>1 DEF start_save_run, RunSaved
<1>7. CASE acquire_read(p)
  <2>1. AfterLock(p) \in {"record", "link", "reread"}
    BY DEF AfterLock
  <2>2. pc[p] \in RunSaved /\ UNCHANGED files /\ task' \in TaskRecord
    BY <1>7 DEF acquire_read, RunSaved, files, TypeOK
  <2>3. \/ Leave(p)
        \/ UNCHANGED mem /\ \E step \in {"create", "record", "link", "reread"} : Goto(p, step)
    BY <1>7, <2>1 DEF acquire_read
  <2>4. {"create", "record", "link", "reread"} \subseteq RunSaved \cap Steps
    BY DEF RunSaved, Steps
  <2> QED BY <1>1, <1>2, <2>2, <2>3, <2>4, <1>4 DEF files, RunIds
<1>8. CASE acquire_create(p)
  <2>1. AfterLock(p) \in {"record", "link", "reread"}
    BY DEF AfterLock
  <2>2. pc[p] \in RunSaved
    BY <1>8 DEF acquire_create, RunSaved
  <2>3. CASE lock = NoLock
    <3>1. lock' = LockFor(mem[p].type, mem[p].run_id) /\ Goto(p, AfterLock(p))
          /\ UNCHANGED <<task, runs, mem>>
      BY <1>8, <2>3 DEF acquire_create
    <3>2. lock' \in [run_type: WorkTypes, run_id: 1..MaxRuns, expired: BOOLEAN]
          /\ lock'.run_id \in 1..Len(runs)
      BY <1>0, <1>4, <2>2, <3>1 DEF LockFor
    <3>3. AfterLock(p) \in Steps /\ AfterLock(p) # "save_run"
      BY <2>1 DEF Steps
    <3>4. TypeOK'
      BY <3>1, <3>2, <3>3, GotoType DEF TypeOK
    <3>5. IdsKnown'
      BY <2>2, <3>1, <3>3, GotoType DEF IdsKnown, RunIds
    <3>6. LockNamesSavedRun'
      BY <3>1, <3>2 DEF LockNamesSavedRun, RunIds
    <3> QED BY <3>4, <3>5, <3>6
  <2>4. CASE lock # NoLock
    BY <1>2, <1>8, <2>4 DEF acquire_create, TypeOK
  <2> QED BY <2>3, <2>4
<1>9. CASE link_implementation(p)
  <2>1. [mem[p].run EXCEPT !.based_on_implementation_run = mem[p].task.latest_implementation_run]
           \in TaskRunRecord
    BY <1>0 DEF TaskRunRecord, TaskRecord
  <2>2. pc[p] \in RunSaved /\ "reread" \in RunSaved
    BY <1>9 DEF link_implementation, RunSaved
  <2> QED BY <1>3, <1>4, <1>9, <2>1, <2>2 DEF link_implementation
<1>10. CASE reread_task(p)
  <2>1. mem' = [mem EXCEPT ![p].task = task] /\ Goto(p, "record") /\ UNCHANGED files
        /\ pc[p] \in RunSaved
    BY <1>10 DEF reread_task, RunSaved
  <2>2. mem' \in [Procs -> Memory] /\ mem'[p].run_id = mem[p].run_id
        /\ \A q \in Procs : q # p => mem'[q] = mem[q]
    <3>1. [mem[p] EXCEPT !.task = task] \in Memory
      BY <1>0 DEF Memory, TypeOK
    <3> QED BY <1>0, <2>1, <3>1 DEF TypeOK, Memory
  <2>3. TypeOK' /\ pc'[p] = "record" /\ \A q \in Procs : q # p => pc'[q] = pc[q]
    BY <2>1, <2>2, GotoType DEF TypeOK, Steps, files
  <2>4. IdsKnown'
    BY <2>1, <2>2, <2>3, <1>4 DEF IdsKnown, RunIds, files
  <2>5. LockNamesSavedRun'
    BY <2>1 DEF LockNamesSavedRun, RunIds, files
  <2> QED BY <2>3, <2>4, <2>5
<1>11. CASE record_run(p)
  <2>1. task' \in TaskRecord
    BY <1>0, <1>11 DEF record_run, TaskRecord
  <2> QED BY <1>2, <1>11, <2>1 DEF record_run
<1>12. CASE resume_check(p)
  <2>1. "acquire" \in Steps \cap RunSaved /\ "expire" \in Steps \cap RunSaved
    BY DEF Steps, RunSaved
  <2>2. pc[p] \in RunSaved
    BY <1>12 DEF resume_check, RunSaved
  <2> QED BY <1>1, <1>2, <1>4, <1>12, <2>1, <2>2 DEF resume_check, files, TypeOK, RunIds
<1>13. CASE release_expired_lock(p)
  <2>1. "acquire" \in Steps \cap RunSaved /\ pc[p] \in RunSaved
    BY <1>13 DEF release_expired_lock, Steps, RunSaved
  <2> QED BY <1>1, <1>4, <1>13, <2>1 DEF release_expired_lock, TypeOK, RunIds
<1>14. CASE save_check(p)
  <2>1. [mem[p].run EXCEPT !.satisfied = TRUE] \in TaskRunRecord
    BY <1>0 DEF TaskRunRecord
  <2>2. pc[p] \in RunSaved
    BY <1>14 DEF save_check, RunSaved
  <2> QED BY <1>3, <1>4, <1>14, <2>1, <2>2 DEF save_check
<1>15. CASE finish_run(p)
  <2>1. [mem[p].run EXCEPT !.status = mem[p].status] \in TaskRunRecord
    BY <1>0 DEF TaskRunRecord
  <2>2. pc[p] \in RunSaved /\ "finish_task" \in RunSaved
    BY <1>15 DEF finish_run, RunSaved
  <2> QED BY <1>3, <1>4, <1>15, <2>1, <2>2 DEF finish_run
<1>16. FinishedTask(p) \in TaskRecord
  BY <1>0 DEF FinishedTask, StageAfter, TaskRecord
<1>17. CASE finish_save_task(p)
  <2>1. "release" \in Steps \cap RunSaved /\ pc[p] \in RunSaved
    BY <1>17 DEF finish_save_task, Steps, RunSaved
  <2> QED BY <1>1, <1>4, <1>16, <1>17, <2>1 DEF finish_save_task, RunIds
<1>18. CASE release_read(p)
  <2>1. "unlink" \in Steps \cap RunSaved /\ pc[p] \in RunSaved
    BY <1>18 DEF release_read, Steps, RunSaved
  <2> QED BY <1>1, <1>2, <1>4, <1>18, <2>1 DEF release_read, files, TypeOK, RunIds
<1>19. CASE release_unlink(p)
  <2>1. "finish_save" \in Steps \cap RunSaved /\ pc[p] \in RunSaved
    BY <1>19 DEF release_unlink, Steps, RunSaved
  <2> QED BY <1>1, <1>4, <1>19, <2>1 DEF release_unlink, TypeOK, RunIds
<1>20. CASE release_save_task(p)
  BY <1>2, <1>16, <1>20 DEF release_save_task
<1>21. CASE break_unlink(p)
  BY <1>2, <1>21 DEF break_unlink, TypeOK
<1> QED BY <1>5, <1>6, <1>7, <1>8, <1>9, <1>10, <1>11, <1>12, <1>13, <1>14, <1>15,
           <1>17, <1>18, <1>19, <1>20, <1>21 DEF Step

\* Any step of the system.
LEMMA NextInv ==
    ASSUME RunLockInv, [Next]_vars
    PROVE  RunLockInv'
<1>1. CASE UNCHANGED vars
  BY <1>1 DEF RunLockInv, TypeOK, IdsKnown, LockNamesSavedRun, RunIds, vars
<1>2. CASE LockExpires
  <2>1. TypeOK' /\ lock'.run_id = lock.run_id
    BY <1>2 DEF LockExpires, RunLockInv, TypeOK
  <2>2. IdsKnown' /\ LockNamesSavedRun'
    BY <1>2, <2>1 DEF LockExpires, RunLockInv, IdsKnown, LockNamesSavedRun, RunIds
  <2> QED BY <2>1, <2>2 DEF RunLockInv
<1>3. ASSUME NEW p \in Procs, Crash(p)
      PROVE  RunLockInv'
  <2>1. TypeOK'
    BY <1>3, LeaveType DEF Crash, RunLockInv, TypeOK, files
  <2>2. IdsKnown'
    BY <1>3, LeaveType DEF Crash, RunLockInv, IdsKnown, RunIds, files, RunSaved
  <2>3. LockNamesSavedRun'
    BY <1>3 DEF Crash, RunLockInv, LockNamesSavedRun, RunIds, files
  <2> QED BY <2>1, <2>2, <2>3 DEF RunLockInv
<1> QED BY <1>1, <1>2, <1>3, IssueInv, StepInv DEF Next

\* The inductive invariant is an invariant.
LEMMA InvHolds == Spec => []RunLockInv
<1>1. Init => RunLockInv
  BY InitInv
<1>2. RunLockInv /\ [Next]_vars => RunLockInv'
  BY NextInv
<1> QED BY <1>1, <1>2, PTL DEF Spec

-----------------------------------------------------------------------------
(* Theorems *)

\* However many commands overlap and wherever they die, every file holds a
\* record its writers build: save_run with an id taken by someone else
\* replaces that record and never leaves a gap in the run directory.
THEOREM RunLockTypes == Spec => []TypeOK
<1>1. RunLockInv => TypeOK
  BY DEF RunLockInv
<1> QED BY <1>1, InvHolds, PTL

\* The lock file never names a run without a record: _start_run saves the
\* run before _acquire_lock creates the lock, and ids are never given back.
THEOREM LockNamesSavedRunTheorem == Spec => []LockNamesSavedRun
<1>1. RunLockInv => LockNamesSavedRun
  BY DEF RunLockInv
<1> QED BY <1>1, InvHolds, PTL

\* Every step of every process is a step of the abstract lease, or leaves the
\* lock file alone.
LEMMA StepIsLeaseStep ==
    ASSUME RunLockInv, [Next]_vars
    PROVE  [Lease!Next]_lock
<1> USE DEF RunLockInv
<1>1. ASSUME NEW p \in Procs, acquire_create(p)
      PROVE  [Lease!Next]_lock
  <2>1. CASE lock = NoLock
    <3>1. mem[p].type \in WorkTypes /\ mem[p].run_id \in 1..MaxRuns
      BY <1>1, RunLockAssumption DEF acquire_create, TypeOK, Memory, IdsKnown, RunIds, RunSaved
    <3>2. lock' = LockFor(mem[p].type, mem[p].run_id)
      BY <1>1, <2>1 DEF acquire_create
    <3> QED BY <2>1, <3>1, <3>2 DEF Lease!Next, Lease!Acquire
  <2>2. CASE lock # NoLock
    BY <1>1, <2>2 DEF acquire_create
  <2> QED BY <2>1, <2>2
<1>2. CASE LockExpires
  <2>1. lock = LockFor(lock.run_type, lock.run_id)
        /\ lock.run_type \in WorkTypes /\ lock.run_id \in 1..MaxRuns
    BY <1>2 DEF LockExpires, TypeOK, LockFor
  <2>2. lock' = Lease!Expired(lock)
    BY <1>2 DEF LockExpires, Lease!Expired
  <2> QED BY <2>1, <2>2 DEF Lease!Next, Lease!Expire
<1>3. ASSUME lock' \in {lock, NoLock}
      PROVE  [Lease!Next]_lock
  BY <1>3 DEF Lease!Next, Lease!Release
<1>4. ASSUME NEW p \in Procs, Issue(p) \/ Crash(p)
      PROVE  lock' = lock
  BY <1>4 DEF Issue, Crash, start, resume, check, finish, break_read, files
<1>5. ASSUME NEW p \in Procs, Step(p), ~acquire_create(p)
      PROVE  lock' \in {lock, NoLock}
  BY <1>5 DEF Step, start_check, start_save_run, acquire_read, link_implementation,
              reread_task, record_run, resume_check, release_expired_lock, save_check,
              finish_run, finish_save_task, release_read, release_unlink,
              release_save_task, break_unlink, files
<1>6. CASE UNCHANGED vars
  BY <1>6 DEF vars
<1> QED BY <1>1, <1>2, <1>3, <1>4, <1>5, <1>6 DEF Next

\* The refinement: however commands overlap and die, lock.yaml is created
\* only where there is none (atomic_create_text) and keeps naming the run it
\* was made for until it is removed.
THEOREM LeaseTheorem == Spec => LockIsLease
<1>1. Init => Lease!Init
  BY DEF Init, Lease!Init
<1>2. RunLockInv /\ [Next]_vars => [Lease!Next]_lock
  BY StepIsLeaseStep
<1> QED BY <1>1, <1>2, InvHolds, PTL DEF Spec, LockIsLease, Lease!Spec

-----------------------------------------------------------------------------
(* Part two: one command at a time.                                        *)
(*                                                                         *)
(* The invariant says, for each command, how far its writes have got: the  *)
(* files are the committed ones with a prefix of the command's writes      *)
(* applied, and the guards the command tested still hold of the committed  *)
(* files.  Nothing else changes them, for no other process is at work.     *)

OldTask == committed[1]
OldRuns == committed[2]
OldLock == committed[3]

\* Only one process is in the middle of a command.
Alone == \A p, q \in Procs : pc[p] # "idle" /\ pc[q] # "idle" => p = q

OldRunIs(r, type, status) ==
    r \in 1..Len(OldRuns) /\ OldRuns[r].run_type = type /\ OldRuns[r].status = status

\* implement start or validate start: the run record is added, the lock is
\* created, and for validation the record is linked, in this order.
StartProgress(p) ==
    LET m == mem[p]
        linked == [m.run EXCEPT !.based_on_implementation_run =
                     IF m.type = "validation" THEN OldTask.latest_implementation_run ELSE 0]
    IN
    /\ pc[p] \in {"check", "save_run", "acquire", "create", "link", "reread", "record"}
    /\ m.task = OldTask /\ task = OldTask
    /\ m.run = [NoRun EXCEPT !.run_type = m.type]
    /\ IF m.type = "implementation" THEN OldTask.status_stage \in IMPLEMENTABLE_TASK_STAGES
       ELSE /\ OldTask.status_stage = "implemented"
            /\ OldRunIs(OldTask.latest_implementation_run, "implementation", "finished")
    /\ pc[p] \in {"check", "save_run"} => runs = OldRuns /\ lock = OldLock
    /\ pc[p] # "check" =>
          /\ OldLock = NoLock
          /\ \A r \in 1..Len(OldRuns) : OldRuns[r].status # "running"
          /\ m.run_id = Len(OldRuns) + 1 /\ m.run_id <= MaxRuns
    /\ pc[p] \in {"acquire", "create"} => lock = NoLock
    /\ pc[p] \in {"link", "reread", "record"} => lock = LockFor(m.type, m.run_id)
    /\ pc[p] \in {"acquire", "create", "link"} => runs = Append(OldRuns, m.run)
    /\ pc[p] \in {"reread", "record"} => runs = Append(OldRuns, linked)
    /\ pc[p] = "link" => m.type = "validation"

\* implement resume: the run's expired lock may go, then its lock is created.
ResumeProgress(p) ==
    LET m == mem[p]
        own(l) == l.expired /\ l.run_id = m.run_id /\ l.run_type = "implementation"
    IN
    /\ pc[p] \in {"resume", "expire", "acquire", "create", "record"}
    /\ m.type = "implementation"
    /\ m.task = OldTask /\ task = OldTask /\ runs = OldRuns
    /\ OldTask.status_stage \in {"approved", "implementing"}
    /\ OldRunIs(m.run_id, "implementation", "running")
    /\ pc[p] \in {"resume", "expire"} => lock = OldLock
    /\ pc[p] # "resume" => OldLock = NoLock \/ own(OldLock)
    /\ pc[p] \in {"acquire", "create"} => lock = NoLock
    /\ pc[p] = "record" => lock = LockFor("implementation", m.run_id)

\* validate check: its only write is the last step.
CheckProgress(p) ==
    LET m == mem[p] IN
    /\ pc[p] = "save_check"
    /\ committed = files
    /\ m.type = "validation"
    /\ m.run_id = OldTask.latest_validation_run
    /\ OldRunIs(m.run_id, "validation", "running")
    /\ m.run = OldRuns[m.run_id]
    /\ validation_check_decision(OldTask.status_stage, OldLock, m.run_id, m.run)
    /\ ~OldLock.expired

\* implement finish and validate finish: the run, the task, the lock, and the
\* task once more.
FinishProgress(p) ==
    LET m == mem[p]
        holds(l) == l.run_type = m.type /\ l.run_id = m.run_id
    IN
    /\ pc[p] \in {"finish_run", "finish_task", "release", "unlink", "finish_save"}
    /\ m.task = OldTask
    /\ m.status \in {"finished", "failed"}
    /\ m.run_id = latest_run(OldTask, m.type)
    /\ OldRunIs(m.run_id, m.type, "running")
    /\ m.run = OldRuns[m.run_id]
    /\ m.type = "implementation" => m.status = "finished"
    /\ m.type = "validation" /\ m.status = "finished" =>
          /\ m.run.satisfied
          /\ OldTask.latest_implementation_run \in 1..Len(OldRuns)
          /\ OldRuns[OldTask.latest_implementation_run].status = "finished"
    /\ runs = IF pc[p] = "finish_run" THEN OldRuns
              ELSE [OldRuns EXCEPT ![m.run_id] = [m.run EXCEPT !.status = m.status]]
    /\ task = IF pc[p] \in {"finish_run", "finish_task"} THEN OldTask ELSE FinishedTask(p)
    /\ lock = IF pc[p] = "finish_save" THEN NoLock ELSE OldLock
    /\ pc[p] \in {"unlink", "finish_save"} => holds(OldLock)

BreakProgress(p) == pc[p] = "break" /\ committed = files /\ lock # NoLock

Progress(p) ==
    /\ mem[p].command = "start" => StartProgress(p)
    /\ mem[p].command = "resume" => ResumeProgress(p)
    /\ mem[p].command = "check" => CheckProgress(p)
    /\ mem[p].command = "finish" => FinishProgress(p)
    /\ mem[p].command = "break" => BreakProgress(p)
    /\ mem[p].command = "none" => pc[p] = "idle" /\ mem[p] = Nothing

CommittedType ==
    /\ committed = <<OldTask, OldRuns, OldLock>>
    /\ OldTask \in TaskRecord
    /\ OldRuns \in Seq(TaskRunRecord) /\ Len(OldRuns) <= MaxRuns
    /\ OldLock \in [run_type: WorkTypes, run_id: 1..MaxRuns, expired: BOOLEAN] \cup {NoLock}

SerialInv ==
    /\ RunLockInv
    /\ CommittedType
    /\ Alone
    /\ AllIdle => committed = files
    /\ \A p \in Procs : Progress(p)
    /\ OneRunUnderCrashes
    /\ EvidenceBeforeStage

-----------------------------------------------------------------------------
(* Who is doing what *)

\* The step a process is at tells its command and how far its writes are.
LEMMA WhichCommand ==
    ASSUME SerialInv, NEW p \in Procs
    PROVE  /\ pc[p] \in {"check", "save_run", "link", "reread"} =>
                 mem[p].command = "start" /\ StartProgress(p)
           /\ pc[p] \in {"resume", "expire"} =>
                 mem[p].command = "resume" /\ ResumeProgress(p)
           /\ pc[p] \in {"acquire", "create", "record"} =>
                 \/ mem[p].command = "start" /\ StartProgress(p)
                 \/ mem[p].command = "resume" /\ ResumeProgress(p)
           /\ pc[p] = "save_check" => mem[p].command = "check" /\ CheckProgress(p)
           /\ pc[p] \in {"finish_run", "finish_task", "release", "unlink", "finish_save"} =>
                 mem[p].command = "finish" /\ FinishProgress(p)
           /\ pc[p] = "break" => mem[p].command = "break" /\ BreakProgress(p)
           /\ pc[p] = "idle" => mem[p] = Nothing
           /\ mem[p].command = "none" => pc[p] = "idle"
<1>1. mem[p].command \in Commands /\ Progress(p)
  BY DEF SerialInv, RunLockInv, TypeOK, Memory
<1> DEFINE c == mem[p].command
<1>2. CASE c = "start"
  BY <1>1, <1>2 DEF Progress, StartProgress
<1>3. CASE c = "resume"
  BY <1>1, <1>3 DEF Progress, ResumeProgress
<1>4. CASE c = "check"
  BY <1>1, <1>4 DEF Progress, CheckProgress
<1>5. CASE c = "finish"
  BY <1>1, <1>5 DEF Progress, FinishProgress
<1>6. CASE c = "break"
  BY <1>1, <1>6 DEF Progress, BreakProgress
<1>7. CASE c = "none"
  BY <1>1, <1>7 DEF Progress
<1> QED BY <1>1, <1>2, <1>3, <1>4, <1>5, <1>6, <1>7 DEF Commands

\* A process that is not at work holds nothing, and says so.
LEMMA IdleProgress ==
    ASSUME NEW p \in Procs, pc'[p] = "idle", mem'[p] = Nothing
    PROVE  Progress(p)'
BY DEF Progress, Nothing, Blank

\* The others, while one process works.
LEMMA OthersIdle ==
    ASSUME SerialInv, NEW p \in Procs, pc[p] # "idle"
    PROVE  \A q \in Procs : q # p => pc[q] = "idle" /\ mem[q] = Nothing
BY WhichCommand DEF SerialInv, Alone

-----------------------------------------------------------------------------
(* A command in progress *)

\* Saving the newest run once more replaces it.
LEMMA AppendReplaced ==
    ASSUME NEW S, NEW s \in Seq(S), NEW x \in S, NEW y \in S
    PROVE  [Append(s, x) EXCEPT ![Len(s) + 1] = y] = Append(s, y)
<1> DEFINE f == [Append(s, x) EXCEPT ![Len(s) + 1] = y]
           g == Append(s, y)
<1>1. Append(s, x) \in Seq(S) /\ Len(Append(s, x)) = Len(s) + 1 /\ Len(s) + 1 \in 1..Len(s) + 1
  OBVIOUS
<1>2. f \in Seq(S) /\ Len(f) = Len(s) + 1
  BY <1>1, ExceptSeq
<1>3. g \in Seq(S) /\ Len(g) = Len(s) + 1
  OBVIOUS
<1>4. ASSUME NEW i \in 1..Len(s) + 1
      PROVE  f[i] = g[i]
  <2>1. f[i] = IF i = Len(s) + 1 THEN y ELSE Append(s, x)[i]
    <3> DEFINE a == Append(s, x)
    <3> HIDE DEF a
    <3>1. a \in Seq(S) /\ Len(a) = Len(s) + 1 /\ Len(s) + 1 \in 1..Len(a) /\ i \in 1..Len(a)
      BY <1>1 DEF a
    <3>2. [a EXCEPT ![Len(s) + 1] = y][i] = IF i = Len(s) + 1 THEN y ELSE a[i]
      BY <3>1, ExceptSeq
    <3> QED BY <3>2 DEF a
  <2>2. Append(s, x)[i] = (IF i <= Len(s) THEN s[i] ELSE x)
        /\ g[i] = (IF i <= Len(s) THEN s[i] ELSE y)
    OBVIOUS
  <2> QED BY <2>1, <2>2
<1> QED BY <1>2, <1>3, <1>4, SeqEqual

\* A start saves its run, links it and reads the task again.
LEMMA StartContinues ==
    ASSUME SerialInv, NEW p \in Procs, committed' = committed, pc'[p] # "idle",
           \/ start_check(p) \/ start_save_run(p) \/ link_implementation(p) \/ reread_task(p)
    PROVE  Progress(p)'
<1> USE RunLockAssumption
<1>0. /\ pc[p] \in {"check", "save_run", "link", "reread"}
      /\ mem[p].command = "start" /\ StartProgress(p)
      /\ mem[p] \in Memory /\ pc \in [Procs -> Steps] /\ mem \in [Procs -> Memory]
      /\ runs \in Seq(TaskRunRecord) /\ Len(runs) \in Nat
  BY WhichCommand DEF start_check, start_save_run, link_implementation, reread_task,
                      SerialInv, RunLockInv, TypeOK
<1>1. SUFFICES mem'[p].command = "start" /\ StartProgress(p)'
  BY DEF Progress
<1>2. CASE start_check(p)
  <2>1. /\ lock = NoLock /\ running_runs = {} /\ Len(runs) < MaxRuns
        /\ pc' = [pc EXCEPT ![p] = "save_run"]
        /\ mem' = [mem EXCEPT ![p].run_id = Len(runs) + 1]
        /\ UNCHANGED files
    BY <1>0, <1>2 DEF start_check, Leave, Goto
  <2>2. /\ pc'[p] = "save_run" /\ mem'[p] = [mem[p] EXCEPT !.run_id = Len(runs) + 1]
        /\ pc[p] = "check"
    BY <1>0, <1>2, <2>1 DEF start_check
  <2>3. \A r \in 1..Len(runs) : runs[r].status # "running"
    BY <2>1 DEF running_runs, RunIds
  <2> QED BY <1>0, <2>1, <2>2, <2>3
          DEF StartProgress, files, OldTask, OldRuns, OldLock, OldRunIs, Memory
<1>3. CASE start_save_run(p)
  <2>1. pc[p] = "save_run" /\ pc'[p] = "acquire" /\ UNCHANGED <<task, lock, mem>>
        /\ save_run(mem[p].run_id, mem[p].run)
    BY <1>0, <1>3 DEF start_save_run, Goto
  <2>2. runs' = Append(OldRuns, mem[p].run)
    BY <1>0, <2>1 DEF save_run, StartProgress, RunIds, OldRuns
  <2> QED BY <1>0, <2>1, <2>2 DEF StartProgress, OldTask, OldRuns, OldLock, OldRunIs
<1>4. CASE link_implementation(p)
  <2> DEFINE linked == [mem[p].run EXCEPT
                          !.based_on_implementation_run = OldTask.latest_implementation_run]
  <2>1. pc[p] = "link" /\ pc'[p] = "reread" /\ UNCHANGED <<task, lock, mem>>
        /\ save_run(mem[p].run_id, linked)
    BY <1>0, <1>4 DEF link_implementation, Goto, StartProgress, OldTask
  <2>2. /\ runs = Append(OldRuns, mem[p].run) /\ mem[p].run_id = Len(OldRuns) + 1
        /\ OldRuns \in Seq(TaskRunRecord) /\ OldTask \in TaskRecord
        /\ mem[p].run \in TaskRunRecord
    BY <1>0, <2>1 DEF StartProgress, SerialInv, CommittedType, Memory
  <2>9. linked \in TaskRunRecord
    BY <2>2 DEF TaskRecord, TaskRunRecord
  <2>3. runs' = [runs EXCEPT ![Len(OldRuns) + 1] = linked]
    BY <2>1, <2>2 DEF save_run, RunIds
  <2>4. runs' = Append(OldRuns, linked)
    <3> HIDE DEF linked
    <3>1. [Append(OldRuns, mem[p].run) EXCEPT ![Len(OldRuns) + 1] = linked]
             = Append(OldRuns, linked)
      BY <2>2, <2>9, AppendReplaced
    <3> QED BY <2>2, <2>3, <3>1
  <2> QED BY <1>0, <2>1, <2>4 DEF StartProgress, OldTask, OldRuns, OldLock, OldRunIs
<1>5. CASE reread_task(p)
  <2>1. /\ pc[p] = "reread" /\ pc'[p] = "record" /\ UNCHANGED files
        /\ mem'[p] = [mem[p] EXCEPT !.task = task] /\ task = mem[p].task
    BY <1>0, <1>5 DEF reread_task, Goto, StartProgress, OldTask
  <2>2. mem'[p] = mem[p]
    BY <1>0, <2>1 DEF Memory
  <2> QED BY <1>0, <2>1, <2>2 DEF StartProgress, OldTask, OldRuns, OldLock, OldRunIs, files
<1> QED BY <1>2, <1>3, <1>4, <1>5

\* Taking the lock, for a start or a resume.
LEMMA AcquireContinues ==
    ASSUME SerialInv, NEW p \in Procs, committed' = committed, pc'[p] # "idle",
           acquire_read(p) \/ acquire_create(p)
    PROVE  Progress(p)'
<1> USE RunLockAssumption
<1>0. /\ pc[p] \in {"acquire", "create"}
      /\ \/ mem[p].command = "start" /\ StartProgress(p)
         \/ mem[p].command = "resume" /\ ResumeProgress(p)
      /\ lock = NoLock /\ mem[p] \in Memory /\ mem[p].type \in WorkTypes
      /\ pc \in [Procs -> Steps] /\ mem \in [Procs -> Memory]
  BY WhichCommand DEF acquire_read, acquire_create, StartProgress, ResumeProgress,
                      SerialInv, RunLockInv, TypeOK, Memory
<1>1. CASE acquire_read(p)
  <2>1. pc[p] = "acquire" /\ pc'[p] = "create" /\ UNCHANGED <<task, runs, lock, mem>>
    BY <1>0, <1>1 DEF acquire_read, Goto, files
  <2>2. CASE mem[p].command = "start"
    BY <1>0, <2>1, <2>2 DEF Progress, StartProgress, OldTask, OldRuns, OldLock, OldRunIs
  <2>3. CASE mem[p].command = "resume"
    BY <1>0, <2>1, <2>3 DEF Progress, ResumeProgress, OldTask, OldRuns, OldLock, OldRunIs
  <2> QED BY <1>0, <2>2, <2>3
<1>2. CASE acquire_create(p)
  <2>1. /\ pc[p] = "create" /\ pc'[p] = AfterLock(p) /\ UNCHANGED <<task, runs, mem>>
        /\ lock' = LockFor(mem[p].type, mem[p].run_id)
    BY <1>0, <1>2 DEF acquire_create, Goto
  <2>2. CASE mem[p].command = "start"
    <3>1. pc'[p] = IF mem[p].type = "validation" THEN "link" ELSE "reread"
      BY <2>1, <2>2 DEF AfterLock
    <3>2. StartProgress(p) /\ mem[p].run \in TaskRunRecord
      BY <1>0, <2>2 DEF Memory
    <3>3. mem[p].type # "validation" =>
             mem[p].run = [mem[p].run EXCEPT !.based_on_implementation_run = 0]
      BY <3>2 DEF StartProgress, NoRun
    <3>4. StartProgress(p)'
      BY <1>0, <2>1, <3>1, <3>2, <3>3 DEF StartProgress, OldTask, OldRuns, OldLock, OldRunIs, WorkTypes
    <3> QED BY <2>1, <2>2, <3>4 DEF Progress
  <2>3. CASE mem[p].command = "resume"
    BY <1>0, <2>1, <2>3 DEF Progress, AfterLock, ResumeProgress, OldTask, OldRuns, OldLock, OldRunIs
  <2> QED BY <1>0, <2>2, <2>3
<1> QED BY <1>1, <1>2

\* A resume decides whether to take over its own expired lock.
LEMMA ResumeContinues ==
    ASSUME SerialInv, NEW p \in Procs, committed' = committed, pc'[p] # "idle",
           resume_check(p) \/ release_expired_lock(p)
    PROVE  Progress(p)'
<1>0. /\ pc[p] \in {"resume", "expire"}
      /\ mem[p].command = "resume" /\ ResumeProgress(p)
      /\ pc \in [Procs -> Steps] /\ mem \in [Procs -> Memory]
  BY WhichCommand DEF resume_check, release_expired_lock, SerialInv, RunLockInv, TypeOK
<1>1. CASE resume_check(p)
  <2>1. /\ pc[p] = "resume" /\ UNCHANGED <<task, runs, lock, mem>>
        /\ \/ lock = NoLock /\ pc'[p] = "acquire"
           \/ /\ lock.expired /\ lock.run_id = mem[p].run_id /\ lock.run_type = "implementation"
              /\ pc'[p] = "expire"
    BY <1>0, <1>1 DEF resume_check, Goto, Leave, files
  <2> QED BY <1>0, <2>1 DEF Progress, ResumeProgress, OldTask, OldRuns, OldLock, OldRunIs
<1>2. CASE release_expired_lock(p)
  <2>1. pc[p] = "expire" /\ UNCHANGED <<task, runs, mem>> /\ lock' = NoLock /\ pc'[p] = "acquire"
    BY <1>0, <1>2 DEF release_expired_lock, Goto
  <2> QED BY <1>0, <2>1 DEF Progress, ResumeProgress, OldTask, OldRuns, OldLock, OldRunIs
<1> QED BY <1>1, <1>2

\* A finish writes the run, then the task, then removes the lock.
LEMMA FinishContinues ==
    ASSUME SerialInv, NEW p \in Procs, committed' = committed, pc'[p] # "idle",
           \/ finish_run(p) \/ finish_save_task(p) \/ release_read(p) \/ release_unlink(p)
    PROVE  Progress(p)'
<1>0. /\ pc[p] \in {"finish_run", "finish_task", "release", "unlink"}
      /\ mem[p].command = "finish" /\ FinishProgress(p)
      /\ pc \in [Procs -> Steps] /\ mem \in [Procs -> Memory]
  BY WhichCommand DEF finish_run, finish_save_task, release_read, release_unlink,
                      SerialInv, RunLockInv, TypeOK
<1>1. UNCHANGED mem /\ mem' = mem
  BY <1>0 DEF finish_run, finish_save_task, release_read, release_unlink, Leave, Goto
<1>2. SUFFICES FinishProgress(p)'
  BY <1>0, <1>1, SMTT(30) DEF Progress
<1>3. CASE finish_run(p)
  <2>1. /\ pc[p] = "finish_run" /\ pc'[p] = "finish_task" /\ UNCHANGED <<task, lock>>
        /\ save_run(mem[p].run_id, [mem[p].run EXCEPT !.status = mem[p].status])
    BY <1>0, <1>3 DEF finish_run, Goto
  <2>2. runs' = [OldRuns EXCEPT ![mem[p].run_id] = [mem[p].run EXCEPT !.status = mem[p].status]]
    BY <1>0, <2>1 DEF save_run, FinishProgress, RunIds, OldRunIs
  <2> QED BY <1>0, <1>1, <2>1, <2>2 DEF FinishProgress, OldTask, OldRuns, OldLock, OldRunIs, latest_run
<1>4. CASE finish_save_task(p)
  <2>1. /\ pc[p] = "finish_task" /\ pc'[p] = "release" /\ UNCHANGED <<runs, lock>>
        /\ task' = FinishedTask(p)
    BY <1>0, <1>4, SMTT(30) DEF finish_save_task, Goto
  <2> QED BY <1>0, <1>1, <2>1
          DEF FinishProgress, FinishedTask, OldTask, OldRuns, OldLock, OldRunIs, latest_run
<1>5. CASE release_read(p)
  <2>1. /\ pc[p] = "release" /\ pc'[p] = "unlink" /\ UNCHANGED <<task, runs, lock>>
        /\ lock.run_type = mem[p].type /\ lock.run_id = mem[p].run_id
    BY <1>0, <1>5 DEF release_read, Goto, Leave, files
  <2> QED BY <1>0, <1>1, <2>1
          DEF FinishProgress, FinishedTask, OldTask, OldRuns, OldLock, OldRunIs, latest_run
<1>6. CASE release_unlink(p)
  <2>1. pc[p] = "unlink" /\ pc'[p] = "finish_save" /\ UNCHANGED <<task, runs>> /\ lock' = NoLock
    BY <1>0, <1>6 DEF release_unlink, Goto
  <2> QED BY <1>0, <1>1, <2>1
          DEF FinishProgress, FinishedTask, OldTask, OldRuns, OldLock, OldRunIs, latest_run
<1> QED BY <1>3, <1>4, <1>5, <1>6

\* A command begins: it has read the files and tested its guards.
LEMMA IssueBegins ==
    ASSUME SerialInv, AllIdle, NEW p \in Procs, Issue(p), committed' = committed
    PROVE  /\ Progress(p)' /\ pc'[p] # "idle"
           /\ \A q \in Procs : q # p => pc'[q] = pc[q] /\ mem'[q] = mem[q]
<1>0. /\ committed = <<task, runs, lock>>
      /\ OldTask = task /\ OldRuns = runs /\ OldLock = lock
      /\ pc \in [Procs -> Steps] /\ mem \in [Procs -> Memory]
  BY DEF SerialInv, files, OldTask, OldRuns, OldLock, RunLockInv, TypeOK
<1>1. ASSUME NEW step, NEW m, Begin(p, step, m)
      PROVE  pc'[p] = step /\ mem'[p] = m
             /\ \A q \in Procs : q # p => pc'[q] = pc[q] /\ mem'[q] = mem[q]
  BY <1>0, <1>1 DEF Begin, Goto
<1>2. ASSUME NEW type \in WorkTypes, start(p, type)
      PROVE  /\ Progress(p)' /\ pc'[p] # "idle"
             /\ \A q \in Procs : q # p => pc'[q] = pc[q] /\ mem'[q] = mem[q]
  <2> DEFINE m == [Blank(task) EXCEPT !.command = "start", !.type = type,
                                      !.run = [NoRun EXCEPT !.run_type = type]]
  <2>1. Begin(p, "check", m) /\ UNCHANGED files
    BY <1>2 DEF start
  <2>2. m.command = "start" /\ m.type = type /\ m.task = task
        /\ m.run = [NoRun EXCEPT !.run_type = type]
    BY DEF Blank
  <2> HIDE DEF m
  <2>3. pc'[p] = "check" /\ mem'[p] = m
        /\ \A q \in Procs : q # p => pc'[q] = pc[q] /\ mem'[q] = mem[q]
    BY <1>1, <2>1
  <2>4. committed' = <<task, runs, lock>> /\ OldTask' = task /\ OldRuns' = runs /\ OldLock' = lock
        /\ UNCHANGED <<task, runs, lock>>
    BY <1>0, <2>1 DEF OldTask, OldRuns, OldLock, files
  <2>5. StartProgress(p)'
    BY <1>2, <2>2, <2>3, <2>4
       DEF start, StartProgress, files, OldRunIs, RunIs, RunIds, WorkTypes
  <2> QED BY <2>2, <2>3, <2>5 DEF Progress
<1>3. ASSUME NEW r \in RunIds, resume(p, r)
      PROVE  /\ Progress(p)' /\ pc'[p] # "idle"
             /\ \A q \in Procs : q # p => pc'[q] = pc[q] /\ mem'[q] = mem[q]
  <2> DEFINE m == [Blank(task) EXCEPT !.command = "resume", !.run_id = r]
  <2>1. Begin(p, "resume", m) /\ UNCHANGED files
    BY <1>3 DEF resume
  <2>2. m.command = "resume" /\ m.type = "implementation" /\ m.task = task /\ m.run_id = r
    BY DEF Blank
  <2> HIDE DEF m
  <2>3. pc'[p] = "resume" /\ mem'[p] = m
        /\ \A q \in Procs : q # p => pc'[q] = pc[q] /\ mem'[q] = mem[q]
    BY <1>1, <2>1
  <2>4. committed' = <<task, runs, lock>> /\ OldTask' = task /\ OldRuns' = runs /\ OldLock' = lock
        /\ UNCHANGED <<task, runs, lock>>
    BY <1>0, <2>1 DEF OldTask, OldRuns, OldLock, files
  <2>5. ResumeProgress(p)'
    BY <1>3, <2>2, <2>3, <2>4
       DEF resume, ResumeProgress, files, OldRunIs, RunIs, RunIds
  <2> QED BY <2>2, <2>3, <2>5 DEF Progress
<1>4. ASSUME check(p)
      PROVE  /\ Progress(p)' /\ pc'[p] # "idle"
             /\ \A q \in Procs : q # p => pc'[q] = pc[q] /\ mem'[q] = mem[q]
  <2> DEFINE r == task.latest_validation_run
             m == [Blank(task) EXCEPT !.command = "check", !.type = "validation",
                                      !.run_id = r, !.run = runs[r]]
  <2>1. Begin(p, "save_check", m) /\ UNCHANGED files
    BY <1>4 DEF check
  <2>2. m.command = "check" /\ m.type = "validation" /\ m.run_id = r /\ m.run = runs[r]
    BY DEF Blank
  <2> HIDE DEF m
  <2>3. pc'[p] = "save_check" /\ mem'[p] = m
        /\ \A q \in Procs : q # p => pc'[q] = pc[q] /\ mem'[q] = mem[q]
    BY <1>1, <2>1
  <2>4. committed' = <<task, runs, lock>> /\ OldTask' = task /\ OldRuns' = runs /\ OldLock' = lock
        /\ UNCHANGED <<task, runs, lock>>
    BY <1>0, <2>1 DEF OldTask, OldRuns, OldLock, files
  <2>5. CheckProgress(p)'
    BY <1>4, <2>2, <2>3, <2>4
       DEF check, CheckProgress, files, OldRunIs, RunIs, RunIds
  <2> QED BY <2>2, <2>3, <2>5 DEF Progress
<1>5. ASSUME NEW type \in WorkTypes, NEW status \in {"finished", "failed"},
             finish(p, type, status)
      PROVE  /\ Progress(p)' /\ pc'[p] # "idle"
             /\ \A q \in Procs : q # p => pc'[q] = pc[q] /\ mem'[q] = mem[q]
  <2> DEFINE r == latest_run(task, type)
             m == [Blank(task) EXCEPT !.command = "finish", !.type = type, !.status = status,
                                      !.run_id = r, !.run = runs[r]]
  <2>1. Begin(p, "finish_run", m) /\ UNCHANGED files
    BY <1>5 DEF finish
  <2>2. m.command = "finish" /\ m.type = type /\ m.status = status /\ m.task = task
        /\ m.run_id = r /\ m.run = runs[r]
    BY DEF Blank
  <2> HIDE DEF m
  <2>3. pc'[p] = "finish_run" /\ mem'[p] = m
        /\ \A q \in Procs : q # p => pc'[q] = pc[q] /\ mem'[q] = mem[q]
    BY <1>1, <2>1
  <2>4. committed' = <<task, runs, lock>> /\ OldTask' = task /\ OldRuns' = runs /\ OldLock' = lock
        /\ UNCHANGED <<task, runs, lock>>
    BY <1>0, <2>1 DEF OldTask, OldRuns, OldLock, files
  <2>5. FinishProgress(p)'
    BY <1>5, <2>2, <2>3, <2>4
       DEF finish, FinishProgress, files, OldRunIs, RunIs, RunIds, latest_run
  <2> QED BY <2>2, <2>3, <2>5 DEF Progress
<1>6. ASSUME break_read(p)
      PROVE  /\ Progress(p)' /\ pc'[p] # "idle"
             /\ \A q \in Procs : q # p => pc'[q] = pc[q] /\ mem'[q] = mem[q]
  <2>1. Begin(p, "break", [Nothing EXCEPT !.command = "break"]) /\ UNCHANGED files /\ lock # NoLock
    BY <1>6 DEF break_read
  <2>2. [Nothing EXCEPT !.command = "break"].command = "break"
    BY DEF Nothing, Blank
  <2> QED BY <1>0, <1>1, <2>1, <2>2 DEF Progress, BreakProgress, files
<1> QED BY <1>2, <1>3, <1>4, <1>5, <1>6 DEF Issue

-----------------------------------------------------------------------------
(* What each step does to the files *)

FilesSafe == OneRunUnderCrashes /\ EvidenceBeforeStage

\* Saving a run that is running, or a new one while none is, harms nothing:
\* the runs the stage rests on are not running and are not rewritten.
LEMMA SavedRunSafe ==
    ASSUME SerialInv, UNCHANGED <<task, lock>>,
           NEW r \in 1..Len(runs) + 1, r <= MaxRuns, NEW run \in TaskRunRecord, save_run(r, run),
           r \in RunIds => runs[r].status = "running",
           run.status = "running" => \A x \in running_runs : x = r,
           run.status = "running" /\ lock # NoLock => lock.run_id = r
    PROVE  FilesSafe'
<1>1. /\ Len(runs') >= Len(runs) /\ r \in 1..Len(runs') /\ runs'[r] = run
      /\ Len(runs) \in Nat /\ Len(runs') \in Nat
      /\ \A x \in 1..Len(runs) : x # r => runs'[x] = runs[x]
      /\ \A x \in 1..Len(runs') : x \in 1..Len(runs) \/ x = r
  BY SaveRun DEF SerialInv, RunLockInv, TypeOK, RunIds
<1>2. \A x \in running_runs' : (x = r /\ run.status = "running") \/ (x # r /\ x \in running_runs)
  BY <1>1 DEF running_runs, RunIds
<1>3. OneRunUnderCrashes'
  BY <1>1, <1>2 DEF SerialInv, OneRunUnderCrashes
<1>4. ASSUME NEW x, NEW type, NEW status, status # "running", RunIs(x, type, {status})
      PROVE  RunIs(x, type, {status})'
  BY <1>1, <1>4 DEF RunIs, RunIds
<1>5. EvidenceBeforeStage'
  BY <1>4 DEF SerialInv, EvidenceBeforeStage
<1> QED BY <1>3, <1>5 DEF FilesSafe

\* Removing the lock, or leaving the files as they are.
LEMMA LockGoneSafe ==
    ASSUME SerialInv, UNCHANGED <<task, runs>>, lock' \in {lock, NoLock}
    PROVE  FilesSafe'
BY DEF SerialInv, FilesSafe, OneRunUnderCrashes, EvidenceBeforeStage, RunIs, RunIds, running_runs

\* Every step of a process at work.
LEMMA StepSafe ==
    ASSUME SerialInv, NEW p \in Procs, Step(p)
    PROVE  FilesSafe'
<1> USE RunLockAssumption
<1>0. /\ mem[p] \in Memory /\ mem[p].run \in TaskRunRecord /\ mem[p].task \in TaskRecord
      /\ mem[p].type \in WorkTypes
      /\ Len(runs) \in Nat /\ runs \in Seq(TaskRunRecord) /\ Len(runs) <= MaxRuns
      /\ OldTask \in TaskRecord /\ OldRuns \in Seq(TaskRunRecord) /\ Len(OldRuns) \in Nat
  BY DEF SerialInv, CommittedType, RunLockInv, TypeOK, Memory
<1>1. CASE UNCHANGED files
  BY <1>1, LockGoneSafe DEF files
<1>2. CASE release_expired_lock(p) \/ release_unlink(p) \/ break_unlink(p)
  BY <1>2, LockGoneSafe DEF release_expired_lock, release_unlink, break_unlink
<1>3. CASE start_save_run(p)
  <2>1. /\ StartProgress(p) /\ pc[p] = "save_run"
        /\ save_run(mem[p].run_id, mem[p].run) /\ UNCHANGED <<task, lock>>
    BY <1>3, WhichCommand DEF start_save_run
  <2>2. /\ mem[p].run_id = Len(runs) + 1 /\ mem[p].run_id <= MaxRuns /\ lock = NoLock
        /\ running_runs = {}
    BY <2>1 DEF StartProgress, running_runs, RunIds
  <2>3. mem[p].run_id \in 1..Len(runs) + 1 /\ mem[p].run_id \notin RunIds
    BY <1>0, <2>2 DEF RunIds
  <2> QED BY <1>0, <2>1, <2>2, <2>3, SavedRunSafe
<1>4. CASE link_implementation(p)
  <2> DEFINE linked == [mem[p].run EXCEPT !.based_on_implementation_run =
                           mem[p].task.latest_implementation_run]
  <2>1. /\ StartProgress(p) /\ pc[p] = "link"
        /\ save_run(mem[p].run_id, linked) /\ UNCHANGED <<task, lock>>
    BY <1>4, WhichCommand DEF link_implementation
  <2>2. /\ mem[p].run_id = Len(OldRuns) + 1 /\ mem[p].run_id <= MaxRuns
        /\ lock = LockFor(mem[p].type, mem[p].run_id)
        /\ runs = Append(OldRuns, mem[p].run) /\ mem[p].run.status = "running"
        /\ \A x \in 1..Len(OldRuns) : OldRuns[x].status # "running"
    BY <2>1 DEF StartProgress, NoRun
  <2>3. /\ mem[p].run_id \in RunIds /\ mem[p].run_id \in 1..Len(runs) + 1
        /\ runs[mem[p].run_id].status = "running"
        /\ \A x \in running_runs : x = mem[p].run_id
    BY <1>0, <2>2 DEF RunIds, running_runs
  <2>4. linked \in TaskRunRecord
    BY <1>0 DEF TaskRecord, TaskRunRecord
  <2>5. lock.run_id = mem[p].run_id
    BY <2>2 DEF LockFor
  <2> HIDE DEF linked
  <2> QED BY <2>1, <2>2, <2>3, <2>4, <2>5, SavedRunSafe
<1>5. CASE save_check(p)
  <2> DEFINE run == [mem[p].run EXCEPT !.satisfied = TRUE]
  <2>1. /\ CheckProgress(p)
        /\ save_run(mem[p].run_id, run) /\ UNCHANGED <<task, lock>>
    BY <1>5, WhichCommand DEF save_check
  <2>2. /\ mem[p].run_id \in RunIds /\ runs[mem[p].run_id].status = "running"
        /\ mem[p].run.status = "running"
    BY <2>1 DEF CheckProgress, OldRunIs, files, OldRuns, RunIds
  <2>3. mem[p].run_id \in 1..Len(runs) + 1 /\ mem[p].run_id <= MaxRuns
        /\ mem[p].run_id \in running_runs
    BY <1>0, <2>2 DEF RunIds, running_runs
  <2>4. run \in TaskRunRecord
    BY <1>0 DEF TaskRunRecord
  <2>5. (\A x \in running_runs : x = mem[p].run_id) /\ (lock # NoLock => lock.run_id = mem[p].run_id)
    BY <2>3 DEF SerialInv, OneRunUnderCrashes
  <2> HIDE DEF run
  <2> QED BY <2>1, <2>2, <2>3, <2>4, <2>5, SavedRunSafe
<1>6. CASE finish_run(p)
  <2> DEFINE run == [mem[p].run EXCEPT !.status = mem[p].status]
  <2>1. /\ FinishProgress(p) /\ pc[p] = "finish_run"
        /\ save_run(mem[p].run_id, run) /\ UNCHANGED <<task, lock>>
    BY <1>6, WhichCommand DEF finish_run
  <2>2. /\ mem[p].run_id \in RunIds /\ runs[mem[p].run_id].status = "running"
        /\ mem[p].status # "running" /\ mem[p].status \in RunStatuses
    BY <2>1 DEF FinishProgress, OldRunIs, RunIds, RunStatuses
  <2>3. mem[p].run_id \in 1..Len(runs) + 1 /\ mem[p].run_id <= MaxRuns
    BY <1>0, <2>2 DEF RunIds
  <2>4. run \in TaskRunRecord /\ run.status # "running"
    BY <1>0, <2>2 DEF TaskRunRecord
  <2> HIDE DEF run
  <2> QED BY <2>1, <2>2, <2>3, <2>4, SavedRunSafe
<1>7. CASE acquire_create(p) /\ lock = NoLock
  <2>1. /\ pc[p] = "create" /\ UNCHANGED <<task, runs>>
        /\ lock' = LockFor(mem[p].type, mem[p].run_id)
    BY <1>7 DEF acquire_create
  <2>2. \A x \in running_runs : x = mem[p].run_id
    <3>1. CASE StartProgress(p)
      <4>1. /\ runs = Append(OldRuns, mem[p].run) /\ mem[p].run_id = Len(OldRuns) + 1
            /\ \A x \in 1..Len(OldRuns) : OldRuns[x].status # "running"
        BY <2>1, <3>1 DEF StartProgress
      <4> QED BY <1>0, <4>1 DEF running_runs, RunIds
    <3>2. CASE ResumeProgress(p)
      <4>1. mem[p].run_id \in running_runs
        BY <3>2 DEF ResumeProgress, OldRunIs, running_runs, RunIds
      <4> QED BY <4>1 DEF SerialInv, OneRunUnderCrashes
    <3> QED BY <2>1, <3>1, <3>2, WhichCommand
  <2>3. OneRunUnderCrashes'
    BY <2>1, <2>2 DEF OneRunUnderCrashes, LockFor, running_runs, RunIds
  <2>4. EvidenceBeforeStage'
    BY <2>1 DEF SerialInv, EvidenceBeforeStage, RunIs, RunIds
  <2> QED BY <2>3, <2>4 DEF FilesSafe
<1>8. CASE record_run(p)
  <2>1. /\ pc[p] = "record" /\ UNCHANGED <<runs, lock>>
        /\ task' = IF mem[p].type = "implementation"
                   THEN [mem[p].task EXCEPT !.latest_implementation_run = mem[p].run_id,
                                            !.status_stage = "implementing"]
                   ELSE [mem[p].task EXCEPT !.latest_validation_run = mem[p].run_id]
    BY <1>8 DEF record_run
  <2>2. OneRunUnderCrashes'
    BY <2>1 DEF SerialInv, OneRunUnderCrashes, running_runs, RunIds
  <2>3. CASE mem[p].type = "implementation"
    BY <1>0, <2>1, <2>2, <2>3 DEF FilesSafe, EvidenceBeforeStage, TaskRecord
  <2>4. CASE mem[p].type # "implementation"
    <3>1. StartProgress(p)
      BY <2>1, <2>4, WhichCommand DEF ResumeProgress
    <3>2. mem[p].task = task /\ task.status_stage = "implemented"
      BY <2>4, <3>1 DEF StartProgress
    <3>3. task'.status_stage = "implemented"
          /\ task'.latest_implementation_run = task.latest_implementation_run
      BY <1>0, <2>1, <2>4, <3>2 DEF TaskRecord
    <3>4. RunIs(task.latest_implementation_run, "implementation", {"finished"})
      BY <3>2 DEF SerialInv, EvidenceBeforeStage
    <3> QED BY <2>1, <2>2, <3>3, <3>4 DEF FilesSafe, EvidenceBeforeStage, RunIs, RunIds
  <2> QED BY <2>3, <2>4
<1>9. CASE finish_save_task(p) \/ release_save_task(p)
  <2>1. /\ FinishProgress(p) /\ pc[p] # "finish_run" /\ UNCHANGED <<runs, lock>>
        /\ task' = FinishedTask(p)
    BY <1>9, WhichCommand DEF finish_save_task, release_save_task
  <2>2. OneRunUnderCrashes'
    BY <2>1 DEF SerialInv, OneRunUnderCrashes, running_runs, RunIds
  <2>3. /\ task'.status_stage = StageAfter(mem[p].type, mem[p].status)
        /\ latest_run(task', mem[p].type) = mem[p].run_id
    BY <1>0, <2>1 DEF FinishedTask, FinishProgress, latest_run, TaskRecord
  <2>4. RunIs(mem[p].run_id, mem[p].type, {mem[p].status})
    <3>1. /\ mem[p].run_id \in 1..Len(OldRuns)
          /\ runs = [OldRuns EXCEPT ![mem[p].run_id] = [mem[p].run EXCEPT !.status = mem[p].status]]
          /\ mem[p].run.run_type = mem[p].type
      BY <2>1 DEF FinishProgress, OldRunIs
    <3>2. Len(runs) = Len(OldRuns) /\ runs[mem[p].run_id].run_type = mem[p].type
          /\ runs[mem[p].run_id].status = mem[p].status
      BY <1>0, <3>1 DEF TaskRunRecord
    <3> QED BY <3>1, <3>2 DEF RunIs, RunIds
  <2>5. EvidenceBeforeStage'
    <3>1. CASE mem[p].type = "implementation"
      <4>1. mem[p].status = "finished"
        BY <2>1, <3>1 DEF FinishProgress
      <4> QED BY <2>1, <2>3, <2>4, <3>1, <4>1
              DEF EvidenceBeforeStage, StageAfter, latest_run, RunIs, RunIds
    <3>2. CASE mem[p].type = "validation"
      <4>1. mem[p].status \in {"finished", "failed"}
        BY <2>1 DEF FinishProgress
      <4> QED BY <2>1, <2>3, <2>4, <3>2, <4>1
              DEF EvidenceBeforeStage, StageAfter, latest_run, RunIs, RunIds
    <3> QED BY <1>0, <3>1, <3>2 DEF WorkTypes
  <2> QED BY <2>2, <2>5 DEF FilesSafe
<1>10. \/ UNCHANGED files
       \/ release_expired_lock(p) \/ release_unlink(p) \/ break_unlink(p)
       \/ start_save_run(p) \/ link_implementation(p) \/ save_check(p) \/ finish_run(p)
       \/ acquire_create(p) /\ lock = NoLock
       \/ record_run(p) \/ finish_save_task(p) \/ release_save_task(p)
  BY DEF Step, start_check, acquire_read, acquire_create, reread_task, resume_check, release_read, files
<1> QED BY <1>1, <1>2, <1>3, <1>4, <1>5, <1>6, <1>7, <1>8, <1>9, <1>10

-----------------------------------------------------------------------------
(* The invariant *)

\* A step belongs to one process, which was at work; if that ends its
\* command, it forgets everything.
LEMMA StepShape ==
    ASSUME SerialInv, NEW p \in Procs, Step(p) \/ Crash(p)
    PROVE  /\ pc[p] # "idle"
           /\ \A q \in Procs : q # p => pc'[q] = pc[q] /\ mem'[q] = mem[q]
           /\ pc'[p] = "idle" => mem'[p] = Nothing
<1>0. pc \in [Procs -> Steps] /\ mem \in [Procs -> Memory]
  BY DEF SerialInv, RunLockInv, TypeOK
<1>1. pc[p] # "idle"
  BY DEF Step, Crash, start_check, start_save_run, acquire_read, acquire_create,
         link_implementation, reread_task, record_run, resume_check, release_expired_lock,
         save_check, finish_run, finish_save_task, release_read, release_unlink,
         release_save_task, break_unlink
<1>2. \/ Leave(p)
      \/ \E step \in Steps \ {"idle"} :
            /\ Goto(p, step)
            /\ \/ UNCHANGED mem
               \/ \E i : mem' = [mem EXCEPT ![p].run_id = i]
               \/ mem' = [mem EXCEPT ![p].task = task]
  BY DEF Step, Crash, start_check, start_save_run, acquire_read, acquire_create, AfterLock,
         link_implementation, reread_task, record_run, resume_check, release_expired_lock,
         save_check, finish_run, finish_save_task, release_read, release_unlink,
         release_save_task, break_unlink, Steps
<1>3. CASE Leave(p)
  BY <1>0, <1>1, <1>3 DEF Leave, Goto
<1>4. ASSUME NEW step \in Steps \ {"idle"}, Goto(p, step),
             \/ UNCHANGED mem
             \/ \E i : mem' = [mem EXCEPT ![p].run_id = i]
             \/ mem' = [mem EXCEPT ![p].task = task]
      PROVE  pc'[p] # "idle" /\ \A q \in Procs : q # p => pc'[q] = pc[q] /\ mem'[q] = mem[q]
  BY <1>0, <1>4 DEF Goto
<1> QED BY <1>1, <1>2, <1>3, <1>4

\* A command that goes on keeps its account of the files.
LEMMA StepContinues ==
    ASSUME SerialInv, NEW p \in Procs, Step(p), committed' = committed, pc'[p] # "idle"
    PROVE  Progress(p)'
<1>1. pc \in [Procs -> Steps]
  BY DEF SerialInv, RunLockInv, TypeOK
<1>2. ~(record_run(p) \/ save_check(p) \/ release_save_task(p) \/ break_unlink(p))
  BY <1>1 DEF record_run, save_check, release_save_task, break_unlink, Leave, Goto
<1> QED BY <1>2, StartContinues, AcquireContinues, ResumeContinues, FinishContinues DEF Step

\* Nobody has begun anything.
LEMMA SerialInitInv == SerialInit => SerialInv
<1> SUFFICES ASSUME SerialInit PROVE SerialInv
  OBVIOUS
<1>1. RunLockInv
  BY InitInv DEF SerialInit
<1>2. committed = <<task, runs, lock>> /\ committed = files
      /\ task = NoTask /\ runs = <<>> /\ lock = NoLock
  BY DEF SerialInit, Init, files
<1>3. CommittedType
  BY <1>1, <1>2 DEF CommittedType, OldTask, OldRuns, OldLock, RunLockInv, TypeOK
<1>4. Alone /\ \A p \in Procs : Progress(p)
  BY DEF SerialInit, Init, Alone, Progress, Nothing, Blank
<1>5. OneRunUnderCrashes /\ EvidenceBeforeStage
  BY <1>2 DEF OneRunUnderCrashes, EvidenceBeforeStage, running_runs, RunIds, NoTask
<1> QED BY <1>1, <1>2, <1>3, <1>4, <1>5 DEF SerialInv

\* Every step preserves the invariant.
LEMMA SerialNextInv ==
    ASSUME SerialInv, [SerialNext]_serialVars
    PROVE  SerialInv'
<1>1. CASE UNCHANGED serialVars
  BY <1>1 DEF SerialInv, serialVars, vars, files, RunLockInv, TypeOK, IdsKnown, LockNamesSavedRun,
     RunIds, CommittedType, OldTask, OldRuns, OldLock, Alone, AllIdle, Progress, StartProgress,
     ResumeProgress, CheckProgress, FinishProgress, BreakProgress, OldRunIs, FinishedTask,
     latest_run, OneRunUnderCrashes, EvidenceBeforeStage, RunIs, running_runs
<1>2. CASE SerialNext
  <2>1. RunLockInv'
    BY <1>2, NextInv DEF SerialNext, Next, SerialInv
  <2>2. committed' = IF AllIdle' THEN files' ELSE committed
    BY <1>2 DEF SerialNext
  <2>3. CommittedType'
    <3>1. CASE AllIdle'
      <4>1. committed' = <<task', runs', lock'>>
        BY <2>2, <3>1 DEF files
      <4> QED BY <2>1, <4>1 DEF CommittedType, OldTask, OldRuns, OldLock, RunLockInv, TypeOK
    <3>2. CASE ~AllIdle'
      BY <2>2, <3>2 DEF SerialInv, CommittedType, OldTask, OldRuns, OldLock
    <3> QED BY <3>1, <3>2
  <2>4. AllIdle' => committed' = files'
    BY <2>2
  \* A process that works, or ends its work, while the others are idle.
  <2>5. ASSUME NEW p \in Procs,
               \A q \in Procs : q # p => pc[q] = "idle" /\ mem[q] = Nothing,
               \A q \in Procs : q # p => pc'[q] = pc[q] /\ mem'[q] = mem[q],
               Progress(p)', FilesSafe'
        PROVE  SerialInv'
    <3>1. \A q \in Procs : q # p => Progress(q)'
      BY <2>5, IdleProgress
    <3>2. Alone'
      BY <2>5 DEF Alone
    <3> QED BY <2>1, <2>3, <2>4, <2>5, <3>1, <3>2 DEF SerialInv, FilesSafe
  <2>6. CASE AllIdle /\ LockExpires
    <3>1. \A p \in Procs : Progress(p)'
      BY <2>6, WhichCommand, IdleProgress DEF LockExpires, AllIdle
    <3>2. Alone'
      BY <2>6 DEF LockExpires, AllIdle, Alone
    <3>3. lock # NoLock /\ lock'.run_id = lock.run_id /\ UNCHANGED <<task, runs>>
      BY <2>6 DEF LockExpires, SerialInv, RunLockInv, TypeOK
    <3>4. OneRunUnderCrashes' /\ EvidenceBeforeStage'
      BY <3>3 DEF SerialInv, OneRunUnderCrashes, EvidenceBeforeStage, RunIs, RunIds, running_runs
    <3> QED BY <2>1, <2>3, <2>4, <3>1, <3>2, <3>4 DEF SerialInv
  <2>7. ASSUME NEW p \in Procs, AllIdle, Issue(p)
        PROVE  SerialInv'
    <3>1. pc'[p] # "idle"
      <4>1. pc \in [Procs -> Steps]
        BY DEF SerialInv, RunLockInv, TypeOK
      <4> QED BY <2>7, <4>1 DEF Issue, start, resume, check, finish, break_read, Begin, Goto
    <3>2. committed' = committed
      BY <2>2, <3>1 DEF AllIdle
    <3>3. UNCHANGED files
      BY <2>7 DEF Issue, start, resume, check, finish, break_read
    <3>4. FilesSafe'
      BY <3>3, LockGoneSafe DEF files
    <3>5. \A q \in Procs : pc[q] = "idle" /\ mem[q] = Nothing
      BY <2>7, WhichCommand DEF AllIdle
    <3> QED BY <2>5, <2>7, <3>2, <3>4, <3>5, IssueBegins
  <2>8. ASSUME NEW p \in Procs, Step(p) \/ Crash(p)
        PROVE  SerialInv'
    <3>1. FilesSafe'
      BY <2>8, StepSafe, LockGoneSafe DEF Crash, files
    <3>2. Progress(p)'
      <4>1. CASE pc'[p] = "idle"
        BY <2>8, <4>1, StepShape, IdleProgress
      <4>2. CASE pc'[p] # "idle"
        <5>1. committed' = committed
          BY <2>2, <4>2 DEF AllIdle
        <5>2. ~Crash(p)
          BY <4>2 DEF Crash, Leave, Goto, SerialInv, RunLockInv, TypeOK
        <5> QED BY <2>8, <4>2, <5>1, <5>2, StepContinues
      <4> QED BY <4>1, <4>2
    <3> QED BY <2>5, <2>8, <3>1, <3>2, StepShape, OthersIdle
  <2> QED BY <1>2, <2>6, <2>7, <2>8 DEF SerialNext
<1> QED BY <1>1, <1>2

\* The invariant of the serial system.
LEMMA SerialInvHolds == SerialSpec => []SerialInv
<1>1. SerialInit => SerialInv
  BY SerialInitInv
<1>2. SerialInv /\ [SerialNext]_serialVars => SerialInv'
  BY SerialNextInv
<1> QED BY <1>1, <1>2, PTL DEF SerialSpec

-----------------------------------------------------------------------------
(* The last write of a command is its TaskLifecycle step *)

\* The run records TaskLifecycle sees.
LifecycleRunSet == {LifecycleRun(run) : run \in TaskRunRecord}

\* The translated run directory is a sequence of the same length.
LEMMA LifecycleRunsSeq ==
    ASSUME NEW s \in Seq(TaskRunRecord)
    PROVE  /\ LifecycleRuns(s) \in Seq(LifecycleRunSet)
           /\ Len(LifecycleRuns(s)) = Len(s)
           /\ \A r \in 1..Len(s) : LifecycleRuns(s)[r] = LifecycleRun(s[r])
<1>1. \A r \in 1..Len(s) : LifecycleRun(s[r]) \in LifecycleRunSet
  BY DEF LifecycleRunSet
<1>2. Len(s) \in Nat
  OBVIOUS
<1> QED BY <1>1, <1>2 DEF LifecycleRuns

\* A run that is added is added to the translation.
LEMMA LifecycleRunsAppend ==
    ASSUME NEW s \in Seq(TaskRunRecord), NEW run \in TaskRunRecord
    PROVE  LifecycleRuns(Append(s, run)) = Append(LifecycleRuns(s), LifecycleRun(run))
<1> DEFINE f == LifecycleRuns(Append(s, run))
           g == Append(LifecycleRuns(s), LifecycleRun(run))
           a == Append(s, run)
<1>1. a \in Seq(TaskRunRecord) /\ Len(a) = Len(s) + 1 /\ Len(s) \in Nat
      /\ \A i \in 1..Len(s) + 1 : a[i] = IF i <= Len(s) THEN s[i] ELSE run
  OBVIOUS
<1>2. LifecycleRun(run) \in LifecycleRunSet
  BY DEF LifecycleRunSet
<1> HIDE DEF a
<1>3. f \in Seq(LifecycleRunSet) /\ Len(f) = Len(s) + 1
      /\ \A i \in 1..Len(s) + 1 : f[i] = LifecycleRun(a[i])
  BY <1>1, LifecycleRunsSeq DEF a
<1>4. g \in Seq(LifecycleRunSet) /\ Len(g) = Len(s) + 1
      /\ \A i \in 1..Len(s) + 1 :
            g[i] = IF i <= Len(s) THEN LifecycleRuns(s)[i] ELSE LifecycleRun(run)
  <2> DEFINE b == LifecycleRuns(s)
             x == LifecycleRun(run)
  <2> HIDE DEF b, x
  <2>1. b \in Seq(LifecycleRunSet) /\ Len(b) = Len(s) /\ x \in LifecycleRunSet
    BY <1>2, LifecycleRunsSeq DEF b, x
  <2>2. Append(b, x) \in Seq(LifecycleRunSet) /\ Len(Append(b, x)) = Len(s) + 1
        /\ \A i \in 1..Len(s) + 1 : Append(b, x)[i] = IF i <= Len(s) THEN b[i] ELSE x
    BY <1>1, <2>1
  <2> QED BY <2>2 DEF b, x
<1> HIDE DEF f, g
<1>5. ASSUME NEW i \in 1..Len(s) + 1
      PROVE  f[i] = g[i]
  <2>1. CASE i <= Len(s)
    <3>1. i \in 1..Len(s)
      BY <1>1, <2>1
    <3> QED BY <1>1, <1>3, <1>4, <2>1, <3>1, LifecycleRunsSeq
  <2>2. CASE ~(i <= Len(s))
    BY <1>1, <1>3, <1>4, <2>2
  <2> QED BY <2>1, <2>2
<1> QED BY <1>3, <1>4, <1>5, SeqEqual DEF f, g

\* A run that is replaced is replaced in the translation.
LEMMA LifecycleRunsExcept ==
    ASSUME NEW s \in Seq(TaskRunRecord), NEW r \in 1..Len(s), NEW run \in TaskRunRecord
    PROVE  LifecycleRuns([s EXCEPT ![r] = run]) =
              [LifecycleRuns(s) EXCEPT ![r] = LifecycleRun(run)]
<1> DEFINE a == [s EXCEPT ![r] = run]
           b == LifecycleRuns(s)
<1>1. a \in Seq(TaskRunRecord) /\ Len(a) = Len(s)
      /\ \A i \in 1..Len(s) : a[i] = IF i = r THEN run ELSE s[i]
  BY ExceptSeq
<1>2. b \in [1..Len(s) -> LifecycleRunSet] /\ \A i \in 1..Len(s) : b[i] = LifecycleRun(s[i])
  BY LifecycleRunsSeq DEF LifecycleRuns
<1> HIDE DEF a, b
<1>3. LifecycleRuns(a) = [i \in 1..Len(s) |-> IF i = r THEN LifecycleRun(run) ELSE LifecycleRun(s[i])]
  BY <1>1 DEF LifecycleRuns
<1>4. [b EXCEPT ![r] = LifecycleRun(run)]
         = [i \in 1..Len(s) |-> IF i = r THEN LifecycleRun(run) ELSE LifecycleRun(s[i])]
  BY <1>2
<1> QED BY <1>3, <1>4 DEF a, b

\* The lock is broken, or its lease runs out.
LEMMA LockStepRefines ==
    ASSUME SerialInv, committed' = files', UNCHANGED <<task, runs>>, committed = files, lock # NoLock,
           lock' = NoLock \/ (~lock.expired /\ lock' = [lock EXCEPT !.expired = TRUE])
    PROVE  Lifecycle!Next
<1>1. committed = <<task, runs, lock>> /\ committed' = <<task, runs, lock'>>
  BY DEF files
<1>2. CASE lock' = NoLock
  <2>1. Lifecycle!break_lock
    BY <1>1, <1>2 DEF Lifecycle!break_lock, Lifecycle!NoLock, NoLock
  <2> QED BY <2>1 DEF Lifecycle!Next, Lifecycle!RepairCommand
<1>3. CASE ~lock.expired /\ lock' = [lock EXCEPT !.expired = TRUE]
  <2>1. Lifecycle!LockExpires
    BY <1>1, <1>3 DEF Lifecycle!LockExpires, Lifecycle!NoLock, NoLock
  <2> QED BY <2>1 DEF Lifecycle!Next
<1> QED BY <1>2, <1>3

\* What starting or resuming an implementation run does to either record.
Implementing(t, r) ==
    [t EXCEPT !.latest_implementation_run = r, !.status_stage = "implementing"]

\* Reading and updating a record commute with the translation.
LEMMA LifecycleTaskUpdate ==
    ASSUME NEW t \in TaskRecord, NEW x
    PROVE  /\ LifecycleTask([t EXCEPT !.latest_implementation_run = x]) =
                 [LifecycleTask(t) EXCEPT !.latest_implementation_run = x]
           /\ LifecycleTask([t EXCEPT !.latest_validation_run = x]) =
                 [LifecycleTask(t) EXCEPT !.latest_validation_run = x]
           /\ LifecycleTask([t EXCEPT !.status_stage = x]) =
                 [LifecycleTask(t) EXCEPT !.status_stage = x]
<1> DEFINE View(u, archived) ==
               [status_stage |-> u.status_stage, archived |-> archived, latest_planning_run |-> 0,
                latest_implementation_run |-> u.latest_implementation_run,
                latest_validation_run |-> u.latest_validation_run,
                latest_plan_version |-> 1, accepted_plan_version |-> 1]
<1>1. ASSUME NEW archived
      PROVE  /\ View([t EXCEPT !.latest_implementation_run = x], archived) =
                   [View(t, archived) EXCEPT !.latest_implementation_run = x]
             /\ View([t EXCEPT !.latest_validation_run = x], archived) =
                   [View(t, archived) EXCEPT !.latest_validation_run = x]
             /\ View([t EXCEPT !.status_stage = x], archived) =
                   [View(t, archived) EXCEPT !.status_stage = x]
  BY DEF TaskRecord
<1> QED BY <1>1, Zenon DEF LifecycleTask

\* Two fields at once.
LEMMA LifecycleTaskImplementing ==
    ASSUME NEW t \in TaskRecord, NEW r \in 0..MaxRuns
    PROVE  LifecycleTask(Implementing(t, r)) = Implementing(LifecycleTask(t), r)
<1> DEFINE v == [t EXCEPT !.latest_implementation_run = r]
<1>1. v \in TaskRecord
  BY DEF TaskRecord
<1>2. LifecycleTask(v) = [LifecycleTask(t) EXCEPT !.latest_implementation_run = r]
  BY LifecycleTaskUpdate
<1>3. LifecycleTask([v EXCEPT !.status_stage = "implementing"]) =
         [LifecycleTask(v) EXCEPT !.status_stage = "implementing"]
  <2> HIDE DEF v
  <2> QED BY <1>1, LifecycleTaskUpdate, Zenon
<1>4. Implementing(t, r) = [v EXCEPT !.status_stage = "implementing"]
  BY Zenon DEF Implementing
<1>5. Implementing(LifecycleTask(t), r) =
         [[LifecycleTask(t) EXCEPT !.latest_implementation_run = r]
             EXCEPT !.status_stage = "implementing"]
  BY Zenon DEF Implementing
<1> HIDE DEF v
<1> QED BY <1>2, <1>3, <1>4, <1>5

\* The same for run records.
LEMMA LifecycleRunUpdate ==
    ASSUME NEW run \in TaskRunRecord, NEW x
    PROVE  /\ LifecycleRun(run).run_type = run.run_type
           /\ LifecycleRun(run).status = run.status
           /\ LifecycleRun(run).satisfied = run.satisfied
           /\ LifecycleRun([run EXCEPT !.satisfied = x]) = [LifecycleRun(run) EXCEPT !.satisfied = x]
           /\ LifecycleRun([run EXCEPT !.status = x]) = [LifecycleRun(run) EXCEPT !.status = x]
BY DEF LifecycleRun, TaskRunRecord

\* TaskLifecycle's queries, answered from the committed files.
LEMMA LifecycleQueries ==
    ASSUME SerialInv
    PROVE  /\ Lifecycle!RunIds = 1..Len(OldRuns)
           /\ Lifecycle!accepted_plan_record
           /\ \A r \in Nat : \A type, statuses :
                 Lifecycle!RunIs(r, type, statuses) <=>
                    /\ r \in 1..Len(OldRuns)
                    /\ OldRuns[r].run_type = type /\ OldRuns[r].status \in statuses
           /\ \A r \in Lifecycle!running_runs :
                 r \in 1..Len(OldRuns) /\ OldRuns[r].status = "running"
           /\ Len(LifecycleRuns(OldRuns)) = Len(OldRuns)
           /\ \A r \in 1..Len(OldRuns) :
                 /\ LifecycleRuns(OldRuns)[r] = LifecycleRun(OldRuns[r])
                 /\ LifecycleRuns(OldRuns)[r].run_type = OldRuns[r].run_type
                 /\ LifecycleRuns(OldRuns)[r].status = OldRuns[r].status
                 /\ LifecycleRuns(OldRuns)[r].satisfied = OldRuns[r].satisfied
<1>1. OldRuns \in Seq(TaskRunRecord) /\ OldRuns = committed[2]
  BY DEF SerialInv, CommittedType, OldRuns
<1>2. /\ Len(LifecycleRuns(OldRuns)) = Len(OldRuns)
      /\ \A r \in 1..Len(OldRuns) : LifecycleRuns(OldRuns)[r] = LifecycleRun(OldRuns[r])
  BY <1>1, LifecycleRunsSeq
<1>3. \A r \in 1..Len(OldRuns) :
         /\ LifecycleRuns(OldRuns)[r].run_type = OldRuns[r].run_type
         /\ LifecycleRuns(OldRuns)[r].status = OldRuns[r].status
         /\ LifecycleRuns(OldRuns)[r].satisfied = OldRuns[r].satisfied
  <2>1. \A r \in 1..Len(OldRuns) : OldRuns[r] \in TaskRunRecord
    BY <1>1
  <2> QED BY <1>2, <2>1, LifecycleRunUpdate
<1>4. Lifecycle!RunIds = 1..Len(OldRuns)
  BY <1>1, <1>2 DEF Lifecycle!RunIds
<1>5. Lifecycle!accepted_plan_record
  BY DEF Lifecycle!accepted_plan_record, Lifecycle!Versions, LifecycleTask
<1>6. ASSUME NEW r \in Nat, NEW type, NEW statuses
      PROVE  Lifecycle!RunIs(r, type, statuses) <=>
                /\ r \in 1..Len(OldRuns)
                /\ OldRuns[r].run_type = type /\ OldRuns[r].status \in statuses
  BY <1>1, <1>3, <1>4 DEF Lifecycle!RunIs
<1>7. \A r \in Lifecycle!running_runs : r \in 1..Len(OldRuns) /\ OldRuns[r].status = "running"
  BY <1>1, <1>3, <1>4 DEF Lifecycle!running_runs
<1> QED BY <1>2, <1>3, <1>4, <1>5, <1>6, <1>7

\* The record of a run that starts now.
LEMMA LifecycleNewRun ==
    ASSUME NEW type, NEW impl
    PROVE  Lifecycle!NewRun(type, "running", impl) =
              LifecycleRun([NoRun EXCEPT !.run_type = type, !.based_on_implementation_run = impl])
BY DEF Lifecycle!NewRun, LifecycleRun, LifecycleTask, NoRun

\* The last write of a start.
LEMMA StartRefines ==
    ASSUME SerialInv, NEW p \in Procs, mem[p].command = "start", record_run(p), committed' = files'
    PROVE  Lifecycle!Next
<1> DEFINE m == mem[p]
           impl == IF m.type = "validation" THEN OldTask.latest_implementation_run ELSE 0
           linked == [NoRun EXCEPT !.run_type = m.type, !.based_on_implementation_run = impl]
<1>1. /\ pc[p] = "record" /\ UNCHANGED <<runs, lock>>
      /\ task' = IF m.type = "implementation"
                 THEN [m.task EXCEPT !.latest_implementation_run = m.run_id,
                                     !.status_stage = "implementing"]
                 ELSE [m.task EXCEPT !.latest_validation_run = m.run_id]
  BY DEF record_run
<1>2. StartProgress(p)
  BY <1>1 DEF SerialInv, Progress
<1>3. /\ m.type \in WorkTypes /\ OldTask \in TaskRecord /\ OldRuns \in Seq(TaskRunRecord)
      /\ committed = <<OldTask, OldRuns, OldLock>> /\ Len(OldRuns) \in Nat
      /\ OldTask.latest_implementation_run \in 0..MaxRuns
  BY DEF SerialInv, CommittedType, RunLockInv, TypeOK, Memory, TaskRecord
<1>4. linked \in TaskRunRecord
  <2>1. impl \in 0..MaxRuns
    BY <1>3, RunLockAssumption
  <2> HIDE DEF impl
  <2> QED BY <1>3, <2>1, NoTaskType DEF TaskRunRecord
<1>5. runs = Append(OldRuns, linked) /\ m.task = OldTask
      /\ lock = LockFor(m.type, Len(OldRuns) + 1) /\ m.run_id = Len(OldRuns) + 1
      /\ OldLock = NoLock /\ Len(OldRuns) < MaxRuns
      /\ \A r \in 1..Len(OldRuns) : OldRuns[r].status # "running"
  <2>1. [[NoRun EXCEPT !.run_type = m.type] EXCEPT !.based_on_implementation_run = impl] = linked
    BY DEF NoRun
  <2> QED BY <1>1, <1>2, <1>3, <2>1, RunLockAssumption DEF StartProgress
<1>6. committed'[1] = task' /\ committed'[2] = runs /\ committed'[3] = lock
      /\ committed[1] = OldTask /\ committed[2] = OldRuns /\ committed[3] = OldLock
  BY <1>1, <1>3 DEF files
<1>7. LifecycleRuns(committed'[2]) = Append(LifecycleRuns(committed[2]), LifecycleRun(linked))
  BY <1>3, <1>4, <1>5, <1>6, LifecycleRunsAppend
<1>8. Lifecycle!start_run(m.type, impl)
  <2>1. Lifecycle!CanStartRun
    BY <1>3, <1>5, <1>6, LifecycleQueries DEF Lifecycle!CanStartRun, Lifecycle!NoLock, NoLock
  <2>2. lock = Lifecycle!LockFor(m.type, Len(LifecycleRuns(committed[2])) + 1)
    BY <1>5, <1>6, LifecycleQueries DEF Lifecycle!LockFor, LockFor
  <2> QED BY <1>6, <1>7, <2>1, <2>2, LifecycleNewRun DEF Lifecycle!start_run
<1>9. Len(LifecycleRuns(committed[2])) = Len(OldRuns)
  BY <1>6, LifecycleQueries
<1>10. Len(OldRuns) + 1 \in 0..MaxRuns
  BY <1>3, <1>5, RunLockAssumption
<1>11. CASE m.type = "implementation"
  <2>1. LifecycleTask(committed'[1]) = Implementing(LifecycleTask(committed[1]), Len(OldRuns) + 1)
    <3>1. task' = Implementing(OldTask, Len(OldRuns) + 1)
      BY <1>1, <1>5, <1>11 DEF Implementing
    <3> QED BY <1>3, <1>6, <1>10, <3>1, LifecycleTaskImplementing
  <2>2. LifecycleTask(committed[1]).status_stage \in Lifecycle!IMPLEMENTABLE_TASK_STAGES
    BY <1>2, <1>6, <1>11 DEF StartProgress, LifecycleTask, Lifecycle!IMPLEMENTABLE_TASK_STAGES,
                             IMPLEMENTABLE_TASK_STAGES
  <2>3. Lifecycle!start_run("implementation", 0) /\ ~LifecycleTask(committed[1]).archived
    BY <1>8, <1>11 DEF LifecycleTask
  <2>4. Lifecycle!BeginImplementation
    BY <1>9, <2>1, <2>3, LifecycleQueries DEF Lifecycle!BeginImplementation, Implementing
  <2> QED BY <2>2, <2>4
          DEF Lifecycle!Next, Lifecycle!ImplementationCommand, Lifecycle!start_implementation
<1>12. CASE m.type = "validation"
  <2>1. LifecycleTask(committed'[1]) =
           [LifecycleTask(committed[1]) EXCEPT !.latest_validation_run = Len(OldRuns) + 1]
    <3>1. task' = [OldTask EXCEPT !.latest_validation_run = Len(OldRuns) + 1]
      BY <1>1, <1>5, <1>12
    <3>2. LifecycleTask([OldTask EXCEPT !.latest_validation_run = Len(OldRuns) + 1]) =
             [LifecycleTask(OldTask) EXCEPT !.latest_validation_run = Len(OldRuns) + 1]
      BY <1>3, LifecycleTaskUpdate, Zenon
    <3> QED BY <1>6, <3>1, <3>2
  <2>2. /\ OldTask.status_stage = "implemented"
        /\ OldRunIs(OldTask.latest_implementation_run, "implementation", "finished")
    BY <1>2, <1>12 DEF StartProgress
  <2>3. Lifecycle!RunIs(OldTask.latest_implementation_run, "implementation", {"finished"})
    BY <1>3, <2>2, LifecycleQueries DEF OldRunIs
  <2>4. /\ ~LifecycleTask(committed[1]).archived
        /\ LifecycleTask(committed[1]).status_stage = "implemented"
        /\ LifecycleTask(committed[1]).latest_implementation_run = OldTask.latest_implementation_run
    BY <1>6, <2>2 DEF LifecycleTask
  <2>5. Lifecycle!start_validation
    BY <1>8, <1>9, <1>12, <2>1, <2>3, <2>4 DEF Lifecycle!start_validation
  <2> QED BY <2>5 DEF Lifecycle!Next, Lifecycle!ValidationCommand
<1> QED BY <1>3, <1>11, <1>12 DEF WorkTypes

\* The last write of a resume.
LEMMA ResumeRefines ==
    ASSUME SerialInv, NEW p \in Procs, mem[p].command = "resume", record_run(p), committed' = files'
    PROVE  Lifecycle!Next
<1> DEFINE m == mem[p]
<1>1. /\ pc[p] = "record" /\ UNCHANGED <<runs, lock>>
      /\ ResumeProgress(p)
  BY DEF record_run, SerialInv, Progress
<1>2. /\ task' = [OldTask EXCEPT !.latest_implementation_run = m.run_id,
                                 !.status_stage = "implementing"]
      /\ runs = OldRuns /\ lock = LockFor("implementation", m.run_id)
      /\ OldTask.status_stage \in {"approved", "implementing"}
      /\ OldRunIs(m.run_id, "implementation", "running")
      /\ \/ OldLock = NoLock
         \/ OldLock.expired /\ OldLock.run_id = m.run_id /\ OldLock.run_type = "implementation"
  BY <1>1 DEF record_run, ResumeProgress
<1>3. /\ OldTask \in TaskRecord /\ committed = <<OldTask, OldRuns, OldLock>>
      /\ m.run_id \in Nat /\ m.run_id \in 1..Len(OldRuns) /\ m.run_id \in 0..MaxRuns
  BY <1>2 DEF SerialInv, CommittedType, OldRunIs, RunLockInv, TypeOK, Memory
<1>4. committed'[1] = task' /\ committed'[2] = OldRuns /\ committed'[3] = lock
      /\ committed[1] = OldTask /\ committed[2] = OldRuns /\ committed[3] = OldLock
  BY <1>1, <1>2, <1>3 DEF files
<1>5. LifecycleTask(committed'[1]) = Implementing(LifecycleTask(committed[1]), m.run_id)
  <2>1. task' = Implementing(OldTask, m.run_id)
    BY <1>2 DEF Implementing
  <2> QED BY <1>3, <1>4, <2>1, LifecycleTaskImplementing
<1>6. ~LifecycleTask(committed[1]).archived
      /\ LifecycleTask(committed[1]).status_stage \in {"approved", "implementing"}
  BY <1>2, <1>4 DEF LifecycleTask
<1>7. Lifecycle!RunIs(m.run_id, "implementation", {"running"}) /\ m.run_id \in Lifecycle!RunIds
  BY <1>2, <1>3, LifecycleQueries DEF OldRunIs
<1>8. Lifecycle!resume_implementation(m.run_id, TRUE)
  BY <1>2, <1>4, <1>5, <1>6, <1>7, LifecycleQueries
     DEF Implementing, Lifecycle!resume_implementation, Lifecycle!NoLock, NoLock, Lifecycle!LockFor, LockFor
<1> QED BY <1>7, <1>8 DEF Lifecycle!Next, Lifecycle!ImplementationCommand

\* validate check.
LEMMA CheckRefines ==
    ASSUME SerialInv, NEW p \in Procs, save_check(p), committed' = files'
    PROVE  Lifecycle!Next
<1> DEFINE m == mem[p]
           r == OldTask.latest_validation_run
           run == [OldRuns[r] EXCEPT !.satisfied = TRUE]
<1>1. CheckProgress(p) /\ UNCHANGED <<task, lock>> /\ save_run(m.run_id, [m.run EXCEPT !.satisfied = TRUE])
  BY WhichCommand DEF save_check
<1>2. /\ committed = <<task, runs, lock>> /\ OldRuns = runs /\ OldLock = lock /\ OldTask = task
      /\ m.run_id = r /\ m.run = OldRuns[r] /\ OldRunIs(r, "validation", "running")
      /\ validation_check_decision(OldTask.status_stage, OldLock, r, OldRuns[r])
      /\ ~OldLock.expired
  BY <1>1 DEF CheckProgress, files, OldRuns, OldLock, OldTask
<1>3. OldRuns \in Seq(TaskRunRecord) /\ r \in 1..Len(OldRuns) /\ r \in Nat
      /\ OldRuns[r] \in TaskRunRecord
  BY <1>2 DEF SerialInv, CommittedType, OldRunIs
<1>4. run \in TaskRunRecord
  BY <1>3 DEF TaskRunRecord
<1>5. runs' = [OldRuns EXCEPT ![r] = run]
  BY <1>1, <1>2, <1>3 DEF save_run, RunIds
<1>6. /\ committed'[1] = OldTask /\ committed'[2] = [OldRuns EXCEPT ![r] = run]
      /\ committed'[3] = OldLock
      /\ committed[1] = OldTask /\ committed[2] = OldRuns /\ committed[3] = OldLock
  BY <1>1, <1>2, <1>5 DEF files
<1>7. LifecycleRuns(committed'[2]) = [LifecycleRuns(committed[2]) EXCEPT ![r].satisfied = TRUE]
  <2>1. LifecycleRuns([OldRuns EXCEPT ![r] = run]) =
           [LifecycleRuns(OldRuns) EXCEPT ![r] = LifecycleRun(run)]
    BY <1>3, <1>4, LifecycleRunsExcept
  <2>2. LifecycleRun(run) = [LifecycleRuns(OldRuns)[r] EXCEPT !.satisfied = TRUE]
    <3>1. LifecycleRuns(OldRuns)[r] = LifecycleRun(OldRuns[r])
      BY <1>3, LifecycleRunsSeq
    <3>2. LifecycleRun([OldRuns[r] EXCEPT !.satisfied = TRUE]) =
             [LifecycleRun(OldRuns[r]) EXCEPT !.satisfied = TRUE]
      BY <1>3, LifecycleRunUpdate, Zenon
    <3> QED BY <3>1, <3>2, Zenon
  <2> QED BY <1>6, <2>1, <2>2
<1>8. /\ LifecycleTask(committed[1]).latest_validation_run = r
      /\ ~LifecycleTask(committed[1]).archived
      /\ LifecycleTask(committed[1]).status_stage = OldTask.status_stage
      /\ LifecycleTask(committed[1]).accepted_plan_version = 1
  BY <1>6 DEF LifecycleTask
<1>9. Lifecycle!RunIs(r, "validation", {"running"})
  BY <1>2, <1>3, LifecycleQueries DEF OldRunIs
<1>10. Lifecycle!validation_check_decision(OldTask.status_stage, OldLock, r, LifecycleRuns(OldRuns)[r])
  BY <1>2, <1>3, LifecycleQueries
     DEF validation_check_decision, derive_active_stage,
         Lifecycle!validation_check_decision, Lifecycle!derive_active_stage
<1>11. 1 \in Lifecycle!Versions
  BY DEF Lifecycle!Versions
<1>12. Lifecycle!add_validation_check(TRUE)
  BY <1>2, <1>6, <1>7, <1>8, <1>9, <1>10, <1>11 DEF Lifecycle!add_validation_check
<1> QED BY <1>12 DEF Lifecycle!Next, Lifecycle!ValidationCommand

\* The end of a finish, with or without the run's lock.
LEMMA FinishRefines ==
    ASSUME SerialInv, NEW p \in Procs, committed' = files', pc'[p] = "idle",
           release_read(p) \/ release_save_task(p)
    PROVE  Lifecycle!Next
<1> DEFINE m == mem[p]
           r == m.run_id
           run == [OldRuns[r] EXCEPT !.status = m.status]
           stage == StageAfter(m.type, m.status)
<1>1. FinishProgress(p) /\ pc \in [Procs -> Steps]
      /\ m.type \in WorkTypes /\ m.status \in RunStatuses
  BY WhichCommand DEF release_read, release_save_task, SerialInv, RunLockInv, TypeOK, Memory
<1>2. /\ m.task = OldTask /\ m.status \in {"finished", "failed"}
      /\ r = latest_run(OldTask, m.type) /\ OldRunIs(r, m.type, "running")
      /\ m.run = OldRuns[r]
      /\ m.type = "implementation" => m.status = "finished"
      /\ m.type = "validation" /\ m.status = "finished" =>
            /\ m.run.satisfied
            /\ OldTask.latest_implementation_run \in 1..Len(OldRuns)
            /\ OldRuns[OldTask.latest_implementation_run].status = "finished"
  BY <1>1 DEF FinishProgress
<1>3. /\ OldTask \in TaskRecord /\ OldRuns \in Seq(TaskRunRecord)
      /\ committed = <<OldTask, OldRuns, OldLock>>
      /\ r \in 1..Len(OldRuns) /\ r \in Nat /\ OldRuns[r] \in TaskRunRecord
  BY <1>2 DEF SerialInv, CommittedType, OldRunIs
<1>4. /\ runs' = [OldRuns EXCEPT ![r] = run]
      /\ task' = [OldTask EXCEPT !.status_stage = stage]
      /\ lock' = IF OldLock.run_type = m.type /\ OldLock.run_id = r THEN NoLock ELSE OldLock
  <2>1. CASE release_read(p)
    <3>1. /\ pc[p] = "release" /\ UNCHANGED <<task, runs, lock>>
          /\ ~(lock.run_type = m.type /\ lock.run_id = r)
      BY <1>1, <2>1 DEF release_read, Goto, files
    <3> QED BY <1>1, <1>2, <3>1 DEF FinishProgress, FinishedTask
  <2>2. CASE release_save_task(p)
    <3>1. pc[p] = "finish_save" /\ UNCHANGED <<runs, lock>> /\ task' = FinishedTask(p)
      BY <2>2 DEF release_save_task
    <3> QED BY <1>1, <1>2, <3>1 DEF FinishProgress, FinishedTask
  <2> QED BY <2>1, <2>2
<1>5. run \in TaskRunRecord
  BY <1>1, <1>3 DEF TaskRunRecord
<1>6. /\ committed'[1] = task' /\ committed'[2] = runs' /\ committed'[3] = lock'
      /\ committed[1] = OldTask /\ committed[2] = OldRuns /\ committed[3] = OldLock
  BY <1>3 DEF files
<1>7. LifecycleRuns(committed'[2]) =
         [LifecycleRuns(committed[2]) EXCEPT ![r] = Lifecycle!WithStatus(@, m.status)]
  <2>1. LifecycleRuns([OldRuns EXCEPT ![r] = run]) =
           [LifecycleRuns(OldRuns) EXCEPT ![r] = LifecycleRun(run)]
    BY <1>3, <1>5, LifecycleRunsExcept
  <2>2. LifecycleRun(run) = [LifecycleRun(OldRuns[r]) EXCEPT !.status = m.status]
    BY <1>3, LifecycleRunUpdate, Zenon
  <2>3. LifecycleRuns(OldRuns)[r] = LifecycleRun(OldRuns[r])
    BY <1>3, LifecycleRunsSeq
  <2> HIDE DEF run
  <2> QED BY <1>4, <1>6, <2>1, <2>2, <2>3 DEF Lifecycle!WithStatus
<1>8. LifecycleTask(committed'[1]) = [LifecycleTask(committed[1]) EXCEPT !.status_stage = stage]
  <2> HIDE DEF stage
  <2>1. LifecycleTask([OldTask EXCEPT !.status_stage = stage]) =
           [LifecycleTask(OldTask) EXCEPT !.status_stage = stage]
    BY <1>3, LifecycleTaskUpdate, Zenon
  <2> QED BY <1>4, <1>6, <2>1
<1>9. /\ LifecycleTask(committed[1]).latest_implementation_run = OldTask.latest_implementation_run
      /\ LifecycleTask(committed[1]).latest_validation_run = OldTask.latest_validation_run
      /\ ~LifecycleTask(committed[1]).archived
  BY <1>6 DEF LifecycleTask
<1>10. Lifecycle!RunIs(r, m.type, {"running"})
  BY <1>2, <1>3, LifecycleQueries DEF OldRunIs
<1>11. Lifecycle!release_lock(m.type, r) /\ Lifecycle!todos_complete
  BY <1>4, <1>6 DEF Lifecycle!release_lock, Lifecycle!NoLock, NoLock, Lifecycle!todos_complete
<1> HIDE DEF run
<1>12. CASE m.type = "implementation"
  <2>1. r = OldTask.latest_implementation_run /\ m.status = "finished" /\ stage = "implemented"
    BY <1>2, <1>12 DEF latest_run, StageAfter
  <2>2. Lifecycle!finish_implementation
    BY <1>7, <1>8, <1>9, <1>10, <1>11, <1>12, <2>1 DEF Lifecycle!finish_implementation
  <2> QED BY <2>2 DEF Lifecycle!Next, Lifecycle!ImplementationCommand
<1>13. CASE m.type = "validation"
  <2>1. /\ r = OldTask.latest_validation_run
        /\ stage = IF m.status = "finished" THEN "done" ELSE "failed_validation"
    BY <1>2, <1>13 DEF latest_run, StageAfter
  <2>2. m.status = "finished" => Lifecycle!can_finish_passed(r)
    <3> SUFFICES ASSUME m.status = "finished" PROVE Lifecycle!can_finish_passed(r)
      OBVIOUS
    <3>1. /\ OldRuns[r].satisfied
          /\ OldTask.latest_implementation_run \in 1..Len(OldRuns)
          /\ OldRuns[OldTask.latest_implementation_run].status = "finished"
      BY <1>2, <1>13
    <3> QED BY <1>3, <1>6, <1>9, <1>11, <3>1, LifecycleQueries DEF Lifecycle!can_finish_passed
  <2>3. Lifecycle!finish_validation(m.status)
    BY <1>7, <1>8, <1>9, <1>10, <1>11, <1>13, <2>1, <2>2 DEF Lifecycle!finish_validation
  <2> QED BY <1>2, <2>3 DEF Lifecycle!Next, Lifecycle!ValidationCommand
<1> QED BY <1>1, <1>12, <1>13 DEF WorkTypes

\* Whatever step the system takes, the committed files stay, a process dies,
\* or they take the step TaskLifecycle has for the command that ended.
LEMMA StepRefines ==
    ASSUME SerialInv, [SerialNext]_serialVars
    PROVE  [(\E p \in Procs : Crash(p) /\ ~Step(p)) \/ Lifecycle!Next]_committed
<1>1. CASE UNCHANGED serialVars
  BY <1>1 DEF serialVars
<1>2. CASE SerialNext
  <2>1. committed' = IF AllIdle' THEN files' ELSE committed
    BY <1>2 DEF SerialNext
  <2>2. CASE AllIdle /\ LockExpires
    <3>1. committed = files /\ AllIdle'
      BY <2>2 DEF SerialInv, LockExpires, AllIdle
    <3> QED BY <2>1, <2>2, <3>1, LockStepRefines DEF LockExpires
  <2>3. ASSUME NEW p \in Procs, Issue(p)
        PROVE  committed' = committed
    <3>1. pc'[p] # "idle"
      BY <2>3 DEF Issue, start, resume, check, finish, break_read, Begin, Goto, SerialInv,
                  RunLockInv, TypeOK
    <3> QED BY <2>1, <3>1 DEF AllIdle
  <2>4. ASSUME NEW p \in Procs, Step(p), committed' # committed
        PROVE  Lifecycle!Next
    <3>1. pc'[p] = "idle" /\ committed' = files'
      BY <2>1, <2>4 DEF AllIdle
    <3>2. pc \in [Procs -> Steps]
      BY DEF SerialInv, RunLockInv, TypeOK
    <3>3. \/ start_check(p) \/ acquire_read(p) \/ acquire_create(p) \/ record_run(p)
          \/ resume_check(p) \/ save_check(p) \/ release_read(p) \/ release_save_task(p)
          \/ break_unlink(p)
      BY <2>4, <3>1, <3>2 DEF Step, start_save_run, link_implementation, reread_task,
         release_expired_lock, finish_run, finish_save_task, release_unlink, Goto
    <3>4. CASE start_check(p) \/ resume_check(p)
      <4>1. UNCHANGED files
        BY <3>4 DEF start_check, resume_check
      <4>2. committed = files
        <5>1. committed = <<OldTask, OldRuns, OldLock>>
          BY DEF SerialInv, CommittedType
        <5> QED BY <3>4, <5>1, WhichCommand
                DEF start_check, resume_check, StartProgress, ResumeProgress, files
      <4> QED BY <2>4, <3>1, <4>1, <4>2
    <3>5. CASE acquire_read(p) \/ acquire_create(p)
      <4>1. lock = NoLock
        BY <3>5, WhichCommand DEF acquire_read, acquire_create, StartProgress, ResumeProgress
      <4> QED BY <3>1, <3>2, <3>5, <4>1 DEF acquire_read, acquire_create, AfterLock, Goto
    <3>6. CASE record_run(p)
      BY <3>1, <3>6, WhichCommand, StartRefines, ResumeRefines DEF record_run
    <3>7. CASE save_check(p)
      BY <3>1, <3>7, CheckRefines
    <3>8. CASE release_read(p) \/ release_save_task(p)
      BY <3>1, <3>8, FinishRefines
    <3>9. CASE break_unlink(p)
      <4>1. committed = files /\ lock # NoLock
        BY <3>9, WhichCommand DEF break_unlink, BreakProgress
      <4> QED BY <3>1, <3>9, <4>1, LockStepRefines DEF break_unlink
    <3> QED BY <3>3, <3>4, <3>5, <3>6, <3>7, <3>8, <3>9
  <2> QED BY <1>2, <2>2, <2>3, <2>4 DEF SerialNext
<1> QED BY <1>1, <1>2

-----------------------------------------------------------------------------
(* Theorems *)

\* Wherever commands die, there is at most one running run, and a lock file
\* is for that run or for one whose finish was cut short: _start_run refuses
\* while a lock or a running run is there, and finish ends the run first.
THEOREM OneRunTheorem == SerialSpec => []OneRunUnderCrashes
<1>1. SerialInv => OneRunUnderCrashes
  BY DEF SerialInv
<1> QED BY <1>1, SerialInvHolds, PTL

\* Wherever commands die, an "implemented", "done" or "failed_validation"
\* task has the ended run that the stage rests on.
THEOREM EvidenceTheorem == SerialSpec => []EvidenceBeforeStage
<1>1. SerialInv => EvidenceBeforeStage
  BY DEF SerialInv
<1> QED BY <1>1, SerialInvHolds, PTL

\* The refinement: a command nobody cuts short does to the files, from its
\* first read to its last write, what its one TaskLifecycle action does, even
\* when it begins on the files a dead process left behind.
THEOREM AtomicityTheorem == SerialSpec => CommandsAreAtomic
<1>1. SerialInv /\ [SerialNext]_serialVars
         => [(\E p \in Procs : Crash(p) /\ ~Step(p)) \/ Lifecycle!Next]_committed
  BY StepRefines
<1> QED BY <1>1, SerialInvHolds, PTL DEF SerialSpec, CommandsAreAtomic
=============================================================================
