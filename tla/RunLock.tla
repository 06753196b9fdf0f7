------------------------------- MODULE RunLock -------------------------------
(***************************************************************************)
(* The commands that start, resume, check and finish the implementation    *)
(* and validation runs of one task, and lock break, at the granularity of  *)
(* their file operations.  Each command is a process of its own; the files *)
(* are all they share.  A record is read or replaced as a whole            *)
(* (atomic_write_text); only lock.yaml is created exclusively              *)
(* (atomic_create_text).  A process may die between two file operations.   *)
(*                                                                         *)
(* The task has an accepted plan throughout.  pc[p] names the next file    *)
(* operation of process p, mem[p] what it has read and not yet dropped.    *)
(* The reads a command makes before its first write with nothing in        *)
(* between are one step.                                                   *)
(***************************************************************************)
EXTENDS Domain, Sequences, FiniteSets

CONSTANTS
    Procs,      \* processes, one command each at a time
    MaxRuns     \* bound: runs per task

ASSUME RunLockAssumption == MaxRuns \in Nat

VARIABLES
    task,       \* task.md
    runs,       \* runs/run-*.md, by id
    lock,       \* lock.yaml
    pc, mem

files == <<task, runs, lock>>
vars == <<task, runs, lock, pc, mem>>

WorkTypes == {"implementation", "validation"}

TaskRecord ==
    [status_stage: {"approved", "implementing", "implemented", "failed_validation", "done"},
     latest_implementation_run: 0..MaxRuns,
     latest_validation_run: 0..MaxRuns]

TaskRunRecord ==
    [run_type: WorkTypes,
     status: RunStatuses,
     based_on_implementation_run: 0..MaxRuns,
     satisfied: BOOLEAN]

Steps == {"idle", "check", "save_run", "acquire", "create", "link", "reread", "record",
          "resume", "expire", "save_check", "finish_run", "finish_task", "release",
          "unlink", "finish_save", "break"}

Commands == {"none", "start", "resume", "check", "finish", "break"}

\* What a process holds: its command, the run type it is about, the status a
\* finish gives the run, its copy of the task record, the run's id and its
\* copy of the run record.
NoRun == [run_type |-> "implementation", status |-> "running",
          based_on_implementation_run |-> 0, satisfied |-> FALSE]

Blank(t) == [command |-> "none", type |-> "implementation", status |-> "finished",
             task |-> t, run_id |-> 0, run |-> NoRun]

NoTask == [status_stage |-> "approved", latest_implementation_run |-> 0,
           latest_validation_run |-> 0]

Nothing == Blank(NoTask)

Memory == [command: Commands, type: WorkTypes, status: RunStatuses,
           task: TaskRecord, run_id: 0..MaxRuns, run: TaskRunRecord]

\* Every file holds a record its writers build, every process a step it has.
TypeOK ==
    /\ task \in TaskRecord
    /\ runs \in Seq(TaskRunRecord) /\ Len(runs) <= MaxRuns
    /\ lock \in [run_type: WorkTypes, run_id: 1..MaxRuns, expired: BOOLEAN] \cup {NoLock}
    /\ pc \in [Procs -> Steps]
    /\ mem \in [Procs -> Memory]

Init ==
    /\ task = NoTask
    /\ runs = <<>>
    /\ lock = NoLock
    /\ pc = [p \in Procs |-> "idle"]
    /\ mem = [p \in Procs |-> Nothing]

-----------------------------------------------------------------------------

RunIds == 1..Len(runs)

running_runs == {r \in RunIds : runs[r].status = "running"}

RunIs(r, type, statuses) ==
    r \in RunIds /\ runs[r].run_type = type /\ runs[r].status \in statuses

latest_run(t, type) == IF type = "implementation" THEN t.latest_implementation_run
                       ELSE t.latest_validation_run

\* save_run: the record replaces whatever the file held.
save_run(r, run) == runs' = IF r \in RunIds THEN [runs EXCEPT ![r] = run]
                            ELSE Append(runs, run)

Goto(p, step) == pc' = [pc EXCEPT ![p] = step]

\* The command is over, by returning or by raising.
Leave(p) == Goto(p, "idle") /\ mem' = [mem EXCEPT ![p] = Nothing]

Begin(p, step, m) == pc[p] = "idle" /\ Goto(p, step) /\ mem' = [mem EXCEPT ![p] = m]

-----------------------------------------------------------------------------
(* implement start and validate start *)

start(p, type) ==
    /\ IF type = "implementation" THEN task.status_stage \in IMPLEMENTABLE_TASK_STAGES
       ELSE /\ task.status_stage = "implemented"
            /\ RunIs(task.latest_implementation_run, "implementation", {"finished"})
    /\ Begin(p, "check", [Blank(task) EXCEPT
          !.command = "start", !.type = type,
          !.run = [NoRun EXCEPT !.run_type = type]])
    /\ UNCHANGED files

\* Fault: running runs are not looked for.
start_check_AnyRun(p) ==
    /\ pc[p] = "check"
    /\ IF lock = NoLock /\ Len(runs) < MaxRuns
       THEN Goto(p, "save_run") /\ mem' = [mem EXCEPT ![p].run_id = Len(runs) + 1]
       ELSE Leave(p)
    /\ UNCHANGED files

\* Fault: the lock comes first and the run is not saved before it.
start_check_LockFirst(p) ==
    /\ pc[p] = "check"
    /\ IF lock = NoLock /\ running_runs = {} /\ Len(runs) < MaxRuns
       THEN Goto(p, "acquire") /\ mem' = [mem EXCEPT ![p].run_id = Len(runs) + 1]
       ELSE Leave(p)
    /\ UNCHANGED files

\* No lock, no running run: take the next run id.
start_check(p) ==
    /\ pc[p] = "check"
    /\ IF lock = NoLock /\ running_runs = {} /\ Len(runs) < MaxRuns
       THEN Goto(p, "save_run") /\ mem' = [mem EXCEPT ![p].run_id = Len(runs) + 1]
       ELSE Leave(p)
    /\ UNCHANGED files

start_save_run(p) ==
    /\ pc[p] = "save_run"
    /\ save_run(mem[p].run_id, mem[p].run)
    /\ Goto(p, "acquire")
    /\ UNCHANGED <<task, lock, mem>>

AfterLock(p) == IF mem[p].command = "resume" THEN "record"
                ELSE IF mem[p].type = "validation" THEN "link" ELSE "reread"

\* Fault: a lock in the way is waited for.
acquire_read_Waits(p) ==
    /\ pc[p] = "acquire"
    /\ lock = NoLock
    /\ Goto(p, "create")
    /\ UNCHANGED <<files, mem>>

\* _acquire_lock reads the lock: none, the same run's (taken as success), or
\* another's (the command fails, its running run stays behind).
acquire_read(p) ==
    /\ pc[p] = "acquire"
    /\ \/ lock = NoLock /\ Goto(p, "create") /\ UNCHANGED mem
       \/ /\ lock # NoLock /\ ~lock.expired /\ lock.run_id = mem[p].run_id
          /\ Goto(p, AfterLock(p)) /\ UNCHANGED mem
       \/ /\ lock # NoLock /\ (lock.expired \/ lock.run_id # mem[p].run_id)
          /\ Leave(p)
    /\ UNCHANGED files

\* Fault: the lock file is replaced like any other record.
acquire_create_Replaces(p) ==
    /\ pc[p] = "create"
    /\ lock' = LockFor(mem[p].type, mem[p].run_id)
    /\ Goto(p, AfterLock(p))
    /\ UNCHANGED <<task, runs, mem>>

\* write_lock creates the file exclusively.
acquire_create(p) ==
    /\ pc[p] = "create"
    /\ IF lock = NoLock
       THEN /\ lock' = LockFor(mem[p].type, mem[p].run_id)
            /\ Goto(p, AfterLock(p)) /\ UNCHANGED mem
       ELSE Leave(p) /\ UNCHANGED lock
    /\ UNCHANGED <<task, runs>>

\* validate start saves its run a second time, linked to the implementation
\* run its first look at the task showed.
link_implementation(p) ==
    /\ pc[p] = "link"
    /\ save_run(mem[p].run_id, [mem[p].run EXCEPT
          !.based_on_implementation_run = mem[p].task.latest_implementation_run])
    /\ Goto(p, "reread")
    /\ UNCHANGED <<task, lock, mem>>

reread_task(p) ==
    /\ pc[p] = "reread"
    /\ mem' = [mem EXCEPT ![p].task = task]
    /\ Goto(p, "record")
    /\ UNCHANGED files

\* Fault: both kinds of run store their active stage.
record_run_StoresStage(p) ==
    /\ pc[p] = "record"
    /\ task' = IF mem[p].type = "implementation"
               THEN [mem[p].task EXCEPT !.latest_implementation_run = mem[p].run_id,
                                        !.status_stage = "implementing"]
               ELSE [mem[p].task EXCEPT !.latest_validation_run = mem[p].run_id,
                                        !.status_stage = "validating"]
    /\ Leave(p)
    /\ UNCHANGED <<runs, lock>>

\* Saves the copy of the task with the run recorded in it; resume uses the
\* copy it read at its beginning.
record_run(p) ==
    /\ pc[p] = "record"
    /\ task' = IF mem[p].type = "implementation"
               THEN [mem[p].task EXCEPT !.latest_implementation_run = mem[p].run_id,
                                        !.status_stage = "implementing"]
               ELSE [mem[p].task EXCEPT !.latest_validation_run = mem[p].run_id]
    /\ Leave(p)
    /\ UNCHANGED <<runs, lock>>

-----------------------------------------------------------------------------
(* implement resume *)

resume(p, r) ==
    /\ task.status_stage \in {"approved", "implementing"}
    /\ RunIs(r, "implementation", {"running"})
    /\ Begin(p, "resume", [Blank(task) EXCEPT !.command = "resume", !.run_id = r])
    /\ UNCHANGED files

\* The run's own expired lock may be taken over (--repair-expired-lock).
resume_check(p) ==
    /\ pc[p] = "resume"
    /\ \/ lock = NoLock /\ Goto(p, "acquire") /\ UNCHANGED mem
       \/ /\ lock.expired /\ lock.run_id = mem[p].run_id
          /\ lock.run_type = "implementation"
          /\ Goto(p, "expire") /\ UNCHANGED mem
       \/ lock # NoLock /\ Leave(p)
    /\ UNCHANGED files

release_expired_lock(p) ==
    /\ pc[p] = "expire"
    /\ lock' = NoLock
    /\ Goto(p, "acquire")
    /\ UNCHANGED <<task, runs, mem>>

-----------------------------------------------------------------------------
(* validate check *)

check(p) ==
    LET r == task.latest_validation_run IN
    /\ RunIs(r, "validation", {"running"})
    /\ validation_check_decision(task.status_stage, lock, r, runs[r]) /\ ~lock.expired
    /\ Begin(p, "save_check", [Blank(task) EXCEPT
          !.command = "check", !.type = "validation", !.run_id = r, !.run = runs[r]])
    /\ UNCHANGED files

save_check(p) ==
    /\ pc[p] = "save_check"
    /\ save_run(mem[p].run_id, [mem[p].run EXCEPT !.satisfied = TRUE])
    /\ Leave(p)
    /\ UNCHANGED <<task, lock>>

-----------------------------------------------------------------------------
(* implement finish and validate finish *)

\* Fault: the task is saved and the run is not.
finish_TaskOnly(p, type, status) ==
    LET r == latest_run(task, type) IN
    /\ RunIs(r, type, {"running"})
    /\ type = "implementation" => status = "finished"
    /\ Begin(p, "finish_task", [Blank(task) EXCEPT
          !.command = "finish", !.type = type, !.status = status, !.run_id = r])
    /\ UNCHANGED files

finish(p, type, status) ==
    LET r == latest_run(task, type) IN
    /\ RunIs(r, type, {"running"})
    /\ type = "implementation" => status = "finished"
    /\ type = "validation" /\ status = "finished" =>
          /\ runs[r].satisfied
          /\ task.latest_implementation_run \in RunIds
          /\ runs[task.latest_implementation_run].status = "finished"
    /\ Begin(p, "finish_run", [Blank(task) EXCEPT
          !.command = "finish", !.type = type, !.status = status,
          !.run_id = r, !.run = runs[r]])
    /\ UNCHANGED files

\* Fault: the run is rebuilt instead of updated.
finish_run_Rebuilt(p) ==
    /\ pc[p] = "finish_run"
    /\ save_run(mem[p].run_id, [NoRun EXCEPT !.run_type = mem[p].type,
                                             !.status = mem[p].status])
    /\ Goto(p, "finish_task")
    /\ UNCHANGED <<task, lock, mem>>

finish_run(p) ==
    /\ pc[p] = "finish_run"
    /\ save_run(mem[p].run_id, [mem[p].run EXCEPT !.status = mem[p].status])
    /\ Goto(p, "finish_task")
    /\ UNCHANGED <<task, lock, mem>>

StageAfter(type, status) ==
    IF type = "implementation" THEN "implemented"
    ELSE IF status = "finished" THEN "done" ELSE "failed_validation"

FinishedTask(p) ==
    [mem[p].task EXCEPT !.status_stage = StageAfter(mem[p].type, mem[p].status)]

finish_save_task(p) ==
    /\ pc[p] = "finish_task"
    /\ task' = FinishedTask(p)
    /\ Goto(p, "release")
    /\ UNCHANGED <<runs, lock, mem>>

\* _release_lock: without the run's lock the command raises.
release_read(p) ==
    /\ pc[p] = "release"
    /\ IF lock.run_type = mem[p].type /\ lock.run_id = mem[p].run_id
       THEN Goto(p, "unlink") /\ UNCHANGED mem ELSE Leave(p)
    /\ UNCHANGED files

release_unlink(p) ==
    /\ pc[p] = "unlink"
    /\ lock' = NoLock
    /\ Goto(p, "finish_save")
    /\ UNCHANGED <<task, runs, mem>>

\* The lock is gone and the task is saved once more, from the old copy.
release_save_task(p) ==
    /\ pc[p] = "finish_save"
    /\ task' = FinishedTask(p)
    /\ Leave(p)
    /\ UNCHANGED <<runs, lock>>

-----------------------------------------------------------------------------
(* lock break, time, and death of a process *)

break_read(p) ==
    /\ lock # NoLock
    /\ Begin(p, "break", [Nothing EXCEPT !.command = "break"])
    /\ UNCHANGED files

\* Removes whatever lock is there by now.
break_unlink(p) ==
    /\ pc[p] = "break"
    /\ lock' = NoLock
    /\ Leave(p)
    /\ UNCHANGED <<task, runs>>

LockExpires ==
    /\ lock # NoLock /\ ~lock.expired
    /\ lock' = [lock EXCEPT !.expired = TRUE]
    /\ UNCHANGED <<task, runs, pc, mem>>

Crash(p) ==
    /\ pc[p] # "idle"
    /\ Leave(p)
    /\ UNCHANGED files

-----------------------------------------------------------------------------

Issue(p) ==
    \/ \E type \in WorkTypes : start(p, type)
    \/ \E r \in RunIds : resume(p, r)
    \/ check(p)
    \/ \E type \in WorkTypes, status \in {"finished", "failed"} : finish(p, type, status)
    \/ break_read(p)

Step(p) ==
    \/ start_check(p) \/ start_save_run(p) \/ acquire_read(p) \/ acquire_create(p)
    \/ link_implementation(p) \/ reread_task(p) \/ record_run(p)
    \/ resume_check(p) \/ release_expired_lock(p) \/ save_check(p)
    \/ finish_run(p) \/ finish_save_task(p) \/ release_read(p) \/ release_unlink(p)
    \/ release_save_task(p) \/ break_unlink(p)

Next == LockExpires \/ \E p \in Procs : Issue(p) \/ Step(p) \/ Crash(p)

Spec == Init /\ [][Next]_vars

\* A process that is running keeps running; nobody has to issue a command.
FairSpec == Spec /\ \A p \in Procs : WF_vars(Step(p))

-----------------------------------------------------------------------------
(* Overlapping commands *)

\* A lock file never names a run that has no record: the run is saved before
\* the lock is created, and no command deletes a run.  doctor reports
\* "references missing run" otherwise.
LockNamesSavedRun == lock # NoLock => lock.run_id \in RunIds

Lease == INSTANCE LeaseLock
            WITH Locks <- {LockFor(type, r) : type \in WorkTypes, r \in 1..MaxRuns},
                 None <- NoLock

\* However commands overlap and die, the lock file behaves as a lease: it is
\* created only where there is none and is not rewritten until it is removed.
LockIsLease == Lease!Spec

\* Every command that was begun comes to its end: no file operation waits for
\* another process, and a lock in the way makes the command fail.
CommandsEnd == \A p \in Procs : pc[p] # "idle" ~> pc[p] = "idle"

\* The lock keeps two actors from working on the same stage at once: two
\* starts that both get past _acquire_lock are for different runs.
EachStartOwnsItsRun ==
    \A p, q \in Procs :
       /\ p # q
       /\ mem[p].command = "start" /\ mem[q].command = "start"
       /\ {pc[p], pc[q]} \subseteq {"link", "reread", "record"}
       => mem[p].run_id # mem[q].run_id
=============================================================================
