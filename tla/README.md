# taskledger in TLA+

taskledger keeps the staged work of coding agents in a project directory: every
task is a directory of Markdown/YAML records, and every command of the CLI is a
short-lived process that reads some records, checks a policy, and writes some
records.  There is no server and no database.  What makes the program correct
is therefore a relation *between files* (task record, plan versions, runs, lock)
that has to survive every order of commands, overlapping processes and
processes that die half way.  These modules state that relation, check it with
TLC on small instances and prove most of it for every size with TLAPS.

    tlc -config TaskLifecycle.cfg TaskLifecycle       # any run of the table below
    tlapm TaskLifecycleProofs.tla                     # and the other modules *Proofs

All paths below are relative to `src/taskledger/`.

## 1. Inventory

### The system's parts

| part | state it keeps | operations | what has to be true of it |
|---|---|---|---|
| domain states and policies (`domain/states.py`, `domain/policies.py`) | none: stage table, run and plan statuses, policy decisions | `require_transition`, `*_decision`, `derive_active_stage` | decisions agree with the stage table and with what the services then do |
| task lifecycle (`services/task_lifecycle.py`) | `task.md`: stage, latest run ids, latest and accepted plan version | create, activate, cancel, uncancel, close, follow-up, record | the stage never claims what the records cannot show |
| planning flow (`services/planning_flow.py`, `plan_materialization.py`) | `plans/plan-v*.md`, planning runs, todos made from a plan | start, propose, upsert, amend, revise, regenerate, approve, reject | one accepted plan, the one the task names; versions never go backwards |
| planning questions (`services/tasks.py`, `next_action_payload.py`) | `questions/q-*.md`, the answer hash in a plan | add, answer, answer-many, dismiss | no approval with open required questions or from stale answers |
| implementation flow (`services/implementation_flow.py`) | implementation runs, changes, worklog | start, restart, resume, log, finish | work is on an accepted plan; the run under way can be found and ended |
| validation flow (`services/validation_flow.py`, `validation.py`) | validation runs with checks and waivers | start, check, waive, finish | done only with evidence for the current implementation and plan |
| runs and locks (`services/tasks.py`, `run_store.py`, `storage/locks.py`, `storage/atomic.py`) | `runs/run-*.md`, `lock.yaml` with a two-hour lease | `_start_run`, `_acquire_lock`, `_release_lock`, break | one run at a time; the lock is a lease on a saved run |
| repair and doctor (`services/task_repair.py`, `doctor.py`, `doctor_checks/`) | rewrites runs, todos, indexes | repair planning run, repair lock, scans | what doctor advises is accepted by the command it names |
| archive (`services/task_archive.py`) | archive mark of `task.md` | archive, unarchive | archived tasks are read-only |
| todos, requirements, file links (`services/task_collections.py`, `file_links.py`) | `todos/`, `requirements/`, `links/` | add, done, undone, remove, waive | gates see every open todo and requirement; no lost update |
| handoffs (`services/handoff*.py`, `phase5_lock_transfer.py`) | `handoffs/*.md`, the holder of the lock | create, claim, close, cancel, transfer | one claimer; lock and claimed handoff agree |
| next action (`services/navigation.py`, `next_action_model.py`, `ready_work.py`) | none | next-action, can, ready | the command recommended is accepted |
| store and indexes (`storage/task_store.py`, `indexes.py`, `events.py`) | canonical records, derived indexes, event log | save, resolve, rebuild | indexes are derivable and never believed over records |
| ledgers and identity (`storage/ledger_config.py`, `project_identity.py`, `ids.py`) | ledger ref, id counters, active task | switch, fork, adopt | ids are never given out twice |
| migrations (`storage/migrations.py`) | storage version | migrate, dry run | re-runnable after an interruption |
| exchange and git sync (`exchange.py`, `services/git_sync.py`) | archives, export state, git state | export, import, sync | import keeps identity; an import that dies leaves ids, slugs and pointers unambiguous |
| code review and releases (`services/code_review.py`, `releases.py`) | review and release records | record, tag, changelog | a release covers done tasks only |
| worker pipeline (`services/worker_pipeline.py`, `worker_context.py`) | step names in todos, handoffs and reviews | next step, contexts | the step named can be done and comes to an end; stale names are reported |
| tracking (`services/change_tracking.py`, `check_tracking.py`, `command_runner.py`) | change and check records | record, scan, run | what the run and the task refer to is on disk |
| rendering and reports (`services/plan_lint.py`, `plan_review.py`, `task_reports.py`, `dashboard.py`, `monitor.py`, `search.py`, ...) | none | read only | - |
| configuration and storage locations (`storage/project_config.py`, `ledger_config.py`, `services/storage_locations.py`) | `.taskledger.toml`, where the storage is | `config set`, ledger, directory and uuid patches, `storage move` | a patch changes the one key it is asked to; the file still loads; the storage named exists |
| agent logging (`services/agent_logging.py`, `storage/agent_logs.py`) | a log per ledger and day, payload artifacts | record a command, record a managed shell | every change is recorded, under an id of its own |
| command line and API facade (`command_inventory.py`, `cli*.py`, `api/`) | the inventory of commands | look a command line up, run it | a change is never taken for a read |

### How they interact

Commands share nothing but files.  A record is replaced as a whole
(`atomic_write_text`: temporary file, then rename); only `lock.yaml` is created
exclusively (`atomic_create_text`).  A service function reads the task, asks a
policy function of `domain/policies.py`, writes plans or runs, then the task,
then acquires or releases the lock, then appends an event and rebuilds the
indexes.  Nothing is transactional: an exception or a kill between two writes
leaves the earlier writes in place.

### What is hard

- Order: some forty commands on one task, several of which bypass the stage
  table (`plan regenerate`, `task uncancel`, `lock break`, `task unarchive
  --reopen-for-work`, the finish commands).
- Overlap: two agents issue commands in the same task; ids, stages and locks are
  read first and used later.
- Death of a process between two writes.
- Leases that run out while work goes on.
- Stale answers, stale copies of the task record, stale indexes.
- Ids that move between ledgers, checkouts and archives, each with a counter of
  its own.
- Multi-file operations with no way back: import, migration, moving the storage,
  collections that are rewritten as a whole.
- A configuration text patched by four writers with four notions of where a key
  belongs.

`PROJECT.json` lists each of these as a hazard at its line, with the property
that would show it going wrong, or the reason why none does yet.

## 2. Modules

| module | models |
|---|---|
| `Domain` | `domain/states.py`, `domain/policies.py`: stages, transition table, decisions, lock values. No state; used as guards. |
| `TaskLifecycle` | one task and every command that changes its stage, plans, questions, runs or lock; a command is one step. |
| `Advice` | what next-action, can, the lock diagnosis and doctor say of that task, whom a lock names, and an agent that does what next-action says; extends `TaskLifecycle`. |
| `Pipeline` | the worker pipeline laid over a task's life, and an agent that works through its reviews; extends `TaskLifecycle`. |
| `LeaseLock` | the abstract promise of `lock.yaml`. |
| `RunLock` | the commands that start, resume, check and finish runs, and `lock break`, opened into file operations, for several processes that overlap and die; shown to implement `LeaseLock`. |
| `RunLockSerial` | `RunLock` without overlap; shown to implement `TaskLifecycle`, but for the commands that die. |
| `Records` | the files of a task under implementation (run, changes, checks, reviews, todos, requirements, links, handoffs, lock) and their indexes, one write at a time. |
| `Ledger` | a workspace: its ledgers, task ids and slugs, active task, archive, releases, fork, switch and adopt. |
| `Exchange` | transfer archives between and within ledgers, stage by stage; extends `Ledger`. |
| `Migration` | the layout migration, file by file, killed and run again; `MCMigration` has the logs and documents its run begins with. |
| `Sync` | where a workspace keeps its storage, and the Git repository that carries it between PCs. |
| `Config` | `.taskledger.toml`: what a text means, which are refused, and its four writers. No state. |
| `CommandInventory` | the table of commands and the lookup of a command line in it. No state. |
| `AgentLog` | which commands are recorded and under which id. No state. |
| `Session` | processes that start from the configuration, patch it and log themselves; composes `Config`, `CommandInventory` and `AgentLog`; `MCSession` has the edits its run tries. |
| `TaskLifecycleProofs`, `RunLockProofs` (also about `RunLockSerial`), `MigrationProofs`, `SyncProofs`, `ExchangeProofs`, `RecordsProofs`, `AdviceProofs`, `SessionProofs` | the theorems about the modules they are named for (section 4). |

### TaskLifecycle

| variable | file | abstraction |
|---|---|---|
| `task` | `task.md` | stage, archive mark, latest run ids, plan versions; 0 for `None` |
| `plans` | `plans/plan-v*.md` | sequence by version: status and the answer snapshot behind `based_on_answer_hash` (`{}` for none) |
| `runs` | `runs/run-*.md` | sequence by id: type, status, plan version, implementation run, whether the mandatory criterion is satisfied |
| `lock` | `lock.yaml` | run type, run id, expired or not; `NoLock` without a file |
| `questions` | `questions/q-*.md` | absent, open, dismissed or the answer |
| `todos` | `todos/` | the blocking todos of the task all together: none, open, done |

Every action is the whole command under its source name.  `upsert_plan` calls
`regenerate_plan_from_answers`, `propose_plan` or start-then-propose as the code
does; `amend_plan` is start and propose in one command, so the lock it takes and
gives back does not show.  A command that raises before writing is not an
action.  The finish commands save run and task *before* `_release_lock` looks at
the lock; when it is not the run's, they raise with those writes in place, and so
does the action.

The answer hash is injective on snapshots here; in the code it is SHA-256.
`plan_propose`'s text may or may not claim generation after questions, which is a
choice in the model.  Lint, criteria counts, actor roles, the requirements gate
and the workspace-snapshot gate may let a command pass at any time: the model has
every behaviour they leave and more.  Criteria are represented by one mandatory
criterion, todos by one list.  `WithoutCriteria` are the plan versions that were
approved with `--allow-empty-criteria`: for them `validate finish` asks for no
criterion.

### Advice

The advising commands only read, so they are operators over `TaskLifecycle`'s
variables, under the names of the functions they translate: `next_action` with
one operator per branch of `next_action_for_task` and
`_inactive_status_next_action`, `can_perform`, `diagnose_lock` with
`remediation`, `doctor_errors` with `doctor_command`.  What a lock's holder is
(host, process, probe, actor) is an argument.  For `RemediationAccepted` it ranges
over all of `Holders`; for the agent it is what `resolve_cli_actor_harness`
makes of the environment a command runs in (options, variables, stored actor,
detected tool, CI) and what a later command on the same host then sees of it
(`Seen`): `LiveHolders` while the process that outlives the command is there,
`GoneHolders` after it.  That a live agent's lock never looks dead is part of
`AdviceLeadsToDone`.
`perform(action)` is the command an action names; where the named command asks
for a decision or evidence (a plan review, an answer, a check), the agent has it.
Dependencies on other tasks are absent.

`Setup` takes any lifecycle step, up to `SetupPlans` and `SetupRuns`.  At some
point the agent may set out (`SetOut`) and from then on only follows (`Follow`).
It may set out from any state that is `OnTrack`.  Each conjunct of `OnTrack`
excludes a state from which the advice really leads nowhere (dropping any one
breaks `AdviceLeadsToDone`):

| excluded | because next-action says |
|---|---|
| cancelled | nothing more to do |
| archived while approved, implemented or failed_validation | `task unarchive`, which is refused without `--reopen-for-work` |
| a planning or validation run without its lease or its holder | `repair lock`, and then `plan start` or `validate start`, which the still running run makes fail |
| implemented with an open todo | `todo done` during validation, which is refused |
| failed_validation without a failed validation | `implement restart`, which is refused (see section 5) |

### RunLock and RunLockSerial

`pc[p]` is the next file operation of process `p`, `mem[p]` what it has read.
Each step is one read or one write; reads with no write in between are together.
`Crash(p)` ends a process anywhere.  `start` follows `_start_run`,
`_acquire_lock` and the writes of the two start commands (`validate start` saves
its run twice and rereads the task); `finish` follows `save_run`, `save_task`,
`_release_lock` with its second save of an old task copy; `resume`, `check` and
`break` likewise.  The task has an accepted plan, no todos and no questions
throughout, and `lock_is_expired` is a step of the environment.

`RunLockSerial` adds `committed`, the files as of the end of the last command.
Its instance of `TaskLifecycle` sees `committed` only, so a command's steps are
one step there: this is what justifies commands as single steps in
`TaskLifecycle`, and shows that the two models agree about these commands.  A
command that dies is no such step; the next one starts from whatever it left and
is one again.

### Records

A command reads what it needs when it begins and is from then on a script: the
list of writes it has still to make, each a step of its own (`Put` for a file
that is replaced, `Record` for a new record, `Reindex` for the index section the
save brings up to date, lock creation and removal).  Commands of two sessions
interleave and may die between two writes.  Writes appear in the code's order: a
change record before the run's reference and the run before the task; `todo add`
and the others rewrite their whole collection from the copy read at the start,
and requirements lose their waivers as `task_collections.py` does it.  The
file-by-file saving of a collection is one write here: a command that is alone
changes one todo or one link and writes the others back as they are, so that
half-way the files are those of before or after; requirements can be half-way
(some waivers dropped, others not), which decides nothing but whether a start is
refused; and nothing is said of collections that overlapping commands write.  The
sections of the index that no save writes (lock, dependencies) wait for the
rebuild that some commands end with.  There is one implementation run;
`overlapped` and `stale` are history variables that say which promise the
situation allows.

### Ledger and Exchange

A task is cut down to open or done, an id to its number.  `uid` is a history
variable inside each task: it tells two tasks with the same id apart.
`allocate_ledger_task_id` takes the larger of the configuration's counter and the
directories' next number; the counter is shared by all ledgers of a workspace.
An import is `read_project_archive`, the id map under one of three policies,
optional clearing, and then four writing stages and the counter repair, each a
point where it may die or, at the active task and the releases, raise.  The clear
of `--replace` removes task directories in the order the file system lists them,
then introductions, releases and events, and the active-task file last;
`ClearCutShort` are the ledgers it can leave when it dies, a task directory that is
half removed included.  `torn` remembers the ledgers left like that, until another
`--replace` gets past its clear, and the archives made of them.  The initial archive may come
from another checkout, whose ids went their own way.  Todos, links and
requirements travel as flat lists, as in the export; the import then does with
them what the code does (finding 2).  The id map is the function that satisfies
the equations of `_build_import_task_id_map`, and what the tree shows is the
smallest set that holds the roots and the children of what it holds: loops and
recursions in the code, which the prover could not have used as such.
`interrupted` and `renumbered` are history variables: some import died, some
import gave a task another id.

### Migration

The root and the ledger of a layout-2 storage hold task directories of a few
files, an event log, introductions and releases.  `renumber`, `rewrite_task_refs`,
`merge_tree_without_overwrite` (one file per step, in directory order),
`merge_ndjson_files`, `merge_document`, the active task, the counter and the
version are separate steps; the command may die before each, fail at a file in the
way, and be issued again.  The tasks still to be moved are a set, taken in
ascending order as the sorted listing of the code does.  The code writes the
ledger's log and active-task.yaml in place, not through `atomic_write_text`: a
death there leaves a log with any part of its lines (`LogsCutShort`) or an
active-task file that cannot be parsed (`CutActive`), at which every repetition
fails.  A log that the ledger has already is merged into it and stays at the root;
the code never removes that copy.  `stale` remembers the tasks whose directory a
dead command had renamed and whose records it had not rewritten.  A task is at the
root or in the ledger; two identical copies of one are not among the initial
states.  There is one log and one file of each kind: files do not influence each
other in the merge but for the first conflict, which ends it.

### Sync

Each PC has a workspace directory and a clone.  The operations are operators on
the record of one PC that return it as they leave it together with success, since
a command that fails keeps what it changed before; `end` says where
`storage move` or `sync git init` dies.  `sync git commit` and `push` are two steps:
their checks (doctor, lock count: `git_sync_commit_checks`), and staging and
commit (`Finish`), which take the storage as it is by then.  In between the same
PC and the other one go on working; `checked` is the one command that may be
between the two, and `overtaken` remembers the commits that were pushed of a
storage that had changed meanwhile.  The commit of a push and the `git push` itself
are one step.  Git is external: a history is a sequence of
commits, push and `pull --ff-only` extend it, and a file changed on both sides
makes the pull fail.

### Config, CommandInventory, AgentLog and Session

`Config` keeps the lines of the file.  `Toml` is what a TOML reader makes of
them, `load_project_config_document` what everything that looks for the storage
needs of the file, `Startable` what it and `merge_project_config` together accept,
and each of the four writers places its line by its own rule:
`_apply_project_config_value_patch`, `_apply_ledger_patch`,
`_apply_taskledger_dir_patch`, `insert_or_append_project_uuid`.
`CommandInventory` is the table with the audience and the effect class of every
command.  In `Session` a process sets up its recorder (`start_cli_recorder`), may
read, patch and replace the file, may run a managed shell, stores its payload
under the id it expects, and appends its record when it closes - unless the file
does not load at that moment: `_close` swallows the error, and so does the model.
Whatever it
writes to the log or beside it has its id from an earlier step (`count_records`,
the code's `_next_log_id`), and the ledger it is written to is looked up again at
the write; `strayed` remembers the ledgers that got something counted in another
one, and `spoiled` that the last edit written was not `Sound`.  That is the premise
under which the file stays fit to start from: the edit was made from a file that
loads, its line had a safe place (`PlacedSafely`) and a workflow default got a value
the merge accepts (`Checked`).  Unsafe are: a ledger key that has no line in a file
with tables, a new key of `config set` in a table that is followed by an array of
tables, an inline table where there is a header of that name, and a key below an
inline table.  Processes overlap and are killed between any two steps.

### Pipeline

A pipeline is a sequence of step ids; there is one step for each way the code
treats a step.  Plans, todos, handoffs and reviews keep the name of a step while
the configuration may change.  The lifecycle commands are those of
`TaskLifecycle` that a task advances, is put away and reopened by.

## 3. Runs

| run | expects | bounds | shows |
|---|---|---|---|
| `lifecycle` | pass, 584,040 states | 1 required question with 1 answer, 2 plans of which the second has no criterion, 4 runs | the six invariants and two action properties below under every order of commands |
| `advice` | pass, 391,694 states | as `lifecycle`, but 2 plans and 3 runs before the agent sets out, 4 plans and 6 runs in all | following next-action leads to done; can, lock diagnosis and doctor agree with the commands |
| `runlock_overlap` | pass, 126,225 states | 2 processes, 2 runs | `LockNamesSavedRun`, the refinement `LockIsLease` and the liveness property `CommandsEnd` under overlap and death |
| `runlock_serial` | pass, 2,358 states | 1 process, 4 runs | `CommandsAreAtomic` (refinement), `OneRunUnderCrashes`, `EvidenceBeforeStage` |
| `runlock_race` | violation | as `runlock_overlap` | two starts take the same run id and both succeed |
| `records` | pass, 1.2 million states | 2 sessions, 4 commands, 1 death, 2 records of each kind, 2 paths, 1 other task | what one writer, several writers and deaths leave of a task's files and indexes |
| `exchange` | pass, 1,203,201 states | 2 ledgers, 2 tasks created, ids up to 4, 1 foreign task with id 2, 1 release version, 5 commands | ids, slugs and pointers through create, archive, fork, adopt and import |
| `import_sidecars` | violation | as `exchange` | an import loses todos and misplaces requirements |
| `migration` | pass, 972,674 states | 2 ids at the root and in the ledger, 3 arrangements of logs, introductions and releases, 2 deaths | the migration loses nothing and is complete when it says so |
| `sync` | pass, 304,110 states | 2 PCs, 2 edits, 4 commits, 5 commands, 1 incident | moving and synchronising the storage loses no work |
| `session` | pass, 322,970 states | 2 processes, 3 commands, a file with a pipeline and the one of `docs/sync.rst`, 6 edits, 1 second | sound edits keep the configuration loadable and say what was asked, changes are logged, records and payloads of commands that met no other are their own |
| `pipeline` | pass, 499,304 states | up to 2 of 5 steps, 1 edit of the configuration, 1 plan, 4 runs | guidance is sound and reviews end |

Properties of `lifecycle`:

- `AcceptedPlanCoherent`: task record and plan records agree on the accepted
  plan, and what is under review is proposed or rejected.
- `WorkBasedOnAcceptedPlan`: every implementation run is on a version that was
  accepted, whatever happened to it since.
- `RunLockCoherent`: one running run, the latest of its type; the lock, expired
  or not, is for that run.
- `ImplementingHasRun`: a task stored as implementing has its run running.
- `DoneWasValidated`: a done task's latest validation run passed, with its
  criterion satisfied, for the latest finished implementation run and the
  accepted plan.
- `RunHistoryImmutable`, `PlanHistoryMonotone`: ended runs are never rewritten,
  plan versions only move forward.

Properties of `advice`:

- `AdviceLeadsToDone`: from every state on track, whatever mix of abandoned,
  rejected, failed, cancelled and repaired work led there, the commands
  next-action names are accepted one after the other until the task is done.
- `CanIsExact`: `can` says yes exactly where the command is accepted, but for two
  cases.  Where a planning or validation run has lost its lock, `can` may say yes to
  a start that is refused.  And `implement resume --repair-expired-lock` is also
  accepted where there is no lock to repair, a plain resume: there
  `can expired-lock-resume` says no while the command is accepted
  (`services/navigation.py:1161`).
- `RemediationAccepted`: the first command the lock diagnosis recommends is
  accepted, for every kind of holder.
- `DoctorReportsOnlyOrphans`: complete commands in any order give doctor nothing
  to report but a running run without a lock and a stored `implementing`.
- `DoctorAdviceAccepted`: the command doctor proposes for an orphaned run is
  accepted, except in failed_validation (see section 5).

Properties of `records`:

- `RefsResolve`: whatever overlaps and wherever a command dies, the change and
  check records that the run and the task refer to are on disk; a handoff's todo
  too, without overlap.
- `IndexFresh`: with one writer, the indexes agree with the records whenever no
  command runs, unless one died since the last rebuild.
- `NothingLostAlone`: with one writer, no write loses a todo, its evidence, a
  reference, a baseline or an unrelated link.  The premise is the one
  `docs/sync.rst:119` states ("Keep one active writer per project"); with two
  writers `save_todos` and the others do lose updates.

Properties of `exchange`:

- `IdsNeverReused`: an id once given in a ledger never comes to mean another
  task, except through `import --replace`.
- `NewTasksAreFresh`: a created task gets a number above all others and an empty
  directory, unless an import died before repairing the counter.
- `NativeSlugsUnique`: archive, create and unarchive never make a slug name two
  visible tasks of the ledger that made them.
- `PointersResolve`: active task and release boundaries resolve through archive,
  adoption, renumbering, replacing and interrupted import.  Exempt is a ledger whose
  clearing by `--replace` died, until another `--replace` gets past it, and a ledger
  that imported an archive of such a one (section 5).
- `TreeShowsEveryTask`: follow-ups, adoptions and imports never make a task its
  own ancestor, which would hide it from the tree view, until an import has to
  renumber (section 5 says what may happen then).

Properties of `migration`:

- `NothingLost`: no step takes a file from the tasks or doubles one, and none takes
  the text of an introduction or release or a line of an event log - except the
  ledger's own lines, if the command dies while it writes the ledger's log anew.
- `FilesStayTogether`: when colliding ledger tasks are the newer ones, as the
  migration assumes, the files of two tasks never share a directory.
- `MigratedCompletely`: a storage that calls itself up to date has no task,
  introduction, release or active task left at its root, every line of a log that is
  left there in the ledger's, a resolvable active task and a counter above every id.
  The records of each task name the id of its directory, unless the command died
  between renaming that very directory and rewriting them.

Properties of `sync`:

- `WorkSurvives`: an edit is found on its PC in a directory, a backup or a commit.
- `TaskledgerDirExists`: the configured directory exists, except after a
  `sync git init` in move mode that failed, or after a push whose storage was moved
  away between its checks and `git add`.
- `RemoteIsHealthy`: the server's last commit is one doctor found in order, unless
  the storage changed between the checks of the push that put it there and `git add`.
- `LocksStayOnTheirPC`: a lock is not found active on another PC unless
  `--allow-active-locks` let it pass or it was taken between the checks of a push
  and `git add`.

Each of these exemptions is needed: without it TLC finds a violation.

Properties of `session`:

- `ConfigLoads`: no sequence of accepted edits, overlapping ones included, makes
  a file that commands refuse to start from, as long as the last edit written was
  `Sound` (section 2).  The code accepts edits that are not, and they do break the
  file; the run has the layouts and keys with which they do.
- `WritesWhatWasAsked`: a patch made from the present text, with a safe place for
  its line, changes the document by the key asked for and nothing else.
- `ChangesAreLogged`: with logging and `capture_taskledger_cli` on, every command
  that does more than read and ended normally has a record, however its command
  line was looked up.  Exempt are `--no-log`, human-oriented commands while their
  capture is off, and what closes while the configuration does not load.
- `RecordsAreDistinct`: a command that met no other has an id and a payload of
  its own. Counting the log and writing to it are separate steps that each look
  up the current ledger, so a ledger that received what was counted in another
  (a ledger switch came between the two) is outside the promise.

Properties of `pipeline`:

- `GuidanceIsSound`: when todos wait for a step and none is named, doctor reports
  the stale name; a review that is due is accepted by `review record`, if the
  step's context is a reviewer's.
- `ReviewsEnd`: an agent that works through the due reviews comes to their end.

**Bounds.**  Two plan versions give an accepted version with a later proposed,
rejected or regenerated one, and a superseded one.  Four runs give planning,
implementation, validation and one more of any type, which is what a second
round, a restart after a failed validation, or an orphaned run next to a new one
needs.  One required question that is open, answered, answered anew or dismissed
decides every gate that looks at questions.  Two processes are what a race over
one lock file needs; each can issue any number of commands, so two runs are
enough for a new run next to an abandoned one.  In the serial run one process is
enough because processes have no identity between commands.  The agent of
`advice` needs at most two more plan versions (one for stale answers, one after a
rejection) and three more runs (planning, implementation, validation) than the
setup made, which is what its larger bounds leave it.

Four commands of `records` are a start, two overlapping edits of one collection
and a command that looks at the result, with a death in any one.  Five commands
of `exchange` reach: create, export, create, import under a renumbering policy,
create again; archive, create, unarchive with two births; and fork, create,
switch, adopt.  The foreign task's id 2 collides with the second task created
here.  Two ids in `migration` are one collision and one id that renumbering may
run into; two deaths are one in the first run and one in its repetition; the three
arrangements are tasks alone, a log and the same introductions in both places, and
a log at the root only with releases that differ.  In
`sync` five commands and two edits are an edit on each PC with a commit, a push
and a pull between them, from new PCs and from PCs already synchronised; one
commit or push at a time has passed its checks.  Three commands of `session` are two
overlapping writers and a third that has to start from what they left; the six
edits switch logging on and narrow it, are refused, and spoil a file in each of the
ways named in section 2; one second is the case where ids depend on the count alone.
Two steps of `pipeline` are one of each kind of review step, or a review step
behind another stage's.  Sessions and paths (`records`), PCs (`sync`) and
processes (`session`) are symmetric: nothing orders them, and no symmetric run
checks liveness.

**Deadlock** is checked in the `lifecycle` run (some command is always
possible).  In the `RunLock` runs the bound on runs may leave nothing to do, and
a ledger nobody works on is idle.  In `advice` and `pipeline` the agent stops when
the task is done or its reviews are.  The other runs count their commands, and a
migrated storage needs nothing more.

**Fairness.**  `CommandsEnd` assumes only that a process that is running takes
its next step, weak fairness of `Step(p)`: file operations do not wait for other
processes.  Nobody has to issue a command, a lease need not run out, and a
process may die (which ends its command).  `AdviceLeadsToDone` assumes weak
fairness of `Follow`: the agent keeps running the command it is told to run.
That is an assumption about the agent, not the program; the program's part is
that the command is accepted, and that no cycle of advice avoids the end.  While
it follows, no lease runs out and nobody else works on the task.  `ReviewsEnd`
makes the same assumption about the agent of `Pipeline`.

## 4. Proofs

The theorems hold for every value of the constants that the modules' assumptions
allow; these only say that bounds are natural numbers, that distinguished elements
belong to their sets, that special texts are told apart, and that the layouts and keys
a session uses are among those described.

| module | theorem | statement |
|---|---|---|
| `TaskLifecycleProofs` | `TypeCorrect` | `Spec => []TypeOK` |
| | `AcceptedPlanTheorem` | `Spec => []AcceptedPlanCoherent` |
| | `WorkTheorem` | `Spec => []WorkBasedOnAcceptedPlan` |
| | `RunLockTheorem` | `Spec => []RunLockCoherent` |
| | `ImplementingTheorem` | `Spec => []ImplementingHasRun` |
| | `DoneTheorem` | `Spec => []DoneWasValidated` |
| | `RunHistoryTheorem` | `Spec => RunHistoryImmutable` |
| | `PlanHistoryTheorem` | `Spec => PlanHistoryMonotone` |
| `RunLockProofs` | `RunLockTypes` | `Spec => []TypeOK` |
| | `LockNamesSavedRunTheorem` | `Spec => []LockNamesSavedRun` |
| | `LeaseTheorem` | `Spec => LockIsLease` (implements `LeaseLock`) |
| | `OneRunTheorem` | `SerialSpec => []OneRunUnderCrashes` |
| | `EvidenceTheorem` | `SerialSpec => []EvidenceBeforeStage` |
| | `AtomicityTheorem` | `SerialSpec => CommandsAreAtomic` (implements `TaskLifecycle`) |
| `MigrationProofs` | `MigrationCompleteTheorem` | `Spec => []MigratedCompletely` |
| | `FilesStayTogetherTheorem` | `Spec => []FilesStayTogether` |
| | `NothingLostTheorem` | `Spec => NothingLost` |
| `SyncProofs` | `SyncTypesTheorem` | `Spec => []TypeOK` |
| | `RemoteIsHealthyTheorem` | `Spec => []RemoteIsHealthy` |
| | `WorkSurvivesTheorem` | `Spec => []WorkSurvives` |
| | `TaskledgerDirTheorem` | `Spec => []TaskledgerDirExists` |
| | `LocksStayTheorem` | `Spec => []LocksStayOnTheirPC` |
| `ExchangeProofs` | `IdsTheorem` | `Spec => IdsNeverReused` |
| | `FreshTheorem` | `Spec => NewTasksAreFresh` |
| | `SlugsTheorem` | `Spec => []NativeSlugsUnique` |
| | `PointersTheorem` | `Spec => []PointersResolve` |
| | `TreeTheorem` | `Spec => []TreeShowsEveryTask` |
| `RecordsProofs` | `RecordsTypeOK` | `Spec => []TypeOK` |
| | `RefsTheorem` | `Spec => []RefsResolve` |
| | `IndexTheorem` | `Spec => []IndexFresh` |
| | `NothingLostTheorem` | `Spec => NothingLostAlone` |
| `AdviceProofs` | `DoctorTheorem` | `AdviceSpec => []DoctorReportsOnlyOrphans` |
| `SessionProofs` | `LedgerTheorem` | `Spec => [](Current \in LedgerRefs)` |
| | `ChangesTheorem` | `Spec => []ChangesAreLogged` |
| | `DistinctTheorem` | `Spec => []RecordsAreDistinct` |

Each module has one inductive invariant, which TLC checked on the run's instance
before it was proved, and its theorems follow from that.

### TaskLifecycleProofs

None of the invariants is inductive alone; they are proved together as `IInv`,
with three strengthenings:

- `LatestRunsKnown`: the run ids in the task record name runs of the right type.
  Without it `RunLockCoherent` could not tell that a finish ends the run it
  means.
- `WorkHasPlan`: stages at and after approval, and every implementation run,
  presuppose a recorded accepted version; needed for `WorkBasedOnAcceptedPlan`,
  since a run's plan version is the accepted one *or else the latest*.
- `ValidationInProgress`: while a validation run is running, the implementation
  run and the plan it was started on are still the latest and the accepted one.
  This is the heart of `DoneWasValidated`: between `validate start` and
  `validate finish` any command may run, and the proof shows that none that
  succeeds can replace the implementation or the plan without the validation
  run being ended, although the lock may be broken meanwhile.

The preservation proof does not go command by command through nine conjuncts.
Commands fall into classes by what they touch - nothing but questions, todos or
lock (`SameRecords`, `SameTask`), a run ended (`RunEnded`), a run added
(`RunAdded`), plan statuses changed (`PlansChanged`), a version appended
(`VersionAppended`) - and for each class a lemma says what the parts of the
invariant about runs and plans need in order to carry over.  Each command then
has one lemma that cites its class and argues the few conjuncts its own writes
can disturb; `InvPreserved` collects them over the disjuncts of `Next`.

### RunLockProofs

`RunLockInv` adds to the types `IdsKnown`: from its `save_run` on, what a process
remembers is the id of a run that is on disk.  Runs are never removed, so the lock
it then writes names one too, whoever overlaps.  `LeaseTheorem` goes through the
file operations: creation only where there is no lock, removal, expiry.

`SerialInv` says of the one command that is under way how far it has come: for each
command a predicate (`StartProgress`, `ResumeProgress`, `CheckProgress`,
`FinishProgress`, `BreakProgress`) relates the files as they are to `committed`,
the files as the last command left them.  When the last write is made, the
difference is exactly one `TaskLifecycle` action, which is `AtomicityTheorem`; and
since a dead command leaves one of the states in between, what is promised of
running runs and of the evidence of a stage has to hold in each of them.

### MigrationProofs

`MigrationInv` describes a migration interrupted anywhere.  `FilesAtHome`,
`OnePlace` and `WithTaskFile` say where the files of a task can be.
`RenumberedBeyond` and `RenumberProgress` are about the ids that renumbering hands
out: they are beyond every root task, so that a renumbered task is out of the way,
and they do not run out before the conflicts do.  `MergeProgress` says what each
later step of the command has behind it, whence `MigratedCompletely`.  `LogsInv` is
the part about logs, introductions and releases: which lines a log can have, and
that a root log which is still there after its step is contained in the ledger's.
`Apart` is
the strengthening for `FilesStayTogether`: also the files that are still to be
merged will meet no other task's, unless that one kept its id.

### SyncProofs

`SyncInv` needs, besides the types, that a PC without a repository has no history,
that storage.yaml is where the configuration says unless an init failed
(`CurrentIsStorage`), and that a lock in any directory of a PC, active or not, was
taken on that PC, and the last commit of the server carries none (`LocksAtHome`),
each with the exemptions of the properties; `CheckedPassed` says that the storage
which the command in `checked` looked at passed the checks.
`WorkSurvives` is inductive with these because a pull only extends the history
that a commit went into.

### ExchangeProofs

`ExchangeInv` speaks of every ledger (`LedgerInv`) and of the archive
(`PayloadOK`), because what is exported from one ledger is imported into another
later:

- `Pointers` for ledgers and, inside the archive, for its tasks: an active task is
  exported with the tasks or not at all, and the id map is applied to both.  Ledgers
  and archives in `torn` are left out.
- `NativeOK`: a native task is there at all, which makes adoption and renumbering
  choose another id than its own.
- `DirsOK`: a directory without a `task.md` (an import makes such directories for
  requirements) lies below the counter, unless an import died.  `NewTasksAreFresh`
  rests on it.
- `ParentsOK`: a parent's number is below its child's.  This is why the tree has no
  cycles, and it is what a renumbering import breaks: the attempt to prove the
  property without the premise `~renumbered` is how the cycle of section 5 was
  found.

The lemmas about operators that these rest on: `AllocatedAbove` (the id that is
allocated is above all there are), `SlugLeft` (by the pigeonhole principle a slug
is left), `MapFacts` (the id map is injective and avoids the ids there are),
`StagesFacts` (what an import has written after each stage), `TreeReaches`.

### RecordsProofs

A command of `Records` is a script of writes, fixed when the command has read its
files and carried out one write at a time, so `RecordsInv` speaks of every write a
script has still to make:

- `Referenced`: what the j-th write refers to is on disk or is saved by a write
  before it in the script (`Covered`).  Records are never removed while something
  refers to them, so this survives the writes of other commands, and a script that
  dies leaves no dangling reference.
- `Harmless`: with one writer, a write still to come takes nothing away from the
  disk (`Extends`), and no write before it in the script makes it do so (`Clash`).
  This is where the premise of `NothingLostAlone` is used: of a script that
  overlaps another it is false.
- `FreshBy`: at every `Checkpoint` of a script - its end, the release of the lock,
  which may fail, and the rebuild - each index field touched or stale so far has
  been written again.

The three are closed under joining scripts (`JoinReferenced`, `JoinHarmless`,
`JoinSettled`, `RebuildSettles`).  Each command's script is a few pieces joined, so
a command is proved by its pieces (`Plan`), and `BeginStep`, `WriteStep` and
`FailStep` carry the invariant over the steps of a script without looking at which
command it belongs to.

### AdviceProofs

An agent that follows next-action runs only commands of `TaskLifecycle`, with
arguments they admit (`PerformIsCommand`), so `IInv` of `TaskLifecycleProofs` holds
for `AdviceSpec` as well.  One thing doctor looks at is not in it: `BasesKnown`,
that the implementation run a validation run is based on exists.  It is inductive
because no command changes what a saved run is based on (`BasesStep`), a
regeneration or a repair that rewrites runs included.

### SessionProofs

`SessionInv` holds for any processes that overlap and die anywhere, whatever values
are typed after whatever keys.

- A record goes to the log of the ledger that the configuration selects, so the
  proof needs what `Toml` reads out of a file that was patched any number of times.
  `Lines` is what can ever be in the file: `LayoutLines` for the files a project
  starts from, `PatchedLines` with one lemma per writer (`SetPatch`, `LedgerPatch`,
  `DirPatch`, `UuidPatch`) for what is written.  `ReadOK` says of the reader, after
  any number of such lines, that a ledger reference read so far is a ledger of the
  project; `TomlOK` carries it over the lines of the file by a least
  counterexample, the reader being a recursive function.  Hence `LedgerTheorem`.
- `ChangesTheorem` is about what closes while the configuration loads (`closed`);
  it rests on the command inventory: whatever else the longest known
  prefix of a command line is, it never says *reads* of a command that changes
  something, nor *human-oriented* of one that is not (`ProfileOK`).  The table is
  proved section by section (`InventoryOK`), each by the words its entries begin
  with.
- For `DistinctTheorem`, `NumbersGiven` and `PendingGiven` bound the numbers in the
  log, and those about to be written, by how many records a reader gets: a new
  count is then beyond them all.  `IdsApart` and `PendingApart` say that
  equal ids belong to commands that overlapped, in the log or on their way into
  it.  `PayloadWaits` and `PayloadKept` follow a payload from its file to the record
  that points to it.  All of them leave out the ledgers in `strayed`, and have to:
  see section 5.  `AppendStep` carries them over an append, whoever appends;
  `QuietStep` over what touches neither log nor payloads.

### What is only model-checked

- The liveness properties `CommandsEnd`, `AdviceLeadsToDone` and `ReviewsEnd`, and
  what is stated with `ENABLED` (most of `Advice`, `GuidanceIsSound`): out of the
  prover's reach.
- `ConfigLoads` and `WritesWhatWasAsked`: they are about what the whole text means
  before and after a patch, under the premise on its place.  A proof would be an induction over the
  lines before and after the patched one for each of these, not the line by line
  argument of `SessionProofs`.

## 5. Findings

Two are violation runs, quoted with their documents in `PROJECT.json`.

1. `runlock_race`: two `implement start` commands that read before either writes
   get the same run id; the second overwrites the run record, finds a lock for
   "its" run, and both succeed.
2. `import_sidecars`: an archive carries todos and links without the task they
   belong to and requirements under the task they name; after an import the
   todos and links are with no task, and the required task requires itself.

Differences between documents and code, reachable in the models:

- `plan regenerate --from-answers` tests neither stage nor archive mark: a done
  task goes back to `plan_review`, although `domain/states.py:163` gives `done` no
  successor and `docs/usage.rst:333` calls it terminal.
- The finish commands ask for the lock only after their writes: after
  `lock break`, `implement finish` ends the run, stores `implemented`, and then
  fails.  `can_finish_implementation` (`domain/policies.py:140`) would refuse, but
  no flow calls it.
- `plan approve` after a finished implementation (reached through
  `plan regenerate`), followed by cancel and uncancel, restores `implemented`
  from the old run; validation then passes a plan nobody implemented.  `API.md:356`
  calls the restored stage safe.
- `task unarchive --reopen-for-work` of an implemented task stores
  `failed_validation` although no validation failed; next-action then recommends
  `implement restart`, which `can` and the command refuse
  (`docs/command_contract.rst:358`).
- The file `docs/sync.rst:16-21` gives has no task counter.  `config set` appends
  a table to it, and `update_ledger_config` then appends the counter *inside* that
  table: every later command refuses the file.  The layout is in `Session.cfg`;
  `ConfigLoads` without its premise `~spoiled` shows it.
- `migrate apply` is said to renumber to the next available ids
  (`storage/migrations.py:388`), but it counts from the root's largest id only, so
  that the target may be taken in the ledger; the rename then fails, and so does
  every repetition.
- `storage/task_index.py:3` says a stale index is rebuilt; nothing compares it
  with the records.

Met while modelling and not stated as properties:

- `_release_lock` saves the task copy read before the lock went away
  (`services/tasks.py:1743`); a command that starts in between is undone.
- A kill in `validate start` between saving the run and saving the task leaves a
  running validation run that the task does not name and no command can end.
- A kill in `implement finish` between saving the run and saving the task leaves
  stage `implementing` with a finished run; cancel and uncancel lead out.
- `lock break` removes whatever lock is there when it writes, not the one it
  showed.
- `validate check` rewrites the run from the copy it read; a concurrent check is
  lost.
- doctor reports a stored `implementing` as an error, and
  `DURABLE_TASK_STATUSES` leaves it out, but `implement start` stores it.
- ARCHITECTURE.md describes a heartbeat of the lock that no command does, and
  lock acquisition before the run is saved; the code saves the run first (which
  is what `LockNamesSavedRun` rests on).
- Cancel and uncancel can restore `approved` after answers changed.
- For a running implementation run without a lock in `failed_validation`, doctor
  proposes `implement resume` (`services/doctor_checks/task_checks.py:150`), which
  refuses that stage; `DoctorAdviceAccepted` leaves the stage out.
- `can plan`, `can implement-restart` and `can validate` do not look at running
  runs, the start commands do: after `lock break` on a planning or validation
  run, can and next-action say yes and the command refuses.
- next-action hints at plan acceptance for a rejected plan, at `todo done` during
  validation, and at a plain `task unarchive` where it is refused.
- `handoff create` sets neither lock policy nor source run, so the lock transfer
  on claim that the project's README advertises happens for imported records only;
  `transfer_lock` would re-create a lock removed meanwhile.
- Adding or removing one requirement drops the waivers of all
  (`services/task_collections.py:132`); a late `save_todos` drops a todo another
  process added; two `task create` can take the same id.
- A renumbering import can make a task its own ancestor, so that the tree view
  shows it no more: a parent that was not selected keeps its id in the archive,
  and where it arrives that id may mean another task (`exchange.py:489`).  Eleven
  commands with three ledgers: an import that dies leaves a foreign task 4 with
  parent 2 in one; a second makes 1 (done) and its follow-up 2, exports, and makes
  3; a third adopts 1 and imports, so that 1 becomes 4 and 2 has parent 4; the
  first adopts that 2, and 2 and 4 are each other's parents.
- An import brings runs that are under way and quarantines their locks, so that
  they arrive orphaned.  `import --replace` refuses when an incoming id exists,
  although it is about to clear it.
- When the root's task is the newer one of a collision, the migration moves its
  files in beside the other's up to the first conflict
  (`storage/migrations.py:184`); after a renumbering the active task may name the
  other task of that id.
- `config set` does not check the workflow keys that loading then refuses
  (`default_save_run_reports` and its neighbours); puts a table header after an
  inline table of the same name; and inserts a missing `worker_pipeline` key behind
  its last step.  It writes before it loads the result and does not roll back.  The
  command that broke the file is not on record either: `_close` swallows the error
  of finding the log (`services/agent_logging.py:401`).
- `import --replace` that is killed in `_clear_v2_state` (`exchange.py:753`) leaves an
  active task or release boundaries that name removed tasks; the next import without
  `--replace` keeps them, and an export carries them on.
- `_merge_ndjson_files` (`storage/migrations.py:290`) leaves its source, so that
  `events` stays at the root of a migrated storage, and writes its target in place;
  killed there, it loses lines of the ledger's log.  Killed while it rewrites
  active-task.yaml, the migration cannot be repeated until that file is removed.
  Killed between the renaming of a task directory and `rewrite_task_refs`, it
  leaves records that name the old id, and no repetition takes that up.
- A configuration patch is read, modify, write: an overlapping patch is lost, the
  task counter's included.
- The id of a log record is counted in one step and used in another
  (`services/agent_logging.py:279`, `:321`), and so is the ledger looked up.  Two
  commands that overlap can get the same id, and a reader drops one of the records
  (`storage/agent_logs.py:61`).  If the ledger is switched in between, an id of one
  ledger goes to the log of the other, and there even a later command that runs
  alone can be hidden: one command is recorded as 1 in `main`; a second counts 2
  there; a third switches to `dev` and dies; the second appends its 2 to `dev`,
  whose only record it is; a fourth, alone, counts 2 and its record is dropped.
- With `capture_human_oriented` off, `release tag` is not logged; a usage error is
  logged as succeeded.
- `sync commit` asks neither doctor nor the locks, and `sync git commit` asks
  before it stages (`services/git_sync.py:360`, `:387`): a lock taken or a record
  damaged in between is pushed.  The post-merge hook repoints the storage without a word.
- A passing review of an earlier implementation run completes a worker step, and
  no review is asked for after the first validation run; the guided hint offers
  `review record` for contexts it refuses.
- The actor of events without one carries the pid of the command itself
  (`services/task_events.py:15`).

## 6. Plan

Models to follow:

1. `PlanApproval`: approve and regenerate opened into their writes, with death in
   between and re-issue.
2. `ValidationGate`: several criteria, waivers, dependencies, requirements and
   todos against a reference definition of "may finish as passed".
3. Dependencies between tasks, for `Advice` and for ready work.

## 7. Not modelled

- Rendering, reports, search, dashboard, monitor, plan lint, transcripts and usage
  reports read records and format text; they decide nothing about them.  Lint's
  verdict is a free choice in `approve_plan`.  Ready work only orders tasks.
- Parsing of options and printing: options are the inputs of the actions.
- TOML values that span lines, the change of the day in the agent log, redaction
  and truncation of its records.
- Locks in archives: they are quarantined by default.
- The lock transfer on claiming a handoff: `handoff create` sets neither of the
  two fields it needs, so that no command reaches it.
- `repair_task_record` and `repair_planning_command_changes`: they act on records
  the commands do not produce.
- Git, the file system and the wall clock are the environment: rename and
  exclusive create are taken to be atomic, expiry may happen at any time, git is
  modelled as far as the sync commands use it.
