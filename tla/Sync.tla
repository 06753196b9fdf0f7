-------------------------------- MODULE Sync --------------------------------
(***************************************************************************)
(* Where a workspace keeps its storage, and the private Git repository     *)
(* that carries it between PCs (storage/init.py,                           *)
(* services/storage_locations.py, services/git_sync.py).                   *)
(*                                                                         *)
(* Each PC has a workspace whose taskledger_dir is the directory in the    *)
(* workspace ("local") or the project's directory in the PC's clone of the *)
(* sync repository ("repo").  The operations are operators on the record   *)
(* of one PC: they return it as they leave it and whether they succeeded,  *)
(* for a command that fails keeps what it changed before.  Git is external *)
(* and modelled as far as it is used: a history is the sequence of its     *)
(* commits, which pull --ff-only and push only ever extend.  sync git      *)
(* commit and push are two steps, their checks and what git then does;     *)
(* other commands may run on the PC in between.                            *)
(***************************************************************************)
EXTENDS Naturals, FiniteSets, SequencesExt

CONSTANTS
    PCs,
    MaxEdits,       \* bound: changes made to task records
    MaxCommits,     \* bound: length of a history
    MaxCommands,    \* bound: commands
    MaxIncidents    \* bound: deaths of commands, damage, doings of other projects

ASSUME SyncAssumption ==
    /\ MaxEdits \in Nat /\ MaxCommits \in Nat \ {0}
    /\ MaxCommands \in Nat /\ MaxIncidents \in Nat

VARIABLES
    pcs,        \* the state of each PC
    remote,     \* the history of the branch on the server
    checked,    \* the commit or push that has passed its checks, and what they saw
    made,       \* history: the PC each edit was made on, in order
    allowed,    \* history: --allow-active-locks let a lock pass
    overtaken,  \* history: commits pushed of a storage that changed after the checks
    stranded,   \* history: PCs where init moved the storage and failed
    commands,   \* commands run so far
    incidents   \* incidents so far

vars == <<pcs, remote, checked, made, allowed, overtaken, stranded, commands, incidents>>

Locations == {"local", "repo"}

Edits == 1..MaxEdits

\* A storage directory: the changes recorded in it, storage.yaml, the run an
\* active lock is for (the edit that started it, 0: none), and whether doctor
\* finds its records in order.
NoDir == [edits |-> {}, meta |-> FALSE, lock |-> 0, sound |-> FALSE]

EmptyDir == [NoDir EXCEPT !.sound = TRUE]

NewStorage == [EmptyDir EXCEPT !.meta = TRUE]

healthy(dir) == dir.meta /\ dir.sound

Dirs == [edits: SUBSET Edits, meta: BOOLEAN, lock: 0..MaxEdits, sound: BOOLEAN]

Commit == [by: PCs, n: 1..MaxCommits, dir: Dirs]

NewPC == [config  |-> "local",
          dirs    |-> [loc \in Locations |-> IF loc = "local" THEN NewStorage ELSE NoDir],
          backups |-> {},        \* the edits kept in *.moved-* directories
          git     |-> FALSE,     \* the sync repository is there
          head    |-> <<>>,
          outside |-> FALSE,     \* changes outside the project's directory
          hook    |-> "none"]

\* A PC after sync git init: the first one moved its storage there and pushed
\* it, the others cloned and adopted it.
SyncedPC(p, first) ==
    [NewPC EXCEPT !.config = "repo", !.git = TRUE,
                  !.dirs = [loc \in Locations |-> IF loc = "local" /\ p = first THEN NoDir
                                                  ELSE NewStorage],
                  !.head = <<[by |-> first, n |-> 1, dir |-> NewStorage]>>]

Init ==
    /\ \/ pcs = [p \in PCs |-> NewPC] /\ remote = <<>>
       \/ \E first \in PCs : /\ pcs = [p \in PCs |-> SyncedPC(p, first)]
                             /\ remote = SyncedPC(first, first).head
    /\ checked = {} /\ made = <<>>
    /\ allowed = FALSE /\ overtaken = {} /\ stranded = {} /\ commands = 0 /\ incidents = 0

Done(s) == [ok |-> TRUE, pc |-> s]

Failed(s) == [ok |-> FALSE, pc |-> s]

Current(s) == s.dirs[s.config]

SetDir(s, loc, dir) == [s EXCEPT !.dirs[loc] = dir]

\* ensure_v2_layout, which every command runs first, makes the directory of
\* the ledger where there is none.
ensure_v2_layout(s) == IF Current(s) = NoDir THEN SetDir(s, s.config, EmptyDir) ELSE s

\* doctor looks at the storage the configuration names.
inspect_v2_project(s) == LET t == ensure_v2_layout(s) IN [ok |-> healthy(Current(t)), pc |-> t]

\* taskledger init in an existing workspace adds what is missing.
init_project_state(s) ==
    LET t == ensure_v2_layout(s) IN Done([t EXCEPT !.dirs[t.config].meta = TRUE])

-----------------------------------------------------------------------------
(***************************************************************************)
(* storage move.  end is where the command ends: "done" when nothing       *)
(* happens to it; otherwise it dies with the copy as it is then, with the  *)
(* copy complete, or with the configuration updated.                       *)
(***************************************************************************)

\* Fault: the original is removed.
Backup_Removed(s, loc) == SetDir(s, loc, NoDir)

Backup(s, loc) == [SetDir(s, loc, NoDir) EXCEPT !.backups = @ \cup s.dirs[loc].edits]

\* A copy that was cut short: storage.yaml may have been copied.
PartialCopies == {[EmptyDir EXCEPT !.meta = meta] : meta \in BOOLEAN}

Ends == {[at |-> at, copy |-> NoDir] : at \in {"copied", "moved", "configured", "done"}}
        \cup {[at |-> "copying", copy |-> copy] : copy \in PartialCopies}

CopyOf(dir, end) == IF end.at = "copying" THEN end.copy ELSE dir

\* Fault: the original is put away before doctor has looked at the copy.
move_taskledger_storage_Early(s, target, mode, adopt_existing, force, end) ==
    LET source == s.config
        adopt == adopt_existing /\ s.dirs[target] # NoDir
        moved == IF adopt THEN s ELSE SetDir(s, target, s.dirs[source])
        put_away == IF mode = "move" THEN Backup(moved, source) ELSE moved
        configured == [put_away EXCEPT !.config = target]
        doctor == inspect_v2_project(configured)
    IN  IF \/ source = target \/ s.dirs[source] = NoDir
           \/ source # "local" /\ ~force
           \/ s.dirs[target] # NoDir /\ ~(adopt_existing /\ s.dirs[target].meta)
        THEN Failed(s)
        ELSE IF ~doctor.ok THEN Failed([doctor.pc EXCEPT !.config = source])
        ELSE Done(doctor.pc)

move_taskledger_storage(s, target, mode, adopt_existing, force, end) ==
    LET source == s.config
        adopt == adopt_existing /\ s.dirs[target] # NoDir
        copied == IF adopt THEN s
                  ELSE SetDir(s, target, CopyOf(s.dirs[source], end))
        configured == [copied EXCEPT !.config = target]
        doctor == inspect_v2_project(configured)
    IN  IF \/ source = target \/ s.dirs[source] = NoDir
           \/ source # "local" /\ ~force
           \/ s.dirs[target] # NoDir /\ ~(adopt_existing /\ s.dirs[target].meta)
        THEN Failed(s)
        ELSE IF end.at \in {"copying", "copied"} THEN Failed(copied)
        ELSE IF end.at = "configured" THEN Failed(configured)
        ELSE IF ~doctor.ok THEN Failed([doctor.pc EXCEPT !.config = source])
        ELSE Done(IF mode = "move" THEN Backup(doctor.pc, source) ELSE doctor.pc)

-----------------------------------------------------------------------------
(***************************************************************************)
(* Git, as the sync commands use it.                                       *)
(***************************************************************************)

LastDir(history) == IF history = <<>> THEN NoDir ELSE Last(history).dir

project_dirty(s) == s.dirs["repo"] # LastDir(s.head)

git_status_lines(s) == s.git /\ (project_dirty(s) \/ s.outside)

\* The branch is cloned where there is no repository yet; otherwise one is
\* made, and _write_sync_layout leaves its own files uncommitted in it.
ensure_git_repo(s, remote_url) ==
    CASE s.git -> Done(s)
      [] ~s.git /\ s.dirs["repo"] # NoDir -> Failed(s)
      [] ~s.git /\ s.dirs["repo"] = NoDir /\ remote_url /\ remote # <<>> ->
             Done([SetDir(s, "repo", LastDir(remote)) EXCEPT !.git = TRUE, !.head = remote])
      [] ~s.git /\ s.dirs["repo"] = NoDir /\ remote_url /\ remote = <<>> -> Failed(s)
      [] OTHER -> Done([s EXCEPT !.git = TRUE, !.outside = TRUE])

\* A commit of the project's directory, with the other changes of the
\* repository when they are included.
git_commit(p, s, include_outside) ==
    [s EXCEPT !.head = Append(@, [by |-> p, n |-> Len(@) + 1, dir |-> s.dirs["repo"]]),
              !.outside = @ /\ ~include_outside]

\* What a pull makes of one file that was base, is mine here and theirs there.
Merges(base, mine, theirs) == base \in {mine, theirs} \/ mine = theirs

Merge(base, mine, theirs) == IF mine = base THEN theirs ELSE mine

MergedDir(base, mine, theirs) ==
    [edits |-> theirs.edits \cup (mine.edits \ base.edits),
     meta  |-> Merge(base.meta, mine.meta, theirs.meta),
     lock  |-> Merge(base.lock, mine.lock, theirs.lock),
     sound |-> Merge(base.sound, mine.sound, theirs.sound)]

\* pull --ff-only: refused when the histories have parted or when a file
\* with changes here would be overwritten.
git_pull_ff_only(s) ==
    LET base == LastDir(s.head)
        mine == s.dirs["repo"]
        theirs == LastDir(remote)
    IN  CASE ~s.git \/ remote = <<>> -> Failed(s)
          [] s.git /\ remote # <<>> /\ IsPrefix(remote, s.head) -> Done(s)
          [] s.git /\ remote # <<>> /\ ~IsPrefix(remote, s.head) /\ IsPrefix(s.head, remote)
             /\ (\A f \in {"meta", "lock", "sound"} : Merges(base[f], mine[f], theirs[f]))
             /\ base.edits \subseteq mine.edits ->
                 Done([SetDir(s, "repo", MergedDir(base, mine, theirs)) EXCEPT !.head = remote])
          [] OTHER -> Failed(s)

-----------------------------------------------------------------------------
(***************************************************************************)
(* The sync commands.                                                      *)
(***************************************************************************)

\* A hook of another workspace or project is only replaced with --force; next
\* to a hook of someone else a sample is left.
install_git_hooks(s, force) ==
    IF ~s.git \/ (s.hook = "other" /\ ~force) THEN Failed(s)
    ELSE Done([s EXCEPT !.hook = IF @ = "foreign" /\ ~force THEN @ ELSE "managed"])

uninstall_git_hooks(s) == Done([s EXCEPT !.hook = IF @ \in {"managed", "other"} THEN "none" ELSE @])

\* The target is adopted, refused or filled.  In move mode the original is
\* put away before the configuration is updated and doctor has had its look.
init_git_sync_repo(s, remote_url, adopt_existing, mode, hooks, end) ==
    LET repo == ensure_git_repo(s, remote_url)
        target == repo.pc.dirs["repo"]
        fill == target = NoDir /\ s.config # "repo"
        copied == IF fill THEN SetDir(repo.pc, "repo", CopyOf(Current(s), end)) ELSE repo.pc
        moved == IF fill /\ mode = "move" THEN Backup(copied, s.config) ELSE copied
        configured == [moved EXCEPT !.config = "repo"]
        doctor == inspect_v2_project(configured)
    IN  IF \/ ~repo.ok
           \/ target.meta /\ ~adopt_existing /\ s.config # "repo"
           \/ target # NoDir /\ ~target.meta
           \/ fill /\ Current(s) = NoDir
        THEN Failed(repo.pc)
        ELSE IF end.at \in {"copying", "copied"} THEN Failed(copied)
        ELSE IF end.at = "moved" THEN Failed(moved)
        ELSE IF end.at = "configured" THEN Failed(configured)
        ELSE IF ~doctor.ok THEN Failed([doctor.pc EXCEPT !.config = s.config])
        ELSE IF hooks # "no" THEN install_git_hooks(doctor.pc, hooks = "force") ELSE Done(doctor.pc)

\* Points the workspace at the project's directory in the repository.
git_sync_import_local(s) ==
    LET doctor == inspect_v2_project([s EXCEPT !.config = "repo"])
    IN  IF ~s.dirs["repo"].meta THEN Failed(s)
        ELSE IF doctor.ok THEN doctor ELSE Failed([doctor.pc EXCEPT !.config = s.config])

\* Fault: the lock is not looked for.
git_sync_commit_checks_Locked(s, allow_active_locks) ==
    s.config = "repo" /\ inspect_v2_project(s).ok /\ s.git

\* Fault: a storage doctor finds fault with passes.
git_sync_commit_checks_Unsound(s, allow_active_locks) ==
    s.config = "repo" /\ (Current(s).lock = 0 \/ allow_active_locks) /\ s.git

\* sync git commit and push look at the storage,
git_sync_commit_checks(s, allow_active_locks) ==
    /\ s.config = "repo"
    /\ inspect_v2_project(s).ok
    /\ Current(s).lock = 0 \/ allow_active_locks
    /\ s.git

\* and then have git stage and commit what there is by now.  Nothing is
\* committed where nothing has changed.
git_sync_commit(p, s, include_outside) ==
    IF project_dirty(s) \/ (include_outside /\ s.outside) THEN git_commit(p, s, include_outside) ELSE s

\* sync commit asks neither doctor nor the locks.
sync_commit_storage(p, s) ==
    IF s.config # "repo" \/ ~s.git \/ ~project_dirty(s) THEN Failed(s)
    ELSE Done(git_commit(p, s, FALSE))

git_sync_pull(s, allow_dirty) ==
    LET pulled == git_pull_ff_only(s)
    IN  IF (git_status_lines(s) /\ ~allow_dirty) \/ ~pulled.ok THEN Failed(s)
        ELSE git_sync_import_local(pulled.pc)

-----------------------------------------------------------------------------
(***************************************************************************)
(* The commands, with their options.                                       *)
(***************************************************************************)

Bounded(s) == Len(s.head) <= MaxCommits

\* A command that does not talk to the server.
Local(p, result) ==
    /\ Bounded(result.pc)
    /\ pcs' = [pcs EXCEPT ![p] = result.pc]
    /\ UNCHANGED <<remote, checked, made, allowed, overtaken>>

Incident(happens) ==
    IF happens THEN incidents < MaxIncidents /\ incidents' = incidents + 1
    ELSE UNCHANGED incidents

Quiet == UNCHANGED <<stranded, incidents>>

init_command(p) == Local(p, init_project_state(pcs[p])) /\ Quiet

move_command(p) ==
    /\ \E target \in Locations, mode \in {"copy", "move"}, adopt_existing, force \in BOOLEAN,
          end \in Ends :
          /\ target = "repo" => pcs[p].git
          /\ Local(p, move_taskledger_storage(pcs[p], target, mode, adopt_existing, force, end))
          /\ Incident(end.at # "done")
    /\ UNCHANGED stranded

git_init_command(p) ==
    \E remote_url, adopt_existing \in BOOLEAN, mode \in {"copy", "move"},
       hooks \in {"no", "yes", "force"}, end \in Ends :
        LET result == init_git_sync_repo(pcs[p], remote_url, adopt_existing, mode, hooks, end)
        IN  /\ Local(p, result)
            /\ Incident(end.at # "done")
            /\ stranded' = IF mode = "move" /\ ~result.ok /\ Current(result.pc) = NoDir
                           THEN stranded \cup {p} ELSE stranded

git_import_local_command(p) ==
    Local(p, git_sync_import_local(pcs[p])) /\ Quiet

\* A PC as s, and its sync git commit or push about to begin: refused, or on
\* its way to git.  Bound: one such command at a time has passed its checks.
Begin(p, s, push, allow_active_locks) ==
    /\ Bounded(s)
    /\ pcs' = [pcs EXCEPT ![p] = s]
    /\ IF git_sync_commit_checks(s, allow_active_locks)
       THEN /\ checked = {}
            /\ checked' = {[pc |-> p, push |-> push, dir |-> s.dirs["repo"]]}
            /\ allowed' = (allowed \/ (allow_active_locks /\ Current(s).lock # 0))
       ELSE UNCHANGED <<checked, allowed>>
    /\ UNCHANGED <<remote, made, overtaken>>

\* sync git commit and its alias export-local.
git_commit_command(p) ==
    \E allow_active_locks \in BOOLEAN : Begin(p, pcs[p], FALSE, allow_active_locks) /\ Quiet

\* The rest of sync git commit and push.  A push commits everything there is
\* in the repository; the server takes a history that extends its own.
Finish(w) ==
    LET p == w.pc
        t == git_sync_commit(p, pcs[p], w.push)
        pushed == w.push /\ t.head # <<>> /\ IsPrefix(remote, t.head)
    IN  /\ Bounded(t)
        /\ pcs' = [pcs EXCEPT ![p] = t]
        /\ remote' = IF pushed THEN t.head ELSE remote
        /\ checked' = checked \ {w}
        /\ overtaken' = IF pushed /\ pcs[p].dirs["repo"] # w.dir THEN overtaken \cup {Last(t.head)}
                        ELSE overtaken
        /\ UNCHANGED <<made, allowed, stranded, commands, incidents>>

commit_command(p) == Local(p, sync_commit_storage(p, pcs[p])) /\ Quiet

git_pull_command(p) ==
    \E allow_dirty \in BOOLEAN :
        Local(p, git_sync_pull(pcs[p], allow_dirty)) /\ Quiet

git_push_command(p) ==
    \E allow_active_locks \in BOOLEAN : Begin(p, pcs[p], TRUE, allow_active_locks) /\ Quiet

\* sync git sync: pull, then push.
git_sync_command(p) ==
    \E allow_dirty, allow_active_locks \in BOOLEAN :
        LET pulled == git_sync_pull(pcs[p], allow_dirty)
        IN  /\ IF pulled.ok THEN Begin(p, pulled.pc, TRUE, allow_active_locks) ELSE Local(p, pulled)
            /\ Quiet

hooks_install_command(p) ==
    \E force \in BOOLEAN : Local(p, install_git_hooks(pcs[p], force)) /\ Quiet

hooks_uninstall_command(p) == Local(p, uninstall_git_hooks(pcs[p])) /\ Quiet

\* A git pull by hand, after which the managed hook imports.
post_merge_hook(p) ==
    LET pulled == git_pull_ff_only(pcs[p])
    IN  /\ pulled.ok
        /\ Local(p, IF pulled.pc.hook = "managed" THEN git_sync_import_local(pulled.pc)
                    ELSE pulled)
        /\ Quiet

-----------------------------------------------------------------------------
(***************************************************************************)
(* What goes on in the storage and around it meanwhile.                    *)
(***************************************************************************)

\* A command that writes task records; it may start a run or end the one
\* that holds the lock.
work_command(p) ==
    LET s == ensure_v2_layout(pcs[p])
        e == Len(made) + 1
    IN  /\ e <= MaxEdits
        /\ made' = Append(made, p)
        /\ \E lock \in {0, e, Current(s).lock} :
              pcs' = [pcs EXCEPT ![p] = SetDir(s, s.config,
                  [Current(s) EXCEPT !.edits = @ \cup {e}, !.lock = lock])]
        /\ UNCHANGED <<remote, checked, allowed, overtaken>> /\ Quiet

\* A command that dies leaves records doctor complains about; repair
\* commands put them in order.
StorageHealth(p) ==
    /\ Current(pcs[p]) # NoDir
    /\ pcs' = [pcs EXCEPT ![p].dirs[pcs[p].config].sound = ~@]
    /\ UNCHANGED <<remote, checked, made, allowed, overtaken, stranded>> /\ Incident(TRUE)

\* Another project that shares the repository, and someone else's hook.
OtherProject(p) ==
    /\ pcs[p].git
    /\ \/ pcs' = [pcs EXCEPT ![p].outside = TRUE]
       \/ \E hook \in {"other", "foreign"} :
             pcs[p].hook = "none" /\ pcs' = [pcs EXCEPT ![p].hook = hook]
    /\ UNCHANGED <<remote, checked, made, allowed, overtaken, stranded>> /\ Incident(TRUE)

\* A command that changes nothing is not counted.
Command ==
    /\ commands < MaxCommands
    /\ commands' = commands + 1
    /\ \E p \in PCs :
          \/ init_command(p) \/ move_command(p)
          \/ git_init_command(p) \/ git_import_local_command(p)
          \/ git_commit_command(p) \/ commit_command(p)
          \/ git_pull_command(p) \/ git_push_command(p) \/ git_sync_command(p)
          \/ hooks_install_command(p) \/ hooks_uninstall_command(p) \/ post_merge_hook(p)
          \/ work_command(p) \/ StorageHealth(p) \/ OtherProject(p)
    /\ <<pcs', remote', checked'>> # <<pcs, remote, checked>>

Next == Command \/ \E w \in checked : Finish(w)

PCSymmetry == Permutations(PCs)

Spec == Init /\ [][Next]_vars

-----------------------------------------------------------------------------
(* Properties *)

\* Every PC has a configuration, two directories and a history.
TypeOK ==
    /\ \A p \in PCs :
          /\ pcs[p].config \in Locations
          /\ \A loc \in Locations : pcs[p].dirs[loc] \in Dirs
          /\ pcs[p].backups \subseteq Edits
          /\ pcs[p].head \in Seq(Commit)
          /\ pcs[p].hook \in {"none", "managed", "other", "foreign"}
    /\ remote \in Seq(Commit)
    /\ checked \subseteq [pc: PCs, push: BOOLEAN, dir: Dirs]
    /\ made \in Seq(PCs) /\ overtaken \subseteq Commit /\ stranded \subseteq PCs

\* Nothing that was recorded on a PC disappears from it: through copies,
\* moves, adoptions and pulls, cut short or not, an edit is in one of the
\* directories, in a backup or in a commit.
WorkSurvives ==
    \A e \in DOMAIN made :
        LET s == pcs[made[e]]
        IN  \/ \E loc \in Locations : e \in s.dirs[loc].edits
            \/ e \in s.backups
            \/ \E k \in DOMAIN s.head : e \in s.head[k].dir.edits

\* A push whose storage was put away between its checks and git add.
PushedWithoutStorage == \E c \in overtaken : ~c.dir.meta

\* taskledger_dir names a directory that exists, whenever a storage move dies
\* or is rolled back.  Only sync git init in move mode can break this, and a
\* pull of what was pushed while the storage was being moved out of the
\* repository.
TaskledgerDirExists ==
    \A p \in PCs : Current(pcs[p]) # NoDir \/ p \in stranded \/ PushedWithoutStorage

\* What the server hands out has been through doctor, unless the storage
\* changed between the checks of the very push that put it there and git add:
\* sync commit and the commits of a damaged storage only ever get there below
\* a sound commit.
RemoteIsHealthy == remote # <<>> => healthy(LastDir(remote)) \/ Last(remote) \in overtaken

\* The locks that were taken between the checks of a push and git add.
LocksOvertaking == {c.dir.lock : c \in overtaken}

\* A run that is under way on one PC is not found under way on another,
\* unless --allow-active-locks was given or the run was started between the
\* checks of a push and git add.
LocksStayOnTheirPC ==
    \A p \in PCs : \A loc \in Locations :
        LET lock == pcs[p].dirs[loc].lock
        IN  lock # 0 => made[lock] = p \/ allowed \/ lock \in LocksOvertaking
=============================================================================
