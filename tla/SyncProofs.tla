----------------------------- MODULE SyncProofs ------------------------------
(***************************************************************************)
(* Theorems about Sync, for any set of PCs and any bounds: what the server *)
(* hands out has been through doctor, work that was recorded stays on its  *)
(* PC, a lock stays on its PC, and taskledger_dir exists.                  *)
(***************************************************************************)
EXTENDS Sync, SequenceTheorems, TLAPS

PCRecord ==
    [config: Locations, dirs: [Locations -> Dirs], backups: SUBSET Edits, git: BOOLEAN,
     head: Seq(Commit), outside: BOOLEAN, hook: {"none", "managed", "other", "foreign"}]

\* Edit e is somewhere on the PC.
Has(s, e) ==
    \/ \E loc \in Locations : e \in s.dirs[loc].edits
    \/ e \in s.backups
    \/ \E k \in DOMAIN s.head : e \in s.head[k].dir.edits

SyncTypes ==
    /\ pcs \in [PCs -> PCRecord] /\ remote \in Seq(Commit)
    /\ made \in Seq(PCs) /\ Len(made) <= MaxEdits
    /\ stranded \subseteq PCs /\ allowed \in BOOLEAN /\ overtaken \subseteq Commit

\* Where there is no repository there is no history.
NoGitNoHead == \A p \in PCs : pcs[p].git \/ pcs[p].head = <<>>

\* storage.yaml is where the configuration says.
CurrentIsStorage ==
    \A p \in PCs : Current(pcs[p]).meta \/ p \in stranded \/ PushedWithoutStorage

\* No lock, or one that may be anywhere.
Free == {0} \cup LocksOvertaking

\* The lock in a directory is one that a run on this PC took.
OwnLock(p, lock) == lock \in Free \/ (lock \in DOMAIN made /\ made[lock] = p)

LocksAtHome ==
    allowed \/ (/\ remote # <<>> => LastDir(remote).lock \in Free
                /\ \A p \in PCs, loc \in Locations : OwnLock(p, pcs[p].dirs[loc].lock))

\* What has passed the checks was sound, and had no lock unless one was let pass.
Passed(w) ==
    /\ w \in [pc: PCs, push: BOOLEAN, dir: Dirs] /\ pcs[w.pc].git
    /\ healthy(w.dir) /\ (w.dir.lock = 0 \/ allowed)

CheckedPassed == \A w \in checked : Passed(w)

SyncInv == SyncTypes /\ NoGitNoHead /\ CurrentIsStorage /\ LocksAtHome /\ CheckedPassed
           /\ RemoteIsHealthy /\ WorkSurvives

-----------------------------------------------------------------------------
(* Directories and the records of PCs *)

\* The directories the model names are directories.
LEMMA DirConstants ==
    /\ NoDir \in Dirs /\ EmptyDir \in Dirs /\ NewStorage \in Dirs
    /\ NoDir.edits = {} /\ EmptyDir.edits = {} /\ NewStorage.edits = {}
    /\ NoDir.lock = 0 /\ EmptyDir.lock = 0 /\ NewStorage.lock = 0
    /\ ~NoDir.meta /\ ~NoDir.sound /\ ~EmptyDir.meta
    /\ NewStorage.meta /\ NewStorage.sound
<1>1. NoDir.edits = {} /\ NoDir.lock = 0
  BY DEF NoDir
<1>2. ~NoDir.meta /\ ~NoDir.sound
  BY DEF NoDir
<1>3. EmptyDir.edits = {} /\ EmptyDir.lock = 0
  BY DEF NoDir, EmptyDir
<1>4. ~EmptyDir.meta
  BY DEF NoDir, EmptyDir
<1>5. NewStorage.edits = {} /\ NewStorage.lock = 0
  BY DEF NoDir, EmptyDir, NewStorage
<1>6. NewStorage.meta
  BY DEF NoDir, EmptyDir, NewStorage
<1>7. NewStorage.sound
  BY DEF NoDir, EmptyDir, NewStorage
<1>8. NoDir \in Dirs
  BY SyncAssumption DEF NoDir, Dirs
<1>9. \A d \in Dirs, b \in BOOLEAN : [d EXCEPT !.sound = b] \in Dirs /\ [d EXCEPT !.meta = b] \in Dirs
  BY DEF Dirs
<1>10. EmptyDir \in Dirs
  BY <1>8, <1>9, Zenon DEF EmptyDir
<1>11. NewStorage \in Dirs
  BY <1>9, <1>10, Zenon DEF NewStorage
<1> QED BY <1>1, <1>2, <1>3, <1>4, <1>5, <1>6, <1>7, <1>8, <1>10, <1>11

\* What one finds in the record of a PC.
LEMMA PCFields ==
    ASSUME NEW s \in PCRecord
    PROVE  /\ s.config \in Locations /\ s.dirs \in [Locations -> Dirs]
           /\ \A loc \in Locations : s.dirs[loc] \in Dirs
           /\ s.backups \subseteq Edits /\ s.git \in BOOLEAN /\ s.head \in Seq(Commit)
           /\ Current(s) \in Dirs
BY DEF PCRecord, Current

\* SetDir changes one directory.
LEMMA SetDirFields ==
    ASSUME NEW s \in PCRecord, NEW loc \in Locations, NEW dir \in Dirs
    PROVE  /\ SetDir(s, loc, dir) \in PCRecord
           /\ SetDir(s, loc, dir).dirs[loc] = dir
           /\ \A l \in Locations \ {loc} : SetDir(s, loc, dir).dirs[l] = s.dirs[l]
           /\ SetDir(s, loc, dir).config = s.config /\ SetDir(s, loc, dir).backups = s.backups
           /\ SetDir(s, loc, dir).git = s.git /\ SetDir(s, loc, dir).head = s.head
           /\ SetDir(s, loc, dir).hook = s.hook
BY DEF PCRecord, SetDir

\* The configuration is set.
LEMMA ConfigFields ==
    ASSUME NEW s \in PCRecord, NEW loc \in Locations
    PROVE  LET t == [s EXCEPT !.config = loc]
           IN  t \in PCRecord /\ t.config = loc /\ t.dirs = s.dirs /\ t.backups = s.backups
               /\ t.git = s.git /\ t.head = s.head /\ t.hook = s.hook
BY DEF PCRecord

\* Backup empties a directory and keeps its edits.
LEMMA BackupFields ==
    ASSUME NEW s \in PCRecord, NEW loc \in Locations
    PROVE  LET t == Backup(s, loc)
           IN  /\ t \in PCRecord /\ t.config = s.config /\ t.git = s.git /\ t.head = s.head
               /\ t.dirs[loc] = NoDir /\ \A l \in Locations \ {loc} : t.dirs[l] = s.dirs[l]
               /\ t.backups = s.backups \cup s.dirs[loc].edits
<1>1. SetDir(s, loc, NoDir) \in PCRecord
  BY SetDirFields, DirConstants
<1>2. s.dirs[loc].edits \subseteq Edits
  BY DEF PCRecord, Dirs
<1> DEFINE u == SetDir(s, loc, NoDir)
<1>3. /\ u.backups = s.backups /\ u.config = s.config /\ u.git = s.git /\ u.head = s.head
      /\ u.dirs[loc] = NoDir /\ \A l \in Locations \ {loc} : u.dirs[l] = s.dirs[l]
  BY SetDirFields, DirConstants
<1>4. Backup(s, loc) = [u EXCEPT !.backups = @ \cup s.dirs[loc].edits]
  BY DEF Backup
<1> HIDE DEF u
<1> QED BY <1>1, <1>2, <1>3, <1>4 DEF PCRecord, u

\* A result has the two fields it is made of.
LEMMA ResultFields ==
    ASSUME NEW s
    PROVE  Done(s).ok /\ Done(s).pc = s /\ ~Failed(s).ok /\ Failed(s).pc = s
<1>1. Done(s).pc = s /\ Failed(s).pc = s
  BY DEF Done, Failed
<1>2. Done(s).ok
  BY DEF Done
<1>3. ~Failed(s).ok
  BY DEF Failed
<1> QED BY <1>1, <1>2, <1>3

-----------------------------------------------------------------------------
(***************************************************************************)
(* What every operation keeps: the edits that were on the PC are there     *)
(* afterwards, the repository stays, and no lock appears that was not      *)
(* there, unless --allow-active-locks had let one pass or it had overtaken *)
(* the checks of a push.                                                   *)
(***************************************************************************)

OKPC(s) == s \in PCRecord /\ (s.git \/ s.head = <<>>)

Locks(s) == {s.dirs[loc].lock : loc \in Locations}

Keeps(s, t) ==
    /\ OKPC(t)
    /\ s.git => t.git
    /\ \A e : Has(s, e) => Has(t, e)
    /\ allowed \/ Locks(t) \subseteq Locks(s) \cup Free

\* Keeping is transitive.
LEMMA KeepsChain ==
    ASSUME NEW s, NEW t, NEW u, Keeps(s, t), Keeps(t, u)
    PROVE  Keeps(s, u)
BY DEF Keeps

\* A PC that is left alone keeps what it has.
LEMMA KeepsSelf ==
    ASSUME NEW s, OKPC(s)
    PROVE  Keeps(s, s)
BY DEF Keeps

\* A PC whose directories, backups and history are those of another.
LEMMA KeepsSame ==
    ASSUME NEW s, NEW t, OKPC(s), t \in PCRecord,
           t.dirs = s.dirs, t.backups = s.backups, t.head = s.head, s.git => t.git
    PROVE  Keeps(s, t)
BY DEF Keeps, OKPC, Has, Locks

\* A directory that has no edits of its own may be filled.
LEMMA KeepsSetDir ==
    ASSUME NEW s, OKPC(s), NEW loc \in Locations, NEW dir \in Dirs,
           s.dirs[loc].edits \subseteq dir.edits,
           allowed \/ dir.lock \in Locks(s) \cup Free
    PROVE  Keeps(s, SetDir(s, loc, dir))
<1> DEFINE t == SetDir(s, loc, dir)
<1>1. /\ t \in PCRecord /\ t.dirs[loc] = dir
      /\ \A l \in Locations \ {loc} : t.dirs[l] = s.dirs[l]
      /\ t.backups = s.backups /\ t.git = s.git /\ t.head = s.head
  BY SetDirFields DEF OKPC
<1> HIDE DEF t
<1>2. \A e : Has(s, e) => Has(t, e)
  BY <1>1 DEF Has
<1>3. allowed \/ Locks(t) \subseteq Locks(s) \cup Free
  BY <1>1 DEF Locks
<1>4. OKPC(t) /\ (s.git => t.git)
  BY <1>1 DEF OKPC
<1> QED BY <1>2, <1>3, <1>4 DEF Keeps, t

\* Putting a directory away keeps its edits.
LEMMA KeepsBackup ==
    ASSUME NEW s, OKPC(s), NEW loc \in Locations
    PROVE  Keeps(s, Backup(s, loc))
<1> DEFINE t == Backup(s, loc)
<1>1. /\ t \in PCRecord /\ t.git = s.git /\ t.head = s.head
      /\ t.dirs[loc] = NoDir /\ \A l \in Locations \ {loc} : t.dirs[l] = s.dirs[l]
      /\ t.backups = s.backups \cup s.dirs[loc].edits
  BY BackupFields DEF OKPC
<1> HIDE DEF t
<1>2. \A e : Has(s, e) => Has(t, e)
  BY <1>1 DEF Has
<1>3. Locks(t) \subseteq Locks(s) \cup {0}
  BY <1>1, DirConstants DEF Locks
<1>4. OKPC(t) /\ (s.git => t.git)
  BY <1>1 DEF OKPC
<1> QED BY <1>2, <1>3, <1>4 DEF Keeps, t, Free

\* So does the directory that every command makes where there is none.
LEMMA KeepsLayout ==
    ASSUME NEW s, OKPC(s)
    PROVE  /\ Keeps(s, ensure_v2_layout(s))
           /\ ensure_v2_layout(s).config = s.config
           /\ ensure_v2_layout(s).git = s.git
           /\ Current(s) # NoDir => ensure_v2_layout(s) = s
           /\ \A loc \in Locations \ {s.config} : ensure_v2_layout(s).dirs[loc] = s.dirs[loc]
           /\ Current(ensure_v2_layout(s)) \in {Current(s), EmptyDir}
<1>1. s \in PCRecord /\ s.config \in Locations /\ Current(s) = s.dirs[s.config]
  BY PCFields DEF OKPC, Current
<1>2. CASE Current(s) # NoDir
  <2>1. ensure_v2_layout(s) = s
    BY <1>2 DEF ensure_v2_layout
  <2> QED BY <1>2, <2>1, KeepsSelf
<1>3. CASE Current(s) = NoDir
  <2> DEFINE t == SetDir(s, s.config, EmptyDir)
  <2>1. ensure_v2_layout(s) = t
    BY <1>3 DEF ensure_v2_layout
  <2>2. Keeps(s, t)
    BY <1>1, <1>3, KeepsSetDir, DirConstants DEF Free
  <2>3. /\ t.config = s.config /\ t.git = s.git /\ t.dirs[s.config] = EmptyDir
        /\ \A loc \in Locations \ {s.config} : t.dirs[loc] = s.dirs[loc]
    BY <1>1, SetDirFields, DirConstants
  <2> HIDE DEF t
  <2> QED BY <1>3, <2>1, <2>2, <2>3 DEF Current
<1> QED BY <1>2, <1>3

\* doctor passes a storage that is there, and has only looked then.
LEMMA DoctorLooks ==
    ASSUME NEW s, OKPC(s)
    PROVE  /\ inspect_v2_project(s).pc = ensure_v2_layout(s)
           /\ inspect_v2_project(s).ok => /\ inspect_v2_project(s).pc = s
                                          /\ healthy(Current(s)) /\ Current(s).meta
<1>1. inspect_v2_project(s).pc = ensure_v2_layout(s)
  BY DEF inspect_v2_project
<1>2. inspect_v2_project(s).ok = healthy(Current(ensure_v2_layout(s)))
  BY DEF inspect_v2_project
<1>3. ASSUME healthy(Current(ensure_v2_layout(s)))
      PROVE  Current(s) # NoDir
  <2>1. Current(ensure_v2_layout(s)).meta
    BY <1>3 DEF healthy
  <2>2. Current(ensure_v2_layout(s)) \in {Current(s), EmptyDir}
    BY KeepsLayout
  <2> QED BY <2>1, <2>2, DirConstants
<1> QED BY <1>1, <1>2, <1>3, KeepsLayout DEF healthy

\* What a later end of a command has copied is a directory without a lock of
\* its own.
LEMMA CopyFacts ==
    ASSUME NEW end \in Ends, NEW dir \in Dirs
    PROVE  /\ CopyOf(dir, end) \in Dirs /\ CopyOf(dir, end).lock \in {dir.lock, 0}
           /\ end.at # "copying" => CopyOf(dir, end) = dir
<1>1. CASE end.at # "copying"
  BY <1>1 DEF CopyOf
<1>2. CASE end.at = "copying"
  <2>1. end.copy \in PartialCopies
    BY <1>2 DEF Ends
  <2>2. PICK meta \in BOOLEAN : end.copy = [EmptyDir EXCEPT !.meta = meta]
    BY <2>1 DEF PartialCopies
  <2>3. end.copy \in Dirs /\ end.copy.lock = EmptyDir.lock
    BY <2>2, DirConstants DEF Dirs
  <2> QED BY <1>2, <2>3, DirConstants DEF CopyOf
<1> QED BY <1>1, <1>2

\* storage move, wherever it ends, keeps the edits and the locks, and the
\* directory that the configuration names is a storage afterwards if it was.
LEMMA MoveKeeps ==
    ASSUME NEW s, OKPC(s), NEW target \in Locations, NEW mode, NEW adopt_existing \in BOOLEAN,
           NEW force \in BOOLEAN, NEW end \in Ends
    PROVE  LET result == move_taskledger_storage(s, target, mode, adopt_existing, force, end)
           IN  Keeps(s, result.pc) /\ (Current(s).meta => Current(result.pc).meta)
<1> DEFINE source == s.config
           adopt == adopt_existing /\ s.dirs[target] # NoDir
           copied == IF adopt THEN s ELSE SetDir(s, target, CopyOf(s.dirs[source], end))
           configured == [copied EXCEPT !.config = target]
           doctor == inspect_v2_project(configured)
           result == move_taskledger_storage(s, target, mode, adopt_existing, force, end)
           refused == \/ source = target \/ s.dirs[source] = NoDir
                      \/ source # "local" /\ ~force
                      \/ s.dirs[target] # NoDir /\ ~(adopt_existing /\ s.dirs[target].meta)
<1>1. result = IF refused THEN Failed(s)
               ELSE IF end.at \in {"copying", "copied"} THEN Failed(copied)
               ELSE IF end.at = "configured" THEN Failed(configured)
               ELSE IF ~doctor.ok THEN Failed([doctor.pc EXCEPT !.config = source])
               ELSE Done(IF mode = "move" THEN Backup(doctor.pc, source) ELSE doctor.pc)
  BY DEF move_taskledger_storage
<1>2. s \in PCRecord /\ source \in Locations /\ Current(s) = s.dirs[source] /\ Current(s) \in Dirs
  BY PCFields DEF OKPC, Current
<1>3. CASE refused
  BY <1>1, <1>3, KeepsSelf, ResultFields
<1>4. CASE ~refused
  <2>1. source # target /\ (s.dirs[target] = NoDir \/ (adopt /\ s.dirs[target].meta))
    BY <1>4
  <2>2. /\ Keeps(s, copied) /\ copied.config = source /\ copied.dirs[source] = s.dirs[source]
        /\ end.at # "copying" /\ Current(s).meta => copied.dirs[target].meta
    <3>1. CASE adopt
      BY <2>1, <3>1, KeepsSelf
    <3>2. CASE ~adopt
      <4> DEFINE dir == CopyOf(s.dirs[source], end)
      <4>1. dir \in Dirs /\ dir.lock \in {s.dirs[source].lock, 0} /\ (end.at # "copying" => dir = s.dirs[source])
        BY <1>2, CopyFacts
      <4> HIDE DEF dir
      <4>2. s.dirs[target].edits \subseteq dir.edits /\ dir.lock \in Locks(s) \cup {0}
        BY <1>2, <2>1, <3>2, <4>1, DirConstants DEF Locks
      <4>3. Keeps(s, SetDir(s, target, dir))
        BY <4>1, <4>2, KeepsSetDir DEF Free
      <4>4. /\ SetDir(s, target, dir).config = source
            /\ SetDir(s, target, dir).dirs[source] = s.dirs[source]
            /\ SetDir(s, target, dir).dirs[target] = dir
        BY <1>2, <2>1, <4>1, SetDirFields
      <4>5. copied = SetDir(s, target, dir)
        BY <3>2 DEF dir
      <4> HIDE DEF copied
      <4> QED BY <1>2, <4>1, <4>3, <4>4, <4>5
    <3> QED BY <3>1, <3>2
  <2> HIDE DEF copied
  <2>3. OKPC(copied) /\ copied \in PCRecord
    BY <2>2 DEF Keeps, OKPC
  <2>4. /\ configured \in PCRecord /\ configured.config = target /\ configured.dirs = copied.dirs
        /\ configured.backups = copied.backups
        /\ configured.git = copied.git /\ configured.head = copied.head
    BY <2>3, ConfigFields
  <2> HIDE DEF configured
  <2>5. Keeps(copied, configured)
    BY <2>3, <2>4, KeepsSame
  <2>6. Keeps(s, configured) /\ OKPC(configured)
    BY <2>2, <2>5, KeepsChain DEF Keeps
  <2>7. Current(copied) = Current(s) /\ Current(configured) = copied.dirs[target]
    BY <1>2, <2>2, <2>4 DEF Current
  <2> DEFINE t == ensure_v2_layout(configured)
  <2>8. /\ doctor.pc = t /\ Keeps(configured, t) /\ t.config = target
        /\ t.dirs[source] = configured.dirs[source]
        /\ doctor.ok => t = configured /\ Current(configured).meta
    BY <1>2, <2>1, <2>4, <2>6, KeepsLayout, DoctorLooks
  <2> HIDE DEF doctor, t
  <2>9. Keeps(s, t) /\ OKPC(t) /\ t \in PCRecord
    BY <2>6, <2>8, KeepsChain DEF Keeps, OKPC
  <2>10. CASE end.at \in {"copying", "copied"}
    BY <1>1, <1>4, <2>2, <2>7, <2>10, ResultFields
  <2>11. CASE end.at = "configured"
    BY <1>1, <1>4, <2>2, <2>6, <2>7, <2>11, ResultFields
  <2>12. CASE end.at \notin {"copying", "copied", "configured"} /\ ~doctor.ok
    <3> DEFINE u == [t EXCEPT !.config = source]
    <3>1. /\ u \in PCRecord /\ u.config = source /\ u.dirs = t.dirs /\ u.backups = t.backups
          /\ u.git = t.git /\ u.head = t.head
      BY <1>2, <2>9, ConfigFields
    <3>2. result = Failed(u)
      BY <1>1, <1>4, <2>8, <2>12
    <3> HIDE DEF u
    <3>3. Keeps(t, u)
      BY <2>9, <3>1, KeepsSame
    <3>4. Keeps(s, u)
      BY <2>9, <3>3, KeepsChain
    <3>5. Current(u) = Current(s)
      BY <1>2, <2>2, <2>4, <2>8, <3>1 DEF Current
    <3> QED BY <3>2, <3>4, <3>5, ResultFields
  <2>13. CASE end.at \notin {"copying", "copied", "configured"} /\ doctor.ok
    <3>1. Current(t).meta /\ Current(t) = t.dirs[target]
      BY <2>8, <2>13 DEF Current
    <3>2. CASE mode = "move"
      <4>1. result.pc = Backup(t, source)
        BY <1>1, <1>4, <2>8, <2>13, <3>2, ResultFields
      <4>2. Keeps(s, Backup(t, source))
        BY <1>2, <2>9, KeepsBackup, KeepsChain
      <4>3. Current(Backup(t, source)) = t.dirs[target]
        BY <1>2, <2>1, <2>8, <2>9, BackupFields DEF Current
      <4> QED BY <3>1, <4>1, <4>2, <4>3
    <3>3. CASE mode # "move"
      BY <1>1, <1>4, <2>8, <2>9, <2>13, <3>1, <3>3, ResultFields
    <3> QED BY <3>2, <3>3
  <2> QED BY <2>10, <2>11, <2>12, <2>13
<1> QED BY <1>3, <1>4

-----------------------------------------------------------------------------
(* The repository *)

\* The last commit of a history, if there is one.
LEMMA LastDirFacts ==
    ASSUME NEW h \in Seq(Commit)
    PROVE  /\ LastDir(h) \in Dirs
           /\ h # <<>> => Len(h) \in DOMAIN h /\ LastDir(h) = h[Len(h)].dir
<1>1. CASE h = <<>>
  BY <1>1, DirConstants DEF LastDir
<1>2. CASE h # <<>>
  <2>1. Len(h) \in DOMAIN h /\ Len(h) \in 1..Len(h)
    BY <1>2, EmptySeq, LenProperties
  <2>2. h[Len(h)] \in Commit
    BY <2>1, ElementOfSeq
  <2>3. LastDir(h) = h[Len(h)].dir
    BY <1>2 DEF LastDir, Last
  <2> QED BY <2>1, <2>2, <2>3 DEF Commit
<1> QED BY <1>1, <1>2

\* A longer history has the commits of the one it extends.
LEMMA PrefixKeeps ==
    ASSUME NEW g \in Seq(Commit), NEW h \in Seq(Commit), IsPrefix(g, h), NEW k \in DOMAIN g
    PROVE  k \in DOMAIN h /\ h[k] = g[k]
<1>1. Len(g) <= Len(h) /\ SubSeq(g, 1, Len(g)) = SubSeq(h, 1, Len(g))
  BY DEF IsPrefix
<1>2. Len(g) \in Nat /\ Len(h) \in Nat /\ DOMAIN g = 1..Len(g) /\ DOMAIN h = 1..Len(h)
  BY LenProperties
<1>3. k \in 1..Len(g) /\ k \in 1..Len(h)
  BY <1>1, <1>2
<1>4. SubSeq(g, 1, Len(g))[k] = g[k] /\ SubSeq(h, 1, Len(g))[k] = h[k]
  BY <1>1, <1>2, <1>3
<1> QED BY <1>1, <1>2, <1>3, <1>4

\* A hook is a matter of its own.
LEMMA HookFields ==
    ASSUME NEW s \in PCRecord, NEW hook \in {"none", "managed", "other", "foreign"}
    PROVE  LET t == [s EXCEPT !.hook = hook]
           IN  t \in PCRecord /\ t.git = s.git /\ t.head = s.head /\ t.config = s.config
               /\ t.dirs = s.dirs /\ t.backups = s.backups
BY DEF PCRecord

\* What the proofs below take from the invariant about the server.
RemoteFacts ==
    /\ remote \in Seq(Commit)
    /\ remote # <<>> => LastDir(remote).meta \/ PushedWithoutStorage
    /\ allowed \/ (remote # <<>> => LastDir(remote).lock \in Free)

\* Making or cloning the repository keeps what there is.
LEMMA RepoKeeps ==
    ASSUME NEW s, OKPC(s), NEW remote_url \in BOOLEAN, RemoteFacts
    PROVE  LET repo == ensure_git_repo(s, remote_url)
           IN  /\ Keeps(s, repo.pc) /\ repo.pc.config = s.config
               /\ repo.pc.dirs["local"] = s.dirs["local"]
               /\ s.dirs["repo"] # NoDir => repo.pc.dirs["repo"] = s.dirs["repo"]
<1> DEFINE repo == ensure_git_repo(s, remote_url)
<1>0. s \in PCRecord /\ s.git \in BOOLEAN /\ s.config \in Locations /\ "repo" \in Locations /\ "local" \in Locations
  BY PCFields DEF OKPC, Locations
<1>1. CASE repo = Done(s) \/ repo = Failed(s)
  BY <1>1, KeepsSelf, ResultFields
<1>2. CASE /\ ~s.git /\ s.dirs["repo"] = NoDir /\ remote # <<>>
           /\ repo = Done([SetDir(s, "repo", LastDir(remote)) EXCEPT !.git = TRUE, !.head = remote])
  <2> DEFINE d == SetDir(s, "repo", LastDir(remote))
             t == [d EXCEPT !.git = TRUE, !.head = remote]
  <2>0. ~s.git /\ s.dirs["repo"] = NoDir /\ remote # <<>>
    BY <1>2
  <2>1. LastDir(remote) \in Dirs /\ remote \in Seq(Commit) /\ s.head = <<>>
    <3>1. remote \in Seq(Commit)
      BY DEF RemoteFacts
    <3>2. LastDir(remote) \in Dirs
      BY <3>1, LastDirFacts
    <3>3. s.head = <<>>
      BY <2>0 DEF OKPC
    <3> QED BY <3>1, <3>2, <3>3
  <2>2. /\ d \in PCRecord /\ d.dirs["local"] = s.dirs["local"] /\ d.config = s.config /\ d.head = s.head
    BY <1>0, <2>1, SetDirFields DEF Locations
  <2>3. Keeps(s, d)
    <3>1. allowed \/ LastDir(remote).lock \in Free
      BY <1>2 DEF RemoteFacts
    <3> QED BY <1>0, <1>2, <2>1, <3>1, KeepsSetDir, DirConstants
  <2> HIDE DEF d
  <2>4. /\ t \in PCRecord /\ t.git = TRUE /\ t.head = remote /\ t.config = d.config
        /\ t.dirs = d.dirs /\ t.backups = d.backups
    <3>1. \A g \in BOOLEAN : LET u == [d EXCEPT !.git = g, !.head = remote]
             IN  u \in PCRecord /\ u.git = g /\ u.head = remote /\ u.config = d.config
                  /\ u.dirs = d.dirs /\ u.backups = d.backups
      BY <2>1, <2>2 DEF PCRecord
    <3> QED BY <3>1, Zenon
  <2>5. repo = Done(t)
    BY <1>2 DEF d
  <2> HIDE DEF t
  <2>6. Keeps(d, t)
    <3>1. OKPC(t) /\ t.git
      BY <2>4 DEF OKPC
    <3>2. \A e : Has(d, e) => Has(t, e)
      BY <2>1, <2>2, <2>4 DEF Has
    <3>3. Locks(t) = Locks(d)
      BY <2>4 DEF Locks
    <3> QED BY <3>1, <3>2, <3>3 DEF Keeps
  <2>7. Keeps(s, t)
    BY <2>3, <2>6, KeepsChain
  <2> QED BY <1>2, <2>2, <2>4, <2>5, <2>7, ResultFields
<1>3. CASE ~s.git /\ repo = Done([s EXCEPT !.git = TRUE, !.outside = TRUE])
  <2> DEFINE t == [s EXCEPT !.git = TRUE, !.outside = TRUE]
  <2>1. /\ t \in PCRecord /\ t.git = TRUE /\ t.head = s.head /\ t.config = s.config
        /\ t.dirs = s.dirs /\ t.backups = s.backups
    <3>1. \A g, o \in BOOLEAN : LET u == [s EXCEPT !.git = g, !.outside = o]
              IN  u \in PCRecord /\ u.git = g /\ u.head = s.head /\ u.config = s.config
                  /\ u.dirs = s.dirs /\ u.backups = s.backups
      BY <1>0 DEF PCRecord
    <3> QED BY <3>1, Zenon
  <2>2. repo = Done(t)
    BY <1>3
  <2> HIDE DEF t
  <2>3. Keeps(s, t)
    BY <2>1, KeepsSame
  <2> QED BY <2>1, <2>2, <2>3, ResultFields
<1>4. \/ repo = Done(s) \/ repo = Failed(s)
      \/ /\ ~s.git /\ s.dirs["repo"] = NoDir /\ remote # <<>>
         /\ repo = Done([SetDir(s, "repo", LastDir(remote)) EXCEPT !.git = TRUE, !.head = remote])
      \/ ~s.git /\ repo = Done([s EXCEPT !.git = TRUE, !.outside = TRUE])
  BY <1>0 DEF ensure_git_repo
<1> QED BY <1>1, <1>2, <1>3, <1>4

\* What git pull makes of two storages, of which the server's is sound, is a
\* storage if mine was, with my new edits, and my lock or none.
LEMMA MergedFacts ==
    ASSUME NEW base \in Dirs, NEW mine \in Dirs, NEW theirs \in Dirs,
           \A f \in {"meta", "lock", "sound"} : Merges(base[f], mine[f], theirs[f])
    PROVE  LET m == MergedDir(base, mine, theirs)
           IN  /\ m \in Dirs
               /\ \A e \in mine.edits : e \in m.edits \/ e \in base.edits
               /\ m.lock \in {mine.lock, theirs.lock}
               /\ mine.meta /\ theirs.meta => m.meta
<1> DEFINE m == MergedDir(base, mine, theirs)
<1>1. m.edits = theirs.edits \cup (mine.edits \ base.edits)
  BY DEF MergedDir
<1>2. m.lock \in {mine.lock, theirs.lock}
  BY DEF MergedDir, Merge
<1>3. m.meta = Merge(base.meta, mine.meta, theirs.meta)
  BY DEF MergedDir
<1>4. \A e \in mine.edits : e \in m.edits \/ e \in base.edits
  BY <1>1
<1>5. mine.meta /\ theirs.meta => m.meta
  BY <1>3 DEF Merge
<1>6. m \in Dirs
  <2>1. base.meta \in BOOLEAN /\ mine.meta \in BOOLEAN /\ theirs.meta \in BOOLEAN
        /\ base.sound \in BOOLEAN /\ mine.sound \in BOOLEAN /\ theirs.sound \in BOOLEAN
    BY DEF Dirs
  <2>2. Merge(base.meta, mine.meta, theirs.meta) \in BOOLEAN /\ Merge(base.sound, mine.sound, theirs.sound) \in BOOLEAN
    BY <2>1 DEF Merge
  <2>3. Merge(base.lock, mine.lock, theirs.lock) \in 0..MaxEdits
    BY DEF Merge, Dirs
  <2>4. theirs.edits \cup (mine.edits \ base.edits) \subseteq Edits
    BY DEF Dirs
  <2> QED BY <2>2, <2>3, <2>4 DEF MergedDir, Dirs
<1> QED BY <1>2, <1>4, <1>5, <1>6

\* A pull keeps the edits: those it replaces are in the history.
LEMMA PullKeeps ==
    ASSUME NEW s, OKPC(s), RemoteFacts
    PROVE  LET pulled == git_pull_ff_only(s)
           IN  /\ Keeps(s, pulled.pc) /\ pulled.pc.config = s.config
               /\ Current(s).meta => Current(pulled.pc).meta \/ PushedWithoutStorage
<1> DEFINE pulled == git_pull_ff_only(s)
           base == LastDir(s.head)
           mine == s.dirs["repo"]
           theirs == LastDir(remote)
           m == MergedDir(base, mine, theirs)
           d == SetDir(s, "repo", m)
           t == [d EXCEPT !.head = remote]
<1>0. /\ s \in PCRecord /\ s.git \in BOOLEAN /\ s.config \in Locations /\ s.head \in Seq(Commit)
      /\ "repo" \in Locations /\ "local" \in Locations /\ mine \in Dirs
  BY PCFields DEF OKPC, Locations
<1>1. CASE pulled = Done(s) \/ pulled = Failed(s)
  BY <1>1, KeepsSelf, ResultFields
<1>2. CASE /\ s.git /\ remote # <<>> /\ IsPrefix(s.head, remote)
           /\ \A f \in {"meta", "lock", "sound"} : Merges(base[f], mine[f], theirs[f])
           /\ pulled = Done(t)
  <2>1. remote \in Seq(Commit) /\ base \in Dirs /\ theirs \in Dirs
        /\ (theirs.meta \/ PushedWithoutStorage)
    <3>1. remote \in Seq(Commit)
      BY DEF RemoteFacts
    <3>2. base \in Dirs /\ theirs \in Dirs
      BY <1>0, <3>1, LastDirFacts
    <3>3. theirs.meta \/ PushedWithoutStorage
      BY <1>2 DEF RemoteFacts
    <3> QED BY <3>1, <3>2, <3>3
  <2>2. /\ m \in Dirs /\ \A e \in mine.edits : e \in m.edits \/ e \in base.edits
        /\ m.lock \in {mine.lock, theirs.lock} /\ (mine.meta => m.meta \/ PushedWithoutStorage)
    BY <1>0, <1>2, <2>1, MergedFacts
  <2>3. allowed \/ theirs.lock \in Free
    BY <1>2 DEF RemoteFacts
  <2>4. ASSUME NEW e \in base.edits PROVE \E k \in DOMAIN remote : e \in remote[k].dir.edits
    <3>1. s.head # <<>>
      BY <2>4, DirConstants DEF LastDir
    <3>2. Len(s.head) \in DOMAIN s.head /\ base = s.head[Len(s.head)].dir
      BY <1>0, <3>1, LastDirFacts
    <3>3. Len(s.head) \in DOMAIN remote /\ remote[Len(s.head)] = s.head[Len(s.head)]
      BY <1>0, <1>2, <2>1, <3>2, PrefixKeeps
    <3>4. e \in remote[Len(s.head)].dir.edits
      BY <2>4, <3>2, <3>3
    <3> QED BY <3>3, <3>4
  <2> HIDE DEF base, theirs, m
  <2>5. /\ d \in PCRecord /\ d.dirs["repo"] = m /\ d.dirs["local"] = s.dirs["local"]
        /\ d.config = s.config /\ d.backups = s.backups /\ d.git = s.git
    BY <1>0, <2>2, SetDirFields DEF Locations
  <2> HIDE DEF d
  <2>6. /\ t \in PCRecord /\ t.head = remote /\ t.git = d.git /\ t.config = d.config
        /\ t.dirs = d.dirs /\ t.backups = d.backups
    BY <2>1, <2>5 DEF PCRecord
  <2>7. pulled.pc = t
    BY <1>2, ResultFields
  <2> HIDE DEF t
  <2>8. OKPC(t) /\ t.git
    BY <1>2, <2>5, <2>6 DEF OKPC
  <2>9. ASSUME NEW e, Has(s, e) PROVE Has(t, e)
    <3>1. CASE e \in mine.edits
      <4>1. e \in m.edits \/ e \in base.edits
        BY <2>2, <3>1
      <4>2. CASE e \in m.edits
        BY <1>0, <2>5, <2>6, <4>2 DEF Has
      <4>3. CASE e \in base.edits
        BY <2>4, <2>6, <4>3 DEF Has
      <4> QED BY <4>1, <4>2, <4>3
    <3>2. CASE e \in s.dirs["local"].edits
      BY <1>0, <2>5, <2>6, <3>2 DEF Has
    <3>3. CASE e \in s.backups
      BY <2>5, <2>6, <3>3 DEF Has
    <3>4. CASE \E k \in DOMAIN s.head : e \in s.head[k].dir.edits
      <4>1. PICK k \in DOMAIN s.head : e \in s.head[k].dir.edits
        BY <3>4
      <4>2. k \in DOMAIN remote /\ remote[k] = s.head[k]
        BY <1>0, <1>2, <2>1, PrefixKeeps
      <4> QED BY <2>6, <4>1, <4>2 DEF Has
    <3> QED BY <2>9, <3>1, <3>2, <3>3, <3>4 DEF Has, Locations
  <2>10. allowed \/ Locks(t) \subseteq Locks(s) \cup Free
    BY <1>0, <2>2, <2>3, <2>5, <2>6 DEF Locks, Locations
  <2>11. Current(s).meta => Current(t).meta \/ PushedWithoutStorage
    BY <1>0, <2>2, <2>5, <2>6 DEF Current, Locations
  <2> QED BY <2>5, <2>6, <2>7, <2>8, <2>9, <2>10, <2>11 DEF Keeps
<1>3. \/ pulled = Done(s) \/ pulled = Failed(s)
      \/ /\ s.git /\ remote # <<>> /\ IsPrefix(s.head, remote)
         /\ \A f \in {"meta", "lock", "sound"} : Merges(base[f], mine[f], theirs[f])
         /\ pulled = Done(t)
  BY <1>0 DEF git_pull_ff_only
<1> QED BY <1>1, <1>2, <1>3

\* Pointing the workspace at the repository's storage.
LEMMA ImportKeeps ==
    ASSUME NEW s, OKPC(s)
    PROVE  LET result == git_sync_import_local(s)
           IN  /\ Keeps(s, result.pc)
               /\ Current(s).meta \/ result.ok => Current(result.pc).meta
<1> DEFINE t == [s EXCEPT !.config = "repo"]
           u == [t EXCEPT !.config = s.config]
           result == git_sync_import_local(s)
           doctor == inspect_v2_project(t)
<1>0. s \in PCRecord /\ "repo" \in Locations /\ s.config \in Locations
  BY PCFields DEF OKPC, Locations
<1>1. /\ t \in PCRecord /\ t.config = "repo" /\ t.dirs = s.dirs /\ t.backups = s.backups
      /\ t.git = s.git /\ t.head = s.head
  BY <1>0, ConfigFields
<1>2. result = IF ~s.dirs["repo"].meta THEN Failed(s)
               ELSE IF doctor.ok THEN doctor ELSE Failed([doctor.pc EXCEPT !.config = s.config])
  BY DEF git_sync_import_local
<1> HIDE DEF t
<1>3. Keeps(s, t) /\ OKPC(t)
  BY <1>1, KeepsSame DEF Keeps
<1>4. CASE ~s.dirs["repo"].meta
  BY <1>2, <1>4, KeepsSelf, ResultFields
<1>5. CASE s.dirs["repo"].meta
  <2>1. Current(t) # NoDir /\ Current(t).meta
    BY <1>1, <1>5, DirConstants DEF Current
  <2>2. doctor.pc = t
    BY <1>3, <2>1, DoctorLooks, KeepsLayout
  <2> HIDE DEF doctor
  <2>3. CASE doctor.ok
    BY <1>2, <1>3, <1>5, <2>1, <2>2, <2>3
  <2>4. CASE ~doctor.ok
    <3>1. /\ u \in PCRecord /\ u.config = s.config /\ u.dirs = t.dirs /\ u.backups = t.backups
          /\ u.git = t.git /\ u.head = t.head
      BY <1>0, <1>1, ConfigFields
    <3>2. result = Failed(u)
      BY <1>2, <1>5, <2>2, <2>4
    <3> HIDE DEF u
    <3>3. Keeps(s, u)
      BY <1>1, <3>1, KeepsSame
    <3>4. Current(u) = Current(s)
      BY <1>1, <3>1 DEF Current
    <3> QED BY <3>2, <3>3, <3>4, ResultFields
  <2> QED BY <2>3, <2>4
<1> QED BY <1>4, <1>5

\* sync git pull is a pull and an import.
LEMMA SyncPullKeeps ==
    ASSUME NEW s, OKPC(s), RemoteFacts, NEW allow_dirty \in BOOLEAN
    PROVE  LET result == git_sync_pull(s, allow_dirty)
           IN  /\ Keeps(s, result.pc)
               /\ Current(s).meta => Current(result.pc).meta \/ PushedWithoutStorage
<1> DEFINE pulled == git_pull_ff_only(s)
           result == git_sync_pull(s, allow_dirty)
<1>1. Keeps(s, pulled.pc) /\ (Current(s).meta => Current(pulled.pc).meta \/ PushedWithoutStorage)
  BY PullKeeps
<1>2. result = Failed(s) \/ result = git_sync_import_local(pulled.pc)
  BY DEF git_sync_pull
<1>3. OKPC(pulled.pc)
  BY <1>1 DEF Keeps
<1>4. CASE result = Failed(s)
  BY <1>4, KeepsSelf, ResultFields
<1>5. CASE result = git_sync_import_local(pulled.pc)
  <2>1. /\ Keeps(pulled.pc, result.pc)
        /\ Current(pulled.pc).meta \/ result.ok => Current(result.pc).meta
    BY <1>3, <1>5, ImportKeeps
  <2> QED BY <1>1, <2>1, KeepsChain
<1> QED BY <1>2, <1>4, <1>5

\* A commit adds the storage of the repository to the history.
LEMMA CommitKeeps ==
    ASSUME NEW p \in PCs, NEW s, OKPC(s), s.git, NEW include_outside \in BOOLEAN,
           Bounded(git_commit(p, s, include_outside))
    PROVE  LET t == git_commit(p, s, include_outside)
           IN  /\ Keeps(s, t) /\ Current(t) = Current(s) /\ t.dirs = s.dirs
               /\ t.head # <<>> /\ LastDir(t.head) = s.dirs["repo"]
<1> DEFINE c == [by |-> p, n |-> Len(s.head) + 1, dir |-> s.dirs["repo"]]
           o == s.outside /\ ~include_outside
           h == Append(s.head, c)
           t == git_commit(p, s, include_outside)
<1>1. /\ s \in PCRecord /\ s.head \in Seq(Commit) /\ s.dirs["repo"] \in Dirs
  BY PCFields DEF OKPC, Locations
<1>2. t = [s EXCEPT !.head = h, !.outside = o]
  BY DEF git_commit
<1>3. o \in BOOLEAN
  OBVIOUS
<1> HIDE DEF o, c, h
<1>4. t.head = h /\ t.dirs = s.dirs /\ t.config = s.config /\ t.backups = s.backups /\ t.git = s.git
  BY <1>1, <1>2 DEF PCRecord
<1>5. Len(s.head) \in Nat /\ Len(h) <= MaxCommits /\ Len(h) = Len(s.head) + 1
  <2>1. Len(h) <= MaxCommits
    BY <1>4 DEF Bounded
  <2> QED BY <1>1, <2>1, LenProperties DEF h
<1>6. c \in Commit
  BY <1>1, <1>5, SyncAssumption DEF Commit, c
<1>7. /\ h \in Seq(Commit) /\ h # <<>> /\ h[Len(h)] = c
      /\ \A k \in DOMAIN s.head : k \in DOMAIN h /\ h[k] = s.head[k]
  BY <1>1, <1>5, <1>6, AppendProperties DEF h
<1>8. t \in PCRecord
  BY <1>1, <1>2, <1>3, <1>7 DEF PCRecord
<1>9. LastDir(h) = s.dirs["repo"]
  <2>1. c.dir = s.dirs["repo"]
    BY DEF c
  <2> QED BY <1>7, <2>1, LastDirFacts
<1>10. Current(t) = Current(s)
  BY <1>4 DEF Current
<1> HIDE DEF t
<1>11. Keeps(s, t)
  <2>1. OKPC(t) /\ t.git
    BY <1>4, <1>8 DEF OKPC
  <2>2. \A e : Has(s, e) => Has(t, e)
    BY <1>4, <1>7 DEF Has
  <2>3. Locks(t) = Locks(s)
    BY <1>4 DEF Locks
  <2> QED BY <2>1, <2>2, <2>3 DEF Keeps
<1> QED BY <1>4, <1>7, <1>9, <1>10, <1>11 DEF t

\* What sync git commit leaves as the last commit is the storage of the
\* repository, whether there was something to commit or not.
LEMMA SyncCommitKeeps ==
    ASSUME NEW p \in PCs, NEW s, OKPC(s), s.git, NEW include_outside \in BOOLEAN,
           Bounded(git_sync_commit(p, s, include_outside))
    PROVE  LET t == git_sync_commit(p, s, include_outside)
           IN  /\ Keeps(s, t) /\ Current(t) = Current(s)
               /\ LastDir(t.head) = s.dirs["repo"]
<1> DEFINE dirty == project_dirty(s) \/ (include_outside /\ s.outside)
<1>1. CASE dirty
  <2>1. git_sync_commit(p, s, include_outside) = git_commit(p, s, include_outside)
    BY <1>1 DEF git_sync_commit
  <2> QED BY <2>1, CommitKeeps
<1>2. CASE ~dirty
  <2>1. git_sync_commit(p, s, include_outside) = s
    BY <1>2 DEF git_sync_commit
  <2>2. LastDir(s.head) = s.dirs["repo"]
    BY <1>2 DEF project_dirty
  <2> QED BY <2>1, <2>2, KeepsSelf
<1> QED BY <1>1, <1>2

\* What the checks let pass is sound, and has no lock unless locks are allowed.
LEMMA ChecksFacts ==
    ASSUME NEW s, OKPC(s), NEW allow_active_locks, git_sync_commit_checks(s, allow_active_locks)
    PROVE  /\ s.git /\ Current(s) = s.dirs["repo"] /\ healthy(s.dirs["repo"])
           /\ s.dirs["repo"].lock = 0 \/ (allow_active_locks /\ Current(s).lock # 0)
<1>1. s.config = "repo" /\ inspect_v2_project(s).ok /\ (Current(s).lock = 0 \/ allow_active_locks) /\ s.git
  BY DEF git_sync_commit_checks
<1>2. Current(s) = s.dirs["repo"]
  BY <1>1 DEF Current
<1>3. healthy(Current(s))
  BY <1>1, DoctorLooks
<1> QED BY <1>1, <1>2, <1>3

\* Installing hooks touches nothing else.
LEMMA HooksKeep ==
    ASSUME NEW s, OKPC(s), NEW force \in BOOLEAN
    PROVE  /\ Keeps(s, install_git_hooks(s, force).pc)
           /\ Current(install_git_hooks(s, force).pc) = Current(s)
           /\ Keeps(s, uninstall_git_hooks(s).pc)
           /\ Current(uninstall_git_hooks(s).pc) = Current(s)
<1>1. s \in PCRecord /\ s.hook \in {"none", "managed", "other", "foreign"}
  BY DEF OKPC, PCRecord
<1>2. ASSUME NEW hook \in {"none", "managed", "other", "foreign"}
      PROVE  Keeps(s, [s EXCEPT !.hook = hook]) /\ Current([s EXCEPT !.hook = hook]) = Current(s)
  <2> DEFINE t == [s EXCEPT !.hook = hook]
  <2>1. /\ t \in PCRecord /\ t.git = s.git /\ t.head = s.head /\ t.config = s.config
        /\ t.dirs = s.dirs /\ t.backups = s.backups
    BY <1>1, HookFields
  <2> HIDE DEF t
  <2>2. Keeps(s, t) /\ Current(t) = Current(s)
    BY <2>1, KeepsSame DEF Current
  <2> QED BY <2>2 DEF t
<1>3. \/ install_git_hooks(s, force).pc = s
      \/ \E hook \in {"none", "managed", "other", "foreign"} :
            install_git_hooks(s, force).pc = [s EXCEPT !.hook = hook]
  BY <1>1, ResultFields DEF install_git_hooks
<1>4. \E hook \in {"none", "managed", "other", "foreign"} :
         uninstall_git_hooks(s).pc = [s EXCEPT !.hook = hook]
  BY <1>1, ResultFields DEF uninstall_git_hooks
<1> QED BY <1>2, <1>3, <1>4, KeepsSelf

\* sync git init keeps the edits and the locks wherever it ends.  Only in
\* move mode, when it fails, can the configuration be left without a storage.
LEMMA InitRepoKeeps ==
    ASSUME NEW s, OKPC(s), RemoteFacts, NEW remote_url \in BOOLEAN, NEW adopt_existing \in BOOLEAN,
           NEW mode, NEW hooks, NEW end \in Ends
    PROVE  LET result == init_git_sync_repo(s, remote_url, adopt_existing, mode, hooks, end)
           IN  /\ Keeps(s, result.pc)
               /\ Current(s).meta => \/ Current(result.pc).meta
                                     \/ mode = "move" /\ ~result.ok /\ Current(result.pc) = NoDir
<1> DEFINE repo == ensure_git_repo(s, remote_url)
           r == repo.pc
           target == r.dirs["repo"]
           fill == target = NoDir /\ s.config # "repo"
           copied == IF fill THEN SetDir(r, "repo", CopyOf(Current(s), end)) ELSE r
           moved == IF fill /\ mode = "move" THEN Backup(copied, s.config) ELSE copied
           configured == [moved EXCEPT !.config = "repo"]
           doctor == inspect_v2_project(configured)
           result == init_git_sync_repo(s, remote_url, adopt_existing, mode, hooks, end)
           refused == \/ ~repo.ok
                      \/ target.meta /\ ~adopt_existing /\ s.config # "repo"
                      \/ target # NoDir /\ ~target.meta
                      \/ fill /\ Current(s) = NoDir
<1>1. result = IF refused THEN Failed(r)
               ELSE IF end.at \in {"copying", "copied"} THEN Failed(copied)
               ELSE IF end.at = "moved" THEN Failed(moved)
               ELSE IF end.at = "configured" THEN Failed(configured)
               ELSE IF ~doctor.ok THEN Failed([doctor.pc EXCEPT !.config = s.config])
               ELSE IF hooks # "no" THEN install_git_hooks(doctor.pc, hooks = "force") ELSE Done(doctor.pc)
  BY DEF init_git_sync_repo
<1>2. /\ s \in PCRecord /\ s.config \in Locations /\ Current(s) = s.dirs[s.config] /\ Current(s) \in Dirs
      /\ "repo" \in Locations /\ "local" \in Locations /\ (s.config # "repo" => s.config = "local")
  BY PCFields DEF OKPC, Current, Locations
<1>3. /\ Keeps(s, r) /\ OKPC(r) /\ r \in PCRecord /\ r.config = s.config
      /\ r.dirs["local"] = s.dirs["local"]
      /\ s.dirs["repo"] # NoDir => r.dirs["repo"] = s.dirs["repo"]
  BY RepoKeeps DEF Keeps, OKPC
<1> HIDE DEF r
<1>4. Current(s).meta => Current(r) = Current(s)
  BY <1>2, <1>3, DirConstants DEF Current
<1>5. CASE refused
  <2>1. result.pc = r
    BY <1>1, <1>5, ResultFields
  <2> QED BY <1>3, <1>4, <2>1
<1>6. CASE ~refused
  <2>1. (target # NoDir => target.meta) /\ (fill => Current(s) # NoDir)
    BY <1>6
  <2>2. /\ Keeps(s, copied) /\ copied.config = s.config
        /\ Current(s).meta => Current(copied) = Current(s)
        /\ end.at # "copying" /\ Current(s).meta => copied.dirs["repo"].meta
    <3>1. CASE ~fill
      <4>1. copied = r
        BY <3>1
      <4>2. Current(s).meta => r.dirs["repo"].meta
        BY <1>2, <1>3, <1>4, <2>1, <3>1 DEF Current
      <4> QED BY <1>3, <1>4, <4>1, <4>2
    <3>2. CASE fill
      <4> DEFINE dir == CopyOf(Current(s), end)
      <4>1. /\ dir \in Dirs /\ dir.lock \in {Current(s).lock, 0}
            /\ end.at # "copying" => dir = Current(s)
        BY <1>2, CopyFacts
      <4>2. copied = SetDir(r, "repo", dir)
        BY <3>2
      <4> HIDE DEF dir, copied
      <4>3. s.config = "local" /\ r.dirs["repo"] = NoDir /\ Current(s) = s.dirs["local"]
        BY <1>2, <3>2
      <4>4. dir.lock \in Locks(r) \cup {0} /\ r.dirs["repo"].edits \subseteq dir.edits
        BY <1>2, <1>3, <4>1, <4>3, DirConstants DEF Locks
      <4>5. Keeps(r, SetDir(r, "repo", dir))
        BY <1>2, <1>3, <4>1, <4>4, KeepsSetDir DEF Free
      <4>6. /\ SetDir(r, "repo", dir).config = s.config
            /\ SetDir(r, "repo", dir).dirs["local"] = s.dirs["local"]
            /\ SetDir(r, "repo", dir).dirs["repo"] = dir
        BY <1>2, <1>3, <4>1, SetDirFields DEF Locations
      <4>7. Current(copied) = Current(s)
        BY <4>2, <4>3, <4>6 DEF Current
      <4>8. Keeps(s, copied)
        BY <1>3, <4>2, <4>5, KeepsChain
      <4> QED BY <4>1, <4>2, <4>6, <4>7, <4>8
    <3> QED BY <3>1, <3>2
  <2> HIDE DEF copied
  <2>3. OKPC(copied) /\ copied \in PCRecord
    BY <2>2 DEF Keeps, OKPC
  <2>4. /\ Keeps(s, moved) /\ moved.config = s.config /\ moved.dirs["repo"] = copied.dirs["repo"]
        /\ Current(s).meta => Current(moved) = Current(s) \/ (mode = "move" /\ fill /\ Current(moved) = NoDir)
    <3>1. CASE fill /\ mode = "move"
      <4>1. moved = Backup(copied, s.config)
        BY <3>1
      <4>2. Keeps(copied, Backup(copied, s.config))
        BY <1>2, <2>3, KeepsBackup
      <4>3. /\ Backup(copied, s.config).config = s.config
            /\ Backup(copied, s.config).dirs[s.config] = NoDir
            /\ Backup(copied, s.config).dirs["repo"] = copied.dirs["repo"]
        BY <1>2, <2>2, <2>3, <3>1, BackupFields
      <4> HIDE DEF moved
      <4>4. Keeps(s, moved)
        BY <2>2, <4>1, <4>2, KeepsChain
      <4> QED BY <3>1, <4>1, <4>3, <4>4 DEF Current
    <3>2. CASE ~(fill /\ mode = "move")
      <4>1. moved = copied
        BY <3>2
      <4> QED BY <2>2, <4>1
    <3> QED BY <3>1, <3>2
  <2> HIDE DEF moved
  <2>5. OKPC(moved) /\ moved \in PCRecord
    BY <2>4 DEF Keeps, OKPC
  <2>6. /\ configured \in PCRecord /\ configured.config = "repo" /\ configured.dirs = moved.dirs
        /\ configured.backups = moved.backups
        /\ configured.git = moved.git /\ configured.head = moved.head
    BY <1>2, <2>5, ConfigFields
  <2> HIDE DEF configured
  <2>7. Keeps(s, configured) /\ OKPC(configured)
    BY <2>4, <2>5, <2>6, KeepsSame, KeepsChain DEF Keeps
  <2>8. end.at # "copying" /\ Current(s).meta => Current(configured).meta
    BY <2>2, <2>4, <2>6 DEF Current
  <2> DEFINE t == ensure_v2_layout(configured)
  <2>9. /\ doctor.pc = t /\ Keeps(configured, t) /\ t.config = "repo"
        /\ t.dirs["local"] = configured.dirs["local"]
        /\ Current(configured).meta => t = configured
        /\ doctor.ok => t = configured /\ Current(configured).meta
    <3>1. Current(configured).meta => Current(configured) # NoDir
      BY DirConstants
    <3> QED BY <1>2, <2>6, <2>7, <3>1, KeepsLayout, DoctorLooks
  <2> HIDE DEF doctor, t
  <2>10. Keeps(s, t) /\ OKPC(t) /\ t \in PCRecord
    BY <2>7, <2>9, KeepsChain DEF Keeps, OKPC
  <2>11. CASE end.at \in {"copying", "copied"}
    <3>1. result = Failed(copied)
      BY <1>1, <1>6, <2>11
    <3> QED BY <2>2, <3>1, ResultFields
  <2>12. CASE end.at = "moved"
    <3>1. result = Failed(moved)
      BY <1>1, <1>6, <2>12
    <3> QED BY <2>4, <3>1, ResultFields
  <2>13. CASE end.at = "configured"
    <3>1. result = Failed(configured)
      BY <1>1, <1>6, <2>13
    <3> QED BY <2>7, <2>8, <2>13, <3>1, ResultFields
  <2>14. CASE end.at \notin {"copying", "copied", "moved", "configured"} /\ ~doctor.ok
    <3> DEFINE u == [t EXCEPT !.config = s.config]
    <3>1. /\ u \in PCRecord /\ u.config = s.config /\ u.dirs = t.dirs /\ u.backups = t.backups
          /\ u.git = t.git /\ u.head = t.head
      BY <1>2, <2>10, ConfigFields
    <3>2. result = Failed(u)
      BY <1>1, <1>6, <2>9, <2>14
    <3> HIDE DEF u
    <3>3. Keeps(s, u)
      BY <2>10, <3>1, KeepsSame, KeepsChain
    <3>4. Current(s).meta => Current(u) = Current(moved)
      <4>1. Current(s).meta => t = configured
        BY <2>8, <2>9, <2>14
      <4> QED BY <2>4, <2>6, <3>1, <4>1 DEF Current
    <3> QED BY <2>4, <3>2, <3>3, <3>4, ResultFields
  <2>15. CASE end.at \notin {"copying", "copied", "moved", "configured"} /\ doctor.ok
    <3>1. Current(t).meta
      BY <2>9, <2>15
    <3>2. CASE hooks = "no"
      <4>1. result = Done(t)
        BY <1>1, <1>6, <2>9, <2>15, <3>2
      <4> QED BY <2>10, <3>1, <4>1, ResultFields
    <3>3. CASE hooks # "no"
      <4> DEFINE force == hooks = "force"
      <4>1. result = install_git_hooks(t, force) /\ force \in BOOLEAN
        BY <1>1, <1>6, <2>9, <2>15, <3>3
      <4> HIDE DEF force
      <4>2. Keeps(t, result.pc) /\ Current(result.pc) = Current(t)
        BY <2>10, <4>1, HooksKeep
      <4> QED BY <2>10, <3>1, <4>2, KeepsChain
    <3> QED BY <3>2, <3>3
  <2> QED BY <2>11, <2>12, <2>13, <2>14, <2>15
<1> QED BY <1>5, <1>6

-----------------------------------------------------------------------------
(* Every step preserves the invariant *)

\* A step of PC p that keeps what it has, and sends nothing bad to the server.
LEMMA StepInv ==
    ASSUME SyncInv, NEW p \in PCs, NEW t, Keeps(pcs[p], t), pcs' = [pcs EXCEPT ![p] = t],
           made' = made, stranded \subseteq stranded', stranded' \subseteq PCs,
           allowed' \in BOOLEAN, allowed => allowed',
           overtaken \subseteq overtaken', overtaken' \subseteq Commit,
           \A w \in checked' : w \in checked \/ Passed(w)',
           Current(pcs[p]).meta => Current(t).meta \/ p \in stranded' \/ PushedWithoutStorage,
           \/ remote' = remote
           \/ /\ remote' = t.head /\ remote' # <<>>
              /\ \/ healthy(LastDir(remote')) /\ (LastDir(remote').lock = 0 \/ allowed')
                 \/ Last(remote') \in overtaken'
    PROVE  SyncInv'
<1>1. /\ pcs \in [PCs -> PCRecord] /\ remote \in Seq(Commit) /\ made \in Seq(PCs) /\ Len(made) <= MaxEdits
      /\ stranded \subseteq PCs
  BY DEF SyncInv, SyncTypes
<1>2. /\ OKPC(t) /\ t \in PCRecord /\ (\A e : Has(pcs[p], e) => Has(t, e)) /\ (pcs[p].git => t.git)
      /\ allowed \/ Locks(t) \subseteq Locks(pcs[p]) \cup Free
  BY DEF Keeps, OKPC
<1>3. /\ pcs' \in [PCs -> PCRecord] /\ pcs'[p] = t
      /\ \A q \in PCs \ {p} : pcs'[q] = pcs[q]
  BY <1>1, <1>2
<1>4. SyncTypes'
  <2>1. remote' \in Seq(Commit)
    BY <1>1, <1>2, PCFields
  <2> QED BY <1>1, <1>3, <2>1 DEF SyncTypes
<1>5. NoGitNoHead'
  BY <1>2, <1>3 DEF SyncInv, NoGitNoHead, OKPC
<1>6. CurrentIsStorage'
  <2>1. ASSUME NEW q \in PCs PROVE Current(pcs'[q]).meta \/ q \in stranded' \/ PushedWithoutStorage
    BY <1>3 DEF SyncInv, CurrentIsStorage
  <2>2. PushedWithoutStorage => PushedWithoutStorage'
    BY DEF PushedWithoutStorage
  <2> QED BY <2>1, <2>2 DEF CurrentIsStorage, Current
<1>7. RemoteIsHealthy'
  <2>1. CASE remote' = remote
    BY <2>1 DEF SyncInv, RemoteIsHealthy, LastDir
  <2>2. CASE remote' # remote
    BY <2>2 DEF RemoteIsHealthy, LastDir
  <2> QED BY <2>1, <2>2
<1>10. CheckedPassed'
  <2> SUFFICES ASSUME NEW w \in checked', w \in checked PROVE Passed(w)'
    BY DEF CheckedPassed
  <2>1. Passed(w)
    BY DEF SyncInv, CheckedPassed
  <2>2. w.pc \in PCs /\ pcs[w.pc].git
    BY <2>1 DEF Passed
  <2>3. pcs'[w.pc].git
    BY <1>2, <1>3, <2>2
  <2> QED BY <2>1, <2>3 DEF Passed
<1>8. LocksAtHome'
  <2>0. Free \subseteq Free' /\ 0 \in Free' /\ \A c \in overtaken' : c.dir.lock \in Free'
    BY DEF Free, LocksOvertaking
  <2> SUFFICES ASSUME ~allowed' PROVE /\ remote' # <<>> => LastDir(remote').lock \in Free'
                                      /\ \A q \in PCs, loc \in Locations : OwnLock(q, pcs'[q].dirs[loc].lock)
    BY <2>0 DEF LocksAtHome, OwnLock, LastDir
  <2>1. /\ remote # <<>> => LastDir(remote).lock \in Free
        /\ \A q \in PCs, loc \in Locations : OwnLock(q, pcs[q].dirs[loc].lock)
        /\ Locks(t) \subseteq Locks(pcs[p]) \cup Free
    BY <1>2 DEF SyncInv, LocksAtHome
  <2>2. remote' # <<>> => LastDir(remote').lock \in Free'
    <3>1. CASE remote' = remote
      BY <2>0, <2>1, <3>1
    <3>2. CASE remote' # remote /\ Last(remote') \in overtaken'
      BY <2>0, <3>2 DEF LastDir
    <3>3. CASE remote' # remote /\ Last(remote') \notin overtaken'
      BY <2>0, <3>3
    <3> QED BY <3>1, <3>2, <3>3
  <2>3. ASSUME NEW q \in PCs, NEW loc \in Locations PROVE OwnLock(q, pcs'[q].dirs[loc].lock)
    <3>1. CASE q = p
      <4>1. t.dirs[loc].lock \in Locks(pcs[p]) \cup Free
        BY <2>1 DEF Locks
      <4>2. OwnLock(p, t.dirs[loc].lock)
        BY <2>1, <4>1 DEF Locks, OwnLock
      <4> QED BY <1>3, <3>1, <4>2
    <3>2. CASE q # p
      BY <1>3, <2>1, <3>2
    <3> QED BY <3>1, <3>2
  <2> QED BY <2>2, <2>3
<1>9. WorkSurvives'
  <2>1. \A e \in DOMAIN made : made[e] \in PCs /\ Has(pcs[made[e]], e)
    BY <1>1 DEF SyncInv, WorkSurvives, Has
  <2>2. \A e \in DOMAIN made : Has(pcs'[made[e]], e)
    BY <1>2, <1>3, <2>1
  <2> QED BY <2>2 DEF WorkSurvives, Has
<1> QED BY <1>4, <1>5, <1>6, <1>7, <1>8, <1>9, <1>10 DEF SyncInv

\* A PC and the server, as the invariant has them.
LEMMA InvFacts ==
    ASSUME SyncInv, NEW p \in PCs
    PROVE  /\ OKPC(pcs[p]) /\ pcs[p] \in PCRecord /\ RemoteFacts
           /\ stranded \subseteq PCs /\ allowed \in BOOLEAN
<1>1. pcs[p] \in PCRecord /\ remote \in Seq(Commit) /\ stranded \subseteq PCs /\ allowed \in BOOLEAN
  BY DEF SyncInv, SyncTypes
<1>2. pcs[p].git \/ pcs[p].head = <<>>
  BY DEF SyncInv, NoGitNoHead
<1>3. allowed \/ (remote # <<>> => LastDir(remote).lock \in Free)
  BY DEF SyncInv, LocksAtHome
<1>4. remote # <<>> => LastDir(remote).meta \/ PushedWithoutStorage
  <2> SUFFICES ASSUME remote # <<>> PROVE LastDir(remote).meta \/ PushedWithoutStorage
    OBVIOUS
  <2>1. CASE healthy(LastDir(remote))
    BY <2>1 DEF healthy
  <2>2. CASE Last(remote) \in overtaken
    <3>1. LastDir(remote) = Last(remote).dir
      BY DEF LastDir
    <3> QED BY <2>2, <3>1 DEF PushedWithoutStorage
  <2> QED BY <2>1, <2>2 DEF SyncInv, RemoteIsHealthy
<1> QED BY <1>1, <1>2, <1>3, <1>4 DEF OKPC, RemoteFacts

\* A command that does not talk to the server.
LEMMA LocalInv ==
    ASSUME SyncInv, NEW p \in PCs, NEW result, Local(p, result), Keeps(pcs[p], result.pc),
           stranded \subseteq stranded', stranded' \subseteq PCs,
           Current(pcs[p]).meta => Current(result.pc).meta \/ p \in stranded' \/ PushedWithoutStorage
    PROVE  SyncInv'
<1>1. /\ pcs' = [pcs EXCEPT ![p] = result.pc] /\ remote' = remote /\ made' = made /\ allowed' = allowed
      /\ checked' = checked /\ overtaken' = overtaken
  BY DEF Local
<1>2. allowed' \in BOOLEAN /\ overtaken' \subseteq Commit
  BY <1>1 DEF SyncInv, SyncTypes
<1> QED BY <1>1, <1>2, StepInv

\* The commands that leave the history of commits alone.
LEMMA StorageCommands ==
    ASSUME SyncInv, NEW p \in PCs,
           \/ init_command(p) \/ move_command(p) \/ git_init_command(p) \/ git_import_local_command(p)
           \/ git_pull_command(p) \/ post_merge_hook(p)
           \/ hooks_install_command(p) \/ hooks_uninstall_command(p)
    PROVE  SyncInv'
<1> DEFINE s == pcs[p]
<1>0. OKPC(s) /\ s \in PCRecord /\ RemoteFacts /\ stranded \subseteq PCs
  BY InvFacts
<1> HIDE DEF s
<1>1. CASE init_command(p)
  <2> DEFINE t == ensure_v2_layout(s)
             d == [Current(t) EXCEPT !.meta = TRUE]
             u == [t EXCEPT !.dirs[t.config].meta = TRUE]
  <2>1. Local(p, Done(u)) /\ stranded' = stranded
    BY <1>1 DEF init_command, init_project_state, Quiet, s
  <2>2. Keeps(s, t) /\ OKPC(t) /\ t \in PCRecord
    BY <1>0, KeepsLayout DEF Keeps, OKPC
  <2> HIDE DEF t
  <2>3. t.config \in Locations /\ Current(t) \in Dirs /\ Current(t) = t.dirs[t.config] /\ t.dirs \in [Locations -> Dirs]
    BY <2>2, PCFields DEF Current
  <2>4. \A m \in BOOLEAN : /\ [Current(t) EXCEPT !.meta = m] \in Dirs
                           /\ [Current(t) EXCEPT !.meta = m].edits = Current(t).edits
                           /\ [Current(t) EXCEPT !.meta = m].lock = Current(t).lock
                           /\ [Current(t) EXCEPT !.meta = m].meta = m
    BY <2>3 DEF Dirs
  <2>5. d \in Dirs /\ d.edits = Current(t).edits /\ d.lock = Current(t).lock /\ d.meta = TRUE
    BY <2>4, Zenon
  <2>6. u = SetDir(t, t.config, d)
    BY <2>2, <2>3 DEF SetDir, PCRecord
  <2> HIDE DEF d, u
  <2>7. Keeps(t, u) /\ u.dirs[t.config] = d /\ u.config = t.config
    <3>1. d.lock \in Locks(t) /\ t.dirs[t.config].edits \subseteq d.edits
      BY <2>3, <2>5 DEF Locks
    <3> QED BY <2>2, <2>3, <2>5, <2>6, <3>1, KeepsSetDir, SetDirFields
  <2>8. Keeps(s, u) /\ Current(u).meta
    BY <2>2, <2>5, <2>7, KeepsChain DEF Current
  <2> QED BY <1>0, <2>1, <2>8, LocalInv, ResultFields DEF s
<1>2. CASE move_command(p)
  <2>1. PICK target \in Locations, mode \in {"copy", "move"}, adopt_existing \in BOOLEAN,
             force \in BOOLEAN, end \in Ends :
           Local(p, move_taskledger_storage(s, target, mode, adopt_existing, force, end))
    BY <1>2 DEF move_command, s
  <2>2. stranded' = stranded
    BY <1>2 DEF move_command
  <2> DEFINE result == move_taskledger_storage(s, target, mode, adopt_existing, force, end)
  <2>3. Keeps(s, result.pc) /\ (Current(s).meta => Current(result.pc).meta)
    BY <1>0, MoveKeeps
  <2> HIDE DEF result
  <2>4. Local(p, result)
    BY <2>1 DEF result
  <2> QED BY <1>0, <2>2, <2>3, <2>4, LocalInv DEF s
<1>3. CASE git_init_command(p)
  <2>1. PICK remote_url \in BOOLEAN, adopt_existing \in BOOLEAN, mode \in {"copy", "move"},
             hooks \in {"no", "yes", "force"}, end \in Ends :
           LET result == init_git_sync_repo(s, remote_url, adopt_existing, mode, hooks, end)
           IN  /\ Local(p, result)
               /\ stranded' = IF mode = "move" /\ ~result.ok /\ Current(result.pc) = NoDir
                              THEN stranded \cup {p} ELSE stranded
    BY <1>3 DEF git_init_command, s
  <2> DEFINE result == init_git_sync_repo(s, remote_url, adopt_existing, mode, hooks, end)
  <2>2. /\ Keeps(s, result.pc)
        /\ Current(s).meta => \/ Current(result.pc).meta
                              \/ mode = "move" /\ ~result.ok /\ Current(result.pc) = NoDir
    BY <1>0, InitRepoKeeps
  <2>3. /\ Local(p, result)
        /\ stranded' = IF mode = "move" /\ ~result.ok /\ Current(result.pc) = NoDir
                       THEN stranded \cup {p} ELSE stranded
    BY <2>1
  <2> HIDE DEF result
  <2>4. stranded \subseteq stranded' /\ stranded' \subseteq PCs
    BY <1>0, <2>3
  <2>5. Current(s).meta => Current(result.pc).meta \/ p \in stranded'
    BY <2>2, <2>3
  <2> QED BY <2>2, <2>3, <2>4, <2>5, LocalInv DEF s
<1>4. CASE git_import_local_command(p)
  <2> DEFINE result == git_sync_import_local(s)
  <2>1. Local(p, result) /\ stranded' = stranded
    BY <1>4 DEF git_import_local_command, Quiet, s
  <2>2. Keeps(s, result.pc) /\ (Current(s).meta => Current(result.pc).meta)
    BY <1>0, ImportKeeps
  <2> HIDE DEF result
  <2> QED BY <1>0, <2>1, <2>2, LocalInv DEF s
<1>5. CASE git_pull_command(p)
  <2>1. PICK allow_dirty \in BOOLEAN : Local(p, git_sync_pull(s, allow_dirty)) /\ Quiet
    BY <1>5 DEF git_pull_command, s
  <2> DEFINE result == git_sync_pull(s, allow_dirty)
  <2>2. Local(p, result) /\ stranded' = stranded
    BY <2>1 DEF Quiet
  <2>3. Keeps(s, result.pc) /\ (Current(s).meta => Current(result.pc).meta \/ PushedWithoutStorage)
    BY <1>0, SyncPullKeeps
  <2> HIDE DEF result
  <2> QED BY <1>0, <2>2, <2>3, LocalInv DEF s
<1>6. CASE post_merge_hook(p)
  <2> DEFINE pulled == git_pull_ff_only(s)
             result == IF pulled.pc.hook = "managed" THEN git_sync_import_local(pulled.pc) ELSE pulled
  <2>1. Local(p, result) /\ stranded' = stranded
    BY <1>6 DEF post_merge_hook, Quiet, s
  <2>2. /\ Keeps(s, pulled.pc) /\ OKPC(pulled.pc)
        /\ Current(s).meta => Current(pulled.pc).meta \/ PushedWithoutStorage
    BY <1>0, PullKeeps DEF Keeps
  <2>3. /\ Keeps(pulled.pc, git_sync_import_local(pulled.pc).pc)
        /\ Current(pulled.pc).meta => Current(git_sync_import_local(pulled.pc).pc).meta
    BY <2>2, ImportKeeps
  <2> HIDE DEF pulled
  <2>4. Keeps(s, result.pc) /\ (Current(s).meta => Current(result.pc).meta \/ PushedWithoutStorage)
    BY <2>2, <2>3, KeepsChain
  <2> HIDE DEF result
  <2> QED BY <1>0, <2>1, <2>4, LocalInv DEF s
<1>7. CASE hooks_install_command(p)
  <2>1. PICK force \in BOOLEAN : Local(p, install_git_hooks(s, force)) /\ Quiet
    BY <1>7 DEF hooks_install_command, s
  <2>2. /\ Keeps(s, install_git_hooks(s, force).pc)
        /\ Current(install_git_hooks(s, force).pc) = Current(s)
    BY <1>0, HooksKeep
  <2> QED BY <1>0, <2>1, <2>2, LocalInv DEF s, Quiet
<1>8. CASE hooks_uninstall_command(p)
  <2>1. Local(p, uninstall_git_hooks(s)) /\ Quiet
    BY <1>8 DEF hooks_uninstall_command, s
  <2>2. Keeps(s, uninstall_git_hooks(s).pc) /\ Current(uninstall_git_hooks(s).pc) = Current(s)
    BY <1>0, HooksKeep
  <2> QED BY <1>0, <2>1, <2>2, LocalInv DEF s, Quiet
<1> QED BY <1>1, <1>2, <1>3, <1>4, <1>5, <1>6, <1>7, <1>8

\* A sync git commit or push is refused, or has passed its checks.
LEMMA BeginInv ==
    ASSUME SyncInv, NEW p \in PCs, NEW s, NEW push \in BOOLEAN, NEW allow_active_locks \in BOOLEAN,
           Begin(p, s, push, allow_active_locks), stranded' = stranded, Keeps(pcs[p], s),
           Current(pcs[p]).meta => Current(s).meta \/ PushedWithoutStorage
    PROVE  SyncInv'
<1>1. /\ pcs' = [pcs EXCEPT ![p] = s] /\ made' = made /\ remote' = remote /\ overtaken' = overtaken
      /\ stranded' = stranded
  BY DEF Begin
<1>2. stranded' \subseteq PCs /\ overtaken' \subseteq Commit /\ pcs \in [PCs -> PCRecord]
      /\ allowed \in BOOLEAN
  BY <1>1 DEF SyncInv, SyncTypes
<1>3. OKPC(s) /\ s \in PCRecord
  BY DEF Keeps, OKPC
<1>4. CASE git_sync_commit_checks(s, allow_active_locks)
  <2> DEFINE w == [pc |-> p, push |-> push, dir |-> s.dirs["repo"]]
  <2>1. /\ checked' = {w}
        /\ allowed' = (allowed \/ (allow_active_locks /\ Current(s).lock # 0))
    BY <1>4 DEF Begin
  <2>2. allowed' \in BOOLEAN /\ (allowed => allowed')
    BY <2>1
  <2>3. /\ s.git /\ healthy(s.dirs["repo"])
        /\ s.dirs["repo"].lock = 0 \/ (allow_active_locks /\ Current(s).lock # 0)
    BY <1>3, <1>4, ChecksFacts
  <2>4. /\ w \in [pc: PCs, push: BOOLEAN, dir: Dirs] /\ w.pc = p /\ w.dir = s.dirs["repo"]
    <3>1. s.dirs["repo"] \in Dirs
      BY <1>3, PCFields DEF Locations
    <3> QED BY <3>1
  <2> HIDE DEF w
  <2>5. pcs'[w.pc].git
    BY <1>1, <1>2, <2>3, <2>4
  <2>6. w.dir.lock = 0 \/ allowed'
    BY <2>1, <2>3, <2>4
  <2>7. Passed(w)'
    BY <2>3, <2>4, <2>5, <2>6 DEF Passed
  <2> QED BY <1>1, <1>2, <2>1, <2>2, <2>7, StepInv
<1>5. CASE ~git_sync_commit_checks(s, allow_active_locks)
  <2>1. checked' = checked /\ allowed' = allowed
    BY <1>5 DEF Begin
  <2> QED BY <1>1, <1>2, <2>1, StepInv
<1> QED BY <1>4, <1>5

\* What is pushed is what passed the checks, or it is known to have changed.
LEMMA FinishInv ==
    ASSUME SyncInv, NEW w \in checked, Finish(w)
    PROVE  SyncInv'
<1> DEFINE p == w.pc
           s == pcs[p]
           t == git_sync_commit(p, s, w.push)
           pushed == w.push /\ t.head # <<>> /\ IsPrefix(remote, t.head)
<1>1. /\ p \in PCs /\ w.push \in BOOLEAN /\ s.git
      /\ healthy(w.dir) /\ (w.dir.lock = 0 \/ allowed)
  BY DEF SyncInv, CheckedPassed, Passed
<1>2. /\ Bounded(t) /\ pcs' = [pcs EXCEPT ![p] = t]
      /\ remote' = IF pushed THEN t.head ELSE remote
      /\ checked' = checked \ {w}
      /\ overtaken' = IF pushed /\ s.dirs["repo"] # w.dir THEN overtaken \cup {Last(t.head)} ELSE overtaken
      /\ made' = made /\ allowed' = allowed /\ stranded' = stranded
  BY DEF Finish
<1>3. OKPC(s) /\ stranded \subseteq PCs /\ allowed \in BOOLEAN
  BY <1>1, InvFacts
<1> HIDE DEF p, s
<1>4. Keeps(s, t) /\ Current(t) = Current(s) /\ LastDir(t.head) = s.dirs["repo"]
  BY <1>1, <1>2, <1>3, SyncCommitKeeps
<1> HIDE DEF t
<1>5. pushed \in BOOLEAN /\ (pushed => t.head # <<>>)
  BY <1>1
<1> HIDE DEF pushed
<1>6. t.head # <<>> => Last(t.head) \in Commit
  <2>1. t.head \in Seq(Commit)
    BY <1>4, PCFields DEF Keeps, OKPC
  <2>2. t.head # <<>> => Len(t.head) \in DOMAIN t.head /\ Len(t.head) \in 1..Len(t.head)
    BY <2>1, EmptySeq, LenProperties
  <2> QED BY <2>1, <2>2, ElementOfSeq DEF Last
<1>7. overtaken \subseteq Commit
  BY DEF SyncInv, SyncTypes
<1>8. overtaken \subseteq overtaken' /\ overtaken' \subseteq Commit
  BY <1>2, <1>5, <1>6, <1>7
<1>9. CASE ~pushed
  BY <1>1, <1>2, <1>3, <1>4, <1>8, <1>9, StepInv DEF s
<1>10. CASE pushed /\ s.dirs["repo"] # w.dir
  <2>1. remote' = t.head /\ remote' # <<>> /\ Last(remote') \in overtaken'
    BY <1>2, <1>5, <1>10
  <2> QED BY <1>1, <1>2, <1>3, <1>4, <1>8, <2>1, StepInv DEF s
<1>11. CASE pushed /\ s.dirs["repo"] = w.dir
  <2>1. /\ remote' = t.head /\ remote' # <<>> /\ healthy(LastDir(remote'))
        /\ LastDir(remote').lock = 0 \/ allowed'
    BY <1>1, <1>2, <1>4, <1>5, <1>11
  <2> QED BY <1>1, <1>2, <1>3, <1>4, <1>8, <2>1, StepInv DEF s
<1> QED BY <1>5, <1>9, <1>10, <1>11

\* The commands that commit and push.
LEMMA CommitCommands ==
    ASSUME SyncInv, NEW p \in PCs,
           \/ git_commit_command(p) \/ commit_command(p) \/ git_push_command(p) \/ git_sync_command(p)
    PROVE  SyncInv'
<1> DEFINE s == pcs[p]
<1>0. OKPC(s) /\ s \in PCRecord /\ RemoteFacts /\ stranded \subseteq PCs /\ allowed \in BOOLEAN
  BY InvFacts
<1>1. CASE git_commit_command(p) \/ git_push_command(p)
  <2>1. PICK push \in BOOLEAN, allow_active_locks \in BOOLEAN :
           Begin(p, s, push, allow_active_locks) /\ Quiet
    <3>1. CASE git_commit_command(p)
      BY <3>1, Zenon DEF git_commit_command
    <3>2. CASE git_push_command(p)
      BY <3>2, Zenon DEF git_push_command
    <3> QED BY <1>1, <3>1, <3>2
  <2> QED BY <1>0, <2>1, BeginInv, KeepsSelf DEF Quiet
<1> HIDE DEF s
<1>2. CASE commit_command(p)
  <2> DEFINE result == sync_commit_storage(p, s)
  <2>1. Local(p, result) /\ stranded' = stranded
    BY <1>2 DEF commit_command, Quiet, s
  <2>2. CASE result = Failed(s)
    BY <1>0, <2>1, <2>2, KeepsSelf, LocalInv, ResultFields DEF s
  <2>3. CASE result # Failed(s)
    <3>1. result = Done(git_commit(p, s, FALSE)) /\ s.git
      BY <2>3, Zenon DEF sync_commit_storage
    <3>2. result.pc = git_commit(p, s, FALSE)
      BY <3>1, ResultFields, Zenon
    <3>3. Bounded(git_commit(p, s, FALSE))
      BY <2>1, <3>2, Zenon DEF Local
    <3>4. FALSE \in BOOLEAN
      OBVIOUS
    <3>5. Keeps(s, git_commit(p, s, FALSE)) /\ Current(git_commit(p, s, FALSE)) = Current(s)
      BY <1>0, <3>1, <3>3, <3>4, CommitKeeps, Zenon
    <3>6. Keeps(s, result.pc) /\ Current(result.pc) = Current(s)
      BY <3>2, <3>5, Zenon
    <3> HIDE DEF result
    <3> QED BY <1>0, <2>1, <3>6, LocalInv DEF s
  <2> QED BY <2>2, <2>3
<1>4. CASE git_sync_command(p)
  <2>1. PICK allow_dirty \in BOOLEAN, allow_active_locks \in BOOLEAN :
           LET pulled == git_sync_pull(s, allow_dirty)
           IN  /\ IF pulled.ok THEN Begin(p, pulled.pc, TRUE, allow_active_locks) ELSE Local(p, pulled)
               /\ Quiet
    BY <1>4, Zenon DEF git_sync_command, s
  <2> DEFINE pulled == git_sync_pull(s, allow_dirty)
  <2>2. /\ Keeps(s, pulled.pc) /\ OKPC(pulled.pc)
        /\ Current(s).meta => Current(pulled.pc).meta \/ PushedWithoutStorage
    BY <1>0, SyncPullKeeps DEF Keeps
  <2>3. IF pulled.ok THEN Begin(p, pulled.pc, TRUE, allow_active_locks) ELSE Local(p, pulled)
    BY <2>1, Zenon
  <2>4. stranded' = stranded
    BY <2>1, Zenon DEF Quiet
  <2> HIDE DEF pulled
  <2>5. CASE ~pulled.ok
    BY <1>0, <2>2, <2>3, <2>4, <2>5, LocalInv DEF s
  <2>6. CASE pulled.ok
    <3>1. Begin(p, pulled.pc, TRUE, allow_active_locks) /\ TRUE \in BOOLEAN
      BY <2>3, <2>6
    <3>2. Keeps(pcs[p], pulled.pc) /\ (Current(pcs[p]).meta => Current(pulled.pc).meta \/ PushedWithoutStorage)
      BY <2>2 DEF s
    <3> QED BY <2>1, <2>4, <3>1, <3>2, BeginInv, Zenon
  <2> QED BY <2>5, <2>6
<1> QED BY <1>1, <1>2, <1>4

\* A command that writes task records.
LEMMA WorkStep ==
    ASSUME SyncInv, NEW p \in PCs, work_command(p)
    PROVE  SyncInv'
<1> DEFINE s == ensure_v2_layout(pcs[p])
           e == Len(made) + 1
<1>0. OKPC(pcs[p]) /\ pcs[p] \in PCRecord /\ RemoteFacts
  BY InvFacts
<1>1. /\ pcs \in [PCs -> PCRecord] /\ remote \in Seq(Commit) /\ made \in Seq(PCs)
      /\ stranded \subseteq PCs /\ allowed \in BOOLEAN /\ overtaken \subseteq Commit /\ Len(made) \in Nat
  BY DEF SyncInv, SyncTypes
<1>2. PICK lock \in {0, e, Current(s).lock} :
         pcs' = [pcs EXCEPT ![p] = SetDir(s, s.config,
                    [Current(s) EXCEPT !.edits = @ \cup {e}, !.lock = lock])]
  BY DEF work_command
<1>3. e <= MaxEdits /\ made' = Append(made, p) /\ UNCHANGED <<remote, checked, allowed, overtaken, stranded>>
  BY DEF work_command, Quiet
<1>4. Keeps(pcs[p], s) /\ OKPC(s) /\ s \in PCRecord /\ Current(s) \in {Current(pcs[p]), EmptyDir}
      /\ (Current(pcs[p]) # NoDir => s = pcs[p])
  BY <1>0, KeepsLayout DEF Keeps, OKPC
<1> HIDE DEF s
<1>5. s.config \in Locations /\ Current(s) \in Dirs /\ Current(s) = s.dirs[s.config]
  BY <1>4, PCFields DEF Current
<1> DEFINE d == [Current(s) EXCEPT !.edits = @ \cup {e}, !.lock = lock]
           t == SetDir(s, s.config, d)
<1>6. e \in Edits /\ e \in 0..MaxEdits /\ e \notin DOMAIN made /\ e # 0
  BY <1>1, <1>3, SyncAssumption DEF Edits
<1> HIDE DEF e
<1>7. /\ d \in Dirs /\ d.edits = Current(s).edits \cup {e} /\ d.lock = lock /\ d.meta = Current(s).meta
  <2>1. lock \in 0..MaxEdits
    <3>1. Current(s).lock \in 0..MaxEdits
      BY <1>5 DEF Dirs
    <3>2. 0 \in 0..MaxEdits
      BY SyncAssumption
    <3> QED BY <1>2, <1>6, <3>1, <3>2
  <2> DEFINE u(dir, x, l) == [dir EXCEPT !.edits = @ \cup {x}, !.lock = l]
  <2>2. \A dir \in Dirs, x \in Edits, l \in 0..MaxEdits :
           /\ u(dir, x, l) \in Dirs /\ u(dir, x, l).edits = dir.edits \cup {x}
           /\ u(dir, x, l).lock = l /\ u(dir, x, l).meta = dir.meta
    BY DEF Dirs
  <2>3. d = u(Current(s), e, lock)
    OBVIOUS
  <2> HIDE DEF u, d
  <2> QED BY <1>5, <1>6, <2>1, <2>2, <2>3
<1> HIDE DEF d
<1>8. /\ t \in PCRecord /\ t.dirs[s.config] = d /\ t.config = s.config
      /\ \A l \in Locations \ {s.config} : t.dirs[l] = s.dirs[l]
      /\ t.backups = s.backups /\ t.git = s.git /\ t.head = s.head
  BY <1>4, <1>5, <1>7, SetDirFields
<1>9. pcs' = [pcs EXCEPT ![p] = t]
  BY <1>2 DEF d
<1> HIDE DEF t
<1>10. pcs' \in [PCs -> PCRecord] /\ pcs'[p] = t /\ \A q \in PCs \ {p} : pcs'[q] = pcs[q]
  BY <1>1, <1>8, <1>9
<1>11. Has(t, e) /\ \A x : Has(pcs[p], x) => Has(t, x)
  <2>1. \A x : Has(s, x) => Has(t, x)
    BY <1>5, <1>7, <1>8 DEF Has
  <2>2. Has(t, e)
    BY <1>5, <1>7, <1>8 DEF Has
  <2> QED BY <1>4, <2>1, <2>2 DEF Keeps
<1>12. /\ made' \in Seq(PCs) /\ DOMAIN made' = DOMAIN made \cup {e} /\ made'[e] = p
       /\ \A x \in DOMAIN made : made'[x] = made[x] /\ made[x] \in PCs
       /\ Len(made') <= MaxEdits
  BY <1>1, <1>3, AppendProperties, ElementOfSeq DEF e
<1>13. SyncTypes'
  BY <1>1, <1>3, <1>10, <1>12 DEF SyncTypes
<1>14. NoGitNoHead'
  BY <1>4, <1>8, <1>10 DEF SyncInv, NoGitNoHead, OKPC
<1>15. CurrentIsStorage'
  <2>1. Current(pcs[p]).meta => Current(t).meta
    BY <1>4, <1>5, <1>7, <1>8, DirConstants DEF Current
  <2>2. ASSUME NEW q \in PCs PROVE Current(pcs'[q]).meta \/ q \in stranded \/ PushedWithoutStorage
    BY <1>10, <2>1 DEF SyncInv, CurrentIsStorage
  <2> QED BY <1>3, <2>2 DEF CurrentIsStorage, Current, PushedWithoutStorage
<1>16. RemoteIsHealthy'
  BY <1>3 DEF SyncInv, RemoteIsHealthy, LastDir
<1>17. LocksAtHome'
  <2> SUFFICES ASSUME ~allowed
               PROVE  /\ remote # <<>> => LastDir(remote).lock \in Free
                      /\ \A q \in PCs, loc \in Locations : OwnLock(q, pcs[q].dirs[loc].lock)'
    BY <1>3 DEF LocksAtHome, LastDir, Free, LocksOvertaking
  <2>0. 0 \in Free /\ Free' = Free
    BY <1>3 DEF Free, LocksOvertaking
  <2>1. /\ remote # <<>> => LastDir(remote).lock \in Free
        /\ \A q \in PCs, loc \in Locations : OwnLock(q, pcs[q].dirs[loc].lock)
    BY DEF SyncInv, LocksAtHome
  <2>2. ASSUME NEW q \in PCs, NEW l, OwnLock(q, l) PROVE l \in Free \/ (l \in DOMAIN made' /\ made'[l] = q)
    BY <1>12, <2>2 DEF OwnLock
  <2>3. ASSUME NEW loc \in Locations PROVE OwnLock(p, s.dirs[loc].lock)
    <3>1. s.dirs[loc].lock \in Locks(pcs[p]) \cup Free
      BY <1>4 DEF Keeps, Locks
    <3> QED BY <2>1, <3>1 DEF Locks, OwnLock
  <2>4. ASSUME NEW loc \in Locations PROVE LET l == t.dirs[loc].lock IN l \in Free \/ (l \in DOMAIN made' /\ made'[l] = p)
    <3>1. CASE loc = s.config
      <4>1. t.dirs[loc].lock = lock
        BY <1>7, <1>8, <3>1
      <4>2. lock = 0 \/ lock = e \/ lock = s.dirs[loc].lock
        BY <1>2, <1>5, <3>1
      <4> QED BY <1>12, <2>0, <2>2, <2>3, <4>1, <4>2
    <3>2. CASE loc # s.config
      BY <1>8, <2>2, <2>3, <3>2
    <3> QED BY <3>1, <3>2
  <2>5. ASSUME NEW q \in PCs, NEW loc \in Locations
        PROVE  LET l == pcs'[q].dirs[loc].lock IN l \in Free \/ (l \in DOMAIN made' /\ made'[l] = q)
    BY <1>10, <2>1, <2>2, <2>4
  <2> QED BY <2>0, <2>1, <2>5 DEF OwnLock
<1>19. CheckedPassed'
  <2> SUFFICES ASSUME NEW w \in checked PROVE Passed(w)'
    BY <1>3 DEF CheckedPassed
  <2>1. Passed(w)
    BY DEF SyncInv, CheckedPassed
  <2>2. w.pc \in PCs /\ pcs[w.pc].git
    BY <2>1 DEF Passed
  <2>3. pcs[p].git => t.git
    BY <1>4, <1>8 DEF Keeps
  <2>4. pcs'[w.pc].git
    BY <1>10, <2>2, <2>3
  <2> QED BY <1>3, <2>1, <2>4 DEF Passed
<1>18. WorkSurvives'
  <2>1. \A x \in DOMAIN made : Has(pcs[made[x]], x)
    BY DEF SyncInv, WorkSurvives, Has
  <2>2. ASSUME NEW x \in DOMAIN made' PROVE Has(pcs'[made'[x]], x)
    <3>1. CASE x = e
      BY <1>10, <1>11, <1>12, <3>1
    <3>2. CASE x # e
      <4>1. x \in DOMAIN made /\ made'[x] = made[x] /\ made[x] \in PCs
        BY <1>12, <2>2, <3>2
      <4> QED BY <1>10, <1>11, <2>1, <4>1
    <3> QED BY <3>1, <3>2
  <2> QED BY <2>2 DEF WorkSurvives, Has
<1> QED BY <1>13, <1>14, <1>15, <1>16, <1>17, <1>18, <1>19 DEF SyncInv

\* Records are damaged and repaired, and other projects do what they do.
LEMMA IncidentSteps ==
    ASSUME SyncInv, NEW p \in PCs, StorageHealth(p) \/ OtherProject(p)
    PROVE  SyncInv'
<1> DEFINE s == pcs[p]
<1>0. OKPC(s) /\ s \in PCRecord /\ stranded \subseteq PCs
  BY InvFacts
<1>1. /\ remote' = remote /\ made' = made /\ allowed' = allowed /\ stranded' = stranded
      /\ checked' = checked /\ overtaken' = overtaken
  BY DEF StorageHealth, OtherProject
<1>2. allowed' \in BOOLEAN /\ overtaken' \subseteq Commit
  BY <1>1 DEF SyncInv, SyncTypes
<1>3. pcs \in [PCs -> PCRecord]
  BY DEF SyncInv, SyncTypes
<1>4. CASE StorageHealth(p)
  <2> DEFINE d == [Current(s) EXCEPT !.sound = ~@]
             t == SetDir(s, s.config, d)
  <2>1. s.config \in Locations /\ Current(s) \in Dirs /\ Current(s) = s.dirs[s.config] /\ s.dirs \in [Locations -> Dirs]
    BY <1>0, PCFields DEF Current
  <2>2. pcs' = [pcs EXCEPT ![p].dirs[s.config].sound = ~@]
    BY <1>4 DEF StorageHealth
  <2>3. pcs' = [pcs EXCEPT ![p] = t]
    BY <1>3, <2>1, <2>2 DEF SetDir, PCRecord
  <2>4. \A dir \in Dirs, b \in BOOLEAN :
           LET u == [dir EXCEPT !.sound = b]
           IN  u \in Dirs /\ u.edits = dir.edits /\ u.lock = dir.lock /\ u.meta = dir.meta
    BY DEF Dirs
  <2>5. d = [Current(s) EXCEPT !.sound = ~Current(s).sound] /\ (~Current(s).sound) \in BOOLEAN
    BY Zenon
  <2>6. d \in Dirs /\ d.edits = Current(s).edits /\ d.lock = Current(s).lock /\ d.meta = Current(s).meta
    BY <2>1, <2>4, <2>5, Zenon
  <2> HIDE DEF d
  <2>7. d.lock \in Locks(s) /\ s.dirs[s.config].edits \subseteq d.edits
    BY <2>1, <2>6 DEF Locks
  <2>8. Keeps(s, t) /\ t.dirs[s.config] = d /\ t.config = s.config
    BY <1>0, <2>1, <2>6, <2>7, KeepsSetDir, SetDirFields
  <2> HIDE DEF t
  <2>9. Current(s).meta => Current(t).meta
    BY <2>1, <2>6, <2>8 DEF Current
  <2> QED BY <1>0, <1>1, <1>2, <2>3, <2>8, <2>9, StepInv
<1>5. CASE OtherProject(p)
  <2>1. PICK t : /\ pcs' = [pcs EXCEPT ![p] = t] /\ t \in PCRecord
                 /\ t.dirs = s.dirs /\ t.backups = s.backups /\ t.head = s.head /\ t.git = s.git
                 /\ t.config = s.config
    <3>1. CASE pcs' = [pcs EXCEPT ![p].outside = TRUE]
      <4>1. \A r \in PCRecord, b \in BOOLEAN :
               LET t == [r EXCEPT !.outside = b]
               IN  /\ t \in PCRecord /\ t.dirs = r.dirs /\ t.backups = r.backups /\ t.head = r.head
                   /\ t.git = r.git /\ t.config = r.config
        BY DEF PCRecord
      <4>2. pcs' = [pcs EXCEPT ![p] = [s EXCEPT !.outside = TRUE]]
        BY <3>1
      <4> QED BY <1>0, <4>1, <4>2, Zenon
    <3>2. ASSUME NEW hook \in {"other", "foreign"}, pcs' = [pcs EXCEPT ![p].hook = hook]
          PROVE  \E t : /\ pcs' = [pcs EXCEPT ![p] = t] /\ t \in PCRecord
                        /\ t.dirs = s.dirs /\ t.backups = s.backups /\ t.head = s.head /\ t.git = s.git
                        /\ t.config = s.config
      <4> DEFINE t == [s EXCEPT !.hook = hook]
      <4>1. /\ t \in PCRecord /\ t.dirs = s.dirs /\ t.backups = s.backups /\ t.head = s.head
            /\ t.git = s.git /\ t.config = s.config
        BY <1>0 DEF PCRecord
      <4>2. pcs' = [pcs EXCEPT ![p] = t]
        BY <3>2
      <4> QED BY <4>1, <4>2
    <3> QED BY <1>5, <3>1, <3>2 DEF OtherProject
  <2>2. Keeps(s, t)
    BY <1>0, <2>1, KeepsSame
  <2>3. Current(t) = Current(s)
    BY <2>1 DEF Current
  <2> QED BY <1>0, <1>1, <1>2, <2>1, <2>2, <2>3, StepInv
<1> QED BY <1>4, <1>5

-----------------------------------------------------------------------------
(* The invariant, and what follows from it *)

\* A PC that was just set up is one.
LEMMA NewPCFacts ==
    /\ NewPC \in PCRecord /\ NewPC.config = "local" /\ NewPC.head = <<>>
    /\ NewPC.dirs = [loc \in Locations |-> IF loc = "local" THEN NewStorage ELSE NoDir]
<1> DEFINE dirs == [loc \in Locations |-> IF loc = "local" THEN NewStorage ELSE NoDir]
           record(b, c) == [config |-> "local", dirs |-> dirs, backups |-> {}, git |-> b,
                            head |-> <<>>, outside |-> c, hook |-> "none"]
<1>1. dirs \in [Locations -> Dirs]
  BY DirConstants
<1>2. <<>> \in Seq(Commit) /\ {} \in SUBSET Edits /\ "local" \in Locations
  BY DEF Locations
<1> HIDE DEF dirs
<1>3. \A b, c \in BOOLEAN : record(b, c) \in PCRecord
  BY <1>1, <1>2 DEF PCRecord
<1>4. NewPC = record(FALSE, FALSE)
  BY Zenon DEF NewPC, dirs
<1>5. NewPC \in PCRecord
  BY <1>3, <1>4, Zenon
<1>6. NewPC.config = "local" /\ NewPC.head = <<>> /\ NewPC.dirs = dirs
  BY DEF NewPC, dirs
<1> QED BY <1>5, <1>6 DEF dirs

\* So is one that was set up for the sync repository.
LEMMA SyncedPCFacts ==
    ASSUME NEW p \in PCs, NEW first \in PCs
    PROVE  /\ SyncedPC(p, first) \in PCRecord /\ SyncedPC(p, first).config = "repo"
           /\ SyncedPC(p, first).git
           /\ SyncedPC(p, first).dirs["repo"] = NewStorage
           /\ SyncedPC(p, first).dirs["local"] \in {NoDir, NewStorage}
           /\ SyncedPC(p, first).head = <<[by |-> first, n |-> 1, dir |-> NewStorage]>>
<1> DEFINE commit == [by |-> first, n |-> 1, dir |-> NewStorage]
           ds == [loc \in Locations |-> IF loc = "local" /\ p = first THEN NoDir ELSE NewStorage]
           t(b) == [NewPC EXCEPT !.config = "repo", !.git = b, !.dirs = ds, !.head = <<commit>>]
<1>1. commit \in Commit
  BY SyncAssumption, DirConstants DEF Commit
<1>2. "local" \in Locations /\ "repo" \in Locations
  BY DEF Locations
<1>3. ds \in [Locations -> Dirs] /\ ds["repo"] = NewStorage /\ ds["local"] \in {NoDir, NewStorage}
  BY <1>2, DirConstants
<1>4. SyncedPC(p, first) = t(TRUE)
  BY Zenon DEF SyncedPC
<1> HIDE DEF commit, ds
<1>5. <<commit>> \in Seq(Commit)
  BY <1>1
<1>6. ASSUME NEW b \in BOOLEAN
      PROVE  t(b) \in PCRecord /\ t(b).config = "repo" /\ t(b).git = b /\ t(b).dirs = ds
             /\ t(b).head = <<commit>>
  <2>1. t(b).config = "repo" /\ t(b).head = <<commit>> /\ t(b).dirs = ds
    BY NewPCFacts DEF PCRecord
  <2>2. t(b).git = b
    BY NewPCFacts DEF PCRecord
  <2>3. t(b) \in PCRecord
    BY <1>2, <1>3, <1>5, NewPCFacts DEF PCRecord
  <2> QED BY <2>1, <2>2, <2>3
<1> HIDE DEF t
<1>7. t(TRUE) \in PCRecord /\ t(TRUE).config = "repo" /\ t(TRUE).git = TRUE /\ t(TRUE).dirs = ds
      /\ t(TRUE).head = <<commit>>
  BY <1>6, Zenon
<1> QED BY <1>3, <1>4, <1>7, Zenon DEF commit

\* The invariant holds when the workspaces have been set up.
LEMMA SyncInvInit == Init => SyncInv
<1> SUFFICES ASSUME Init PROVE SyncInv
  OBVIOUS
<1>1. made = <<>> /\ stranded = {} /\ allowed \in BOOLEAN /\ overtaken = {} /\ checked = {} /\ 0 \in Free
  BY DEF Init, Free
<1>2. made \in Seq(PCs) /\ Len(made) <= MaxEdits /\ DOMAIN made = {}
  BY <1>1, SyncAssumption
<1>3. WorkSurvives /\ CheckedPassed
  BY <1>1, <1>2 DEF WorkSurvives, CheckedPassed
<1>4. CASE pcs = [p \in PCs |-> NewPC] /\ remote = <<>>
  <2>1. /\ pcs \in [PCs -> PCRecord] /\ remote \in Seq(Commit)
        /\ \A p \in PCs : pcs[p] = NewPC
    BY <1>4, NewPCFacts
  <2>2. Current(NewPC) = NewStorage /\ \A loc \in Locations : NewPC.dirs[loc].lock = 0
    BY NewPCFacts, DirConstants DEF Current, Locations
  <2>3. SyncTypes /\ NoGitNoHead
    BY <1>1, <1>2, <2>1, NewPCFacts DEF SyncTypes, NoGitNoHead
  <2>4. CurrentIsStorage
    BY <2>1, <2>2, DirConstants DEF CurrentIsStorage
  <2>5. LocksAtHome
    BY <1>1, <1>4, <2>1, <2>2 DEF LocksAtHome, OwnLock
  <2>6. RemoteIsHealthy
    BY <1>4 DEF RemoteIsHealthy
  <2> QED BY <1>3, <2>3, <2>4, <2>5, <2>6 DEF SyncInv
<1>5. ASSUME NEW first \in PCs, pcs = [p \in PCs |-> SyncedPC(p, first)],
             remote = SyncedPC(first, first).head
      PROVE  SyncInv
  <2>1. /\ pcs \in [PCs -> PCRecord]
        /\ \A p \in PCs : pcs[p] = SyncedPC(p, first)
    BY <1>5, SyncedPCFacts
  <2>2. remote \in Seq(Commit)
    BY <1>5, SyncedPCFacts, PCFields
  <2>3. ASSUME NEW p \in PCs PROVE pcs[p].git /\ Current(pcs[p]) = NewStorage
    <3>1. /\ pcs[p].git /\ pcs[p].config = "repo" /\ pcs[p].dirs["repo"] = NewStorage
      <4>1. pcs[p] = SyncedPC(p, first)
        BY <2>1
      <4> QED BY <4>1, SyncedPCFacts
    <3> QED BY <3>1 DEF Current
  <2>4. ASSUME NEW p \in PCs, NEW loc \in Locations PROVE pcs[p].dirs[loc].lock = 0
    <3>1. pcs[p].dirs["repo"] = NewStorage /\ pcs[p].dirs["local"] \in {NoDir, NewStorage}
      <4>1. pcs[p] = SyncedPC(p, first)
        BY <2>1
      <4> QED BY <4>1, SyncedPCFacts
    <3> QED BY <3>1, DirConstants DEF Locations
  <2>5. LastDir(remote) = NewStorage
    <3> DEFINE commit == [by |-> first, n |-> 1, dir |-> NewStorage]
    <3>1. remote = <<commit>>
      BY <1>5, SyncedPCFacts, Zenon
    <3>2. commit.dir = NewStorage
      OBVIOUS
    <3> HIDE DEF commit
    <3> QED BY <3>1, <3>2 DEF LastDir, Last
  <2>6. SyncTypes
    BY <1>1, <1>2, <2>1, <2>2 DEF SyncTypes
  <2>7. NoGitNoHead /\ CurrentIsStorage
    BY <2>3, DirConstants DEF NoGitNoHead, CurrentIsStorage
  <2>8. LocksAtHome
    BY <1>1, <2>4, <2>5, DirConstants DEF LocksAtHome, OwnLock
  <2>9. RemoteIsHealthy
    BY <2>5, DirConstants DEF RemoteIsHealthy, healthy
  <2> QED BY <1>3, <2>6, <2>7, <2>8, <2>9 DEF SyncInv
<1> QED BY <1>4, <1>5 DEF Init

\* Every command keeps it.
LEMMA SyncInvariance == Spec => []SyncInv
<1>1. Init => SyncInv
  BY SyncInvInit
<1>2. SyncInv /\ [Next]_vars => SyncInv'
  <2> SUFFICES ASSUME SyncInv, [Next]_vars PROVE SyncInv'
    OBVIOUS
  <2>1. ASSUME NEW p \in PCs,
               \/ init_command(p) \/ move_command(p)
               \/ git_init_command(p) \/ git_import_local_command(p)
               \/ git_commit_command(p) \/ commit_command(p)
               \/ git_pull_command(p) \/ git_push_command(p) \/ git_sync_command(p)
               \/ hooks_install_command(p) \/ hooks_uninstall_command(p) \/ post_merge_hook(p)
               \/ work_command(p) \/ StorageHealth(p) \/ OtherProject(p)
        PROVE  SyncInv'
    BY <2>1, StorageCommands, CommitCommands, WorkStep, IncidentSteps
  <2>2. CASE UNCHANGED vars
    <3>1. /\ pcs' = pcs /\ remote' = remote /\ made' = made /\ allowed' = allowed
          /\ stranded' = stranded /\ checked' = checked /\ overtaken' = overtaken
      BY <2>2 DEF vars
    <3>2. SyncTypes' /\ NoGitNoHead'
      BY <3>1 DEF SyncInv, SyncTypes, NoGitNoHead
    <3>3. CurrentIsStorage' /\ CheckedPassed'
      BY <3>1 DEF SyncInv, CurrentIsStorage, Current, PushedWithoutStorage, CheckedPassed, Passed
    <3>4. LocksAtHome'
      BY <3>1 DEF SyncInv, LocksAtHome, OwnLock, LastDir, Free, LocksOvertaking
    <3>5. RemoteIsHealthy' /\ WorkSurvives'
      BY <3>1 DEF SyncInv, RemoteIsHealthy, LastDir, WorkSurvives
    <3> QED BY <3>2, <3>3, <3>4, <3>5 DEF SyncInv
  <2>3. CASE \E w \in checked : Finish(w)
    BY <2>3, FinishInv
  <2> QED BY <2>1, <2>2, <2>3 DEF Next, Command
<1> QED BY <1>1, <1>2, PTL DEF Spec

\* The records of the PCs and the history on the server keep their types.
THEOREM SyncTypesTheorem == Spec => []TypeOK
<1>1. SyncInv => TypeOK
  BY PCFields DEF SyncInv, SyncTypes, PCRecord, CheckedPassed, Passed, TypeOK
<1> QED BY <1>1, SyncInvariance, PTL

\* Whatever the PCs commit, pull and push, with damaged storages and aborted
\* commands in between, the last commit on the server is one doctor passed, or
\* the storage changed between the checks of its push and git add.
THEOREM RemoteIsHealthyTheorem == Spec => []RemoteIsHealthy
<1>1. SyncInv => RemoteIsHealthy
  BY DEF SyncInv
<1> QED BY <1>1, SyncInvariance, PTL

\* No copy, move, adoption or pull, cut short or not, loses an edit from the
\* PC it was made on.
THEOREM WorkSurvivesTheorem == Spec => []WorkSurvives
<1>1. SyncInv => WorkSurvives
  BY DEF SyncInv
<1> QED BY <1>1, SyncInvariance, PTL

\* taskledger_dir always names a directory that exists, except where sync git
\* init moved the storage and failed, or a storage was pushed while it was
\* being moved out of the repository.
THEOREM TaskledgerDirTheorem == Spec => []TaskledgerDirExists
<1>1. SyncInv => TaskledgerDirExists
  BY DirConstants DEF SyncInv, CurrentIsStorage, TaskledgerDirExists
<1> QED BY <1>1, SyncInvariance, PTL

\* A run that is under way on one PC is found under way on no other, unless
\* --allow-active-locks let its lock pass or it was started between the checks
\* of a push and git add.
THEOREM LocksStayTheorem == Spec => []LocksStayOnTheirPC
<1>1. SyncInv => LocksStayOnTheirPC
  BY DEF SyncInv, LocksAtHome, OwnLock, Free, LocksStayOnTheirPC
<1> QED BY <1>1, SyncInvariance, PTL
=============================================================================
