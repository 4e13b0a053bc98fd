------------------------ MODULE BackupRestore_proofs ------------------------
(***************************************************************************)
(* Proof that a restore is safe and atomic for any uploads, any number of  *)
(* restores and any faults and crashes, as long as the process does not    *)
(* exit while a database is in place without the log that holds its last   *)
(* changes (MCShortDatabase shows what happens then).                      *)
(***************************************************************************)
EXTENDS BackupRestore, TLAPS

-----------------------------------------------------------------------------
(* The inductive invariant                                                  *)

\* From the save of the marker to that of its removal.
Marked == {"open", "validate", "prepare", "snapshot", "sidecars", "database", "sidecars_again",
           "hosts", "handoff", "reload", "fail", "retain", "succeed", "release"}
          \cup Backward \cup Original

\* While originals may be missing, the snapshots stand for them.
Replacing == {"sidecars", "database", "sidecars_again", "hosts", "handoff", "reload"}
             \cup Backward

Served(files) == run = [conn |-> files.db.set, loaded |-> files.db.set, notes |-> TRUE]

\* A database that may be put in place.
Sound(db) ==
  /\ db.key = "current" /\ ~db.archived
  /\ db.set <= restores
  /\ db.job = "succeeded" => db.set > 0

SoundInv ==
  /\ Sound(disk.db)
  /\ snaps.kept => Sound(snaps.files.db)
  /\ Recoverable

\* The gate is closed while a restore runs, and it has not answered yet.
GateInv ==
  /\ ~up => op = Idle
  /\ up => (gate = "exclusive" <=> op.pc \notin {"idle", "complete"})
  /\ op.pc \in {"idle", "complete"} => op = Idle \/ gate = "open"
  /\ gate = "exclusive" => answer = "none"
  /\ gate = "pending" => answer = "unreleased"
  /\ gate = "exclusive" \/ op.pc = "complete" => restores > 0
  /\ shown \in Sets /\ shown <= restores /\ restores \in Sets

\* The marker is in the database in place from Activate to Release, and as long as
\* the gate is latched or its release pending.
MarkerInv ==
  /\ gate \in {"pending", "latched"} => disk.db.marker
  /\ op.pc \in Marked => disk.db.marker
  /\ gate = "open" \/ op.pc \in {"job", "activate", "publish"} => ~disk.db.marker

\* When the files in place are whole, and which data set they hold.
Holds(set) == Whole(disk) /\ disk.db.set = set

WholeInv ==
  /\ up /\ gate = "open" => Holds(shown) /\ Served(disk)
  /\ up /\ gate = "pending" => (Holds(shown) \/ Holds(restores)) /\ Served(disk)
  /\ op.pc \in {"job", "activate", "open", "validate", "prepare", "fail"} =>
       Holds(shown) /\ Served(disk)
  /\ op.pc \in {"snapshot", "undo_reload"} \cup Original => Holds(shown)
  /\ op.pc = "reload" => Holds(restores)
  /\ op.pc = "succeed" => Holds(restores) /\ Served(disk)
  /\ op.pc \in {"release", "publish"} =>
       /\ Served(disk)
       /\ \/ op.outcome = "restored" /\ Holds(restores)
          \/ op.outcome = "failed" /\ Holds(shown)
  /\ op.pc = "complete" => disk.db.set > 0
  /\ ~up => ~Short(disk)
  /\ ~up /\ ~disk.db.marker => Holds(shown) \/ (gate = "exclusive" /\ Holds(restores))

\* What Validate prepared, until it is in place.
StageInv ==
  /\ op.pc \in {"prepare", "snapshot", "sidecars", "database", "sidecars_again", "hosts",
                "handoff"} =>
       /\ Sound(stage) /\ stage.set = restores /\ stage.marker /\ ~stage.behind
       /\ stage.hosts = IF op.archive.hosts THEN restores ELSE disk.hosts
  /\ op.pc \in {"sidecars_again", "hosts", "handoff"} => disk.db = stage
  /\ op.pc \in {"hosts", "handoff"} => disk.wal = None
  /\ op.pc = "handoff" => disk.hosts = stage.hosts

\* The originals, and what the rollback has put back of them.
SnapInv ==
  /\ op.pc \in Replacing =>
       /\ snaps.kept /\ Whole(snaps.files)
       /\ snaps.files.db.set = shown /\ snaps.files.db.marker
       /\ ~op.archive.hosts => disk.hosts = snaps.files.hosts
  /\ ~op.left =>
       /\ op.pc \in {"undo_wal", "undo_hosts", "undo_handoff"} => disk.db = snaps.files.db
       /\ op.pc \in {"undo_hosts", "undo_handoff"} => disk.wal = snaps.files.wal
       /\ op.pc = "undo_handoff" => disk.hosts = snaps.files.hosts

Safe == SoundInv /\ GateInv /\ MarkerInv /\ WholeInv /\ StageInv /\ SnapInv

IInv == TypeOK /\ Safe

-----------------------------------------------------------------------------
(* What the operations on files keep                                        *)

\* g holds the data of f, is whole if f is, and no restore job succeeded in between.
Like(f, g) ==
  /\ g \in Files
  /\ g.hosts = f.hosts
  /\ g.db.set = f.db.set /\ g.db.hosts = f.db.hosts
  /\ g.db.key = f.db.key /\ g.db.archived = f.db.archived
  /\ g.db.job = "succeeded" => f.db.job = "succeeded"
  /\ Whole(f) => Whole(g)

\* The values that stand for no data set are none (the sentinels of the model).
LEMMA Sentinels == None \notin Sets /\ Mixed \notin Sets /\ None # Mixed
  BY RestoreAssumption DEF None, Mixed, Sets

\* A file keeps its data through any number of such operations.
LEMMA LikeTrans ==
  ASSUME NEW f, NEW g, NEW h, Like(f, g), Like(g, h)
  PROVE  Like(f, h)
  BY Zenon DEF Like

\* Files that are left alone.
LEMMA LikeSame ==
  ASSUME NEW f \in Files
  PROVE  Like(f, f)
  BY Zenon DEF Like

\* Saving or clearing the maintenance marker changes nothing else (saveState).
LEMMA MarkLike ==
  ASSUME NEW f \in Files, NEW m \in BOOLEAN
  PROVE  LET g == [f EXCEPT !.db.marker = m] IN Like(f, g) /\ g.db.marker = m
  BY Zenon DEF Like, Files, Database, Whole, Short

\* Writing the job record of the restore, but for its success.
LEMMA JobLike ==
  ASSUME NEW f \in Files, NEW j \in {"none", "running", "failed", "interrupted"}
  PROVE  LET g == [f EXCEPT !.db.job = j] IN Like(f, g) /\ g.db.marker = f.db.marker
  BY Zenon DEF Like, Files, Database, Whole, Short

\* Unfinished jobs marked as interrupted at a start or a reload.
LEMMA InterruptedLike ==
  ASSUME NEW f \in Files
  PROVE  Like(f, Interrupted(f)) /\ Interrupted(f).db.marker = f.db.marker
  BY Zenon DEF Like, Interrupted, Files, Database, Whole, Short

\* Closing the connection, with or without the log merged.
LEMMA ClosedLike ==
  ASSUME NEW f \in Files, NEW g \in Closed(f)
  PROVE  Like(f, g) /\ g.db.marker = f.db.marker
  <1>1. CASE g = f
    BY <1>1, Zenon DEF Like
  <1>2. CASE g = [f EXCEPT !.wal = None, !.db.behind = FALSE]
    BY <1>2, Zenon DEF Like, Files, Database, Whole, Short
  <1> QED BY <1>1, <1>2, Zenon DEF Closed

\* Opening the database writes a log, unless what lies there cannot be opened.
LEMMA LogLike ==
  ASSUME NEW f \in Files
  PROVE  /\ Like(f, WithLog(f)) /\ WithLog(f).db.marker = f.db.marker
         /\ Opened(f) \in Sets \cup {Mixed}
         /\ Whole(f) => Opened(f) = f.db.set
  <1>1. f.db.set \in Sets
    BY Zenon DEF Files, Database
  <1>2. Opened(f) \in Sets \cup {Mixed}
    BY <1>1, Zenon DEF Opened
  <1>3. Whole(f) => Opened(f) = f.db.set
    BY Zenon DEF Opened, Whole
  <1>4. CASE Opened(f) = Mixed
    BY <1>2, <1>3, <1>4, Zenon DEF WithLog, Like
  <1>5. CASE Opened(f) # Mixed
    <2> DEFINE g == [f EXCEPT !.wal = f.db.set, !.db.behind = TRUE]
    <2>1. WithLog(f) = g
      BY <1>5, Zenon DEF WithLog
    <2>2. Like(f, g) /\ g.db.marker = f.db.marker
      BY <1>1, Zenon DEF Like, Files, Database, Whole, Short
    <2> QED BY <1>2, <1>3, <2>1, <2>2, Zenon
  <1> QED BY <1>4, <1>5, Zenon

-----------------------------------------------------------------------------
(* Steps of a restore whose marker is saved                                 *)

Processes == [conn : Sets \cup {None, Mixed}, loaded : Sets \cup {Mixed}, notes : BOOLEAN]

Steps == {"idle"} \cup Forward \cup Backward \cup Original \cup Ending

Operations == [pc : Steps, archive : Archives \cup {NoArchive}, left : BOOLEAN,
               outcome : {"none", "restored", "failed"}]

\* What the gate and the marker need of such a step.
LEMMA RestoreRuns ==
  ASSUME IInv, up, op.pc \in Marked, op'.pc \in Marked, disk'.db.marker,
         UNCHANGED <<up, gate, answer, shown, restores>>
  PROVE  GateInv' /\ MarkerInv' /\ gate' = "exclusive" /\ up'
  <1>1. op.pc \notin {"idle", "complete"} /\ op'.pc \notin {"idle", "complete"}
    BY Zenon DEF Marked, Backward, Original
  <1>2. GateInv /\ gate = "exclusive"
    BY <1>1, Zenon DEF IInv, Safe, GateInv
  <1>3. GateInv'
    BY <1>1, <1>2, Zenon DEF GateInv
  <1>4. op'.pc \notin {"job", "activate", "publish"}
    BY Zenon DEF Marked, Backward, Original
  <1>5. MarkerInv'
    BY <1>2, <1>4, Zenon DEF MarkerInv
  <1> QED BY <1>2, <1>3, <1>5, Zenon

\* Files that keep their data are as sound and as recoverable as before.
LEMMA LikeSound ==
  ASSUME IInv, Like(disk, disk'), UNCHANGED <<snaps, restores>>
  PROVE  /\ SoundInv' /\ disk' \in Files
         /\ \A set : Holds(set) => Whole(disk') /\ disk'.db.set = set
  BY Zenon DEF IInv, Safe, SoundInv, Sound, Recoverable, Like, Holds

\* The types, when the gate's variables and the stage stay as they are.
LEMMA TypeKept ==
  ASSUME IInv, disk' \in Files, UNCHANGED <<stage, gate, answer, shown>>,
         snaps' = snaps \/ snaps' = NoSnaps \/ snaps' = [kept |-> TRUE, files |-> disk],
         run' \in Processes,
         op' \in Operations
  PROVE  TypeOK'
  BY DEF IInv, TypeOK, Processes, Operations, Steps

\* What the end of PreparePersistenceReplacement leaves, done or failed.
LEMMA PrepareDoes ==
  ASSUME IInv, NEW from, NEW to, NEW otherwise, Prepare(from, to, otherwise)
  PROVE  /\ up /\ op.pc = from
         /\ Like(disk, disk') /\ disk'.db.marker = disk.db.marker
         /\ run' \in Processes
         /\ UNCHANGED <<stage, snaps, gate, answer, shown, up, restores>>
         /\ \/ op' = [op EXCEPT !.pc = to]
            \/ op' = [op EXCEPT !.pc = otherwise] /\ UNCHANGED <<disk, run>>
  <1>0. disk \in Files /\ TypeOK
    BY Zenon DEF IInv, TypeOK
  <1>1. Like(disk, disk) /\ \A g \in Closed(disk) : Like(disk, g) /\ g.db.marker = disk.db.marker
    BY <1>0, ClosedLike, LikeSame, Zenon
  <1>2. Like(disk, disk') /\ disk'.db.marker = disk.db.marker
    BY <1>1, Zenon DEF Prepare
  <1>3. run' \in Processes
    BY <1>0, Zenon DEF Prepare, TypeOK, Processes
  <1> QED BY <1>2, <1>3, Zenon DEF Prepare, At, Goto

\* What a handoff leaves: the marker is in whatever database is in place.
LEMMA HandoffDoes ==
  ASSUME IInv, NEW from, NEW to, NEW otherwise, Handoff(from, to, otherwise)
  PROVE  /\ up /\ op.pc = from
         /\ Like(disk, disk') /\ (disk.db.marker => disk'.db.marker)
         /\ run' \in Processes
         /\ UNCHANGED <<stage, snaps, gate, answer, shown, up, restores>>
         /\ op' = [op EXCEPT !.pc = to] \/ op' = [op EXCEPT !.pc = otherwise]
  <1>0. disk \in Files /\ TypeOK
    BY Zenon DEF IInv, TypeOK
  <1> DEFINE f == WithLog(disk)
             g == [f EXCEPT !.db.marker = TRUE]
  <1>1. Like(disk, f) /\ f.db.marker = disk.db.marker /\ Opened(disk) \in Sets \cup {Mixed}
    BY <1>0, LogLike, Zenon
  <1>2. f \in Files
    BY <1>1, Zenon DEF Like
  <1>3. Like(f, g) /\ g.db.marker = TRUE
    BY <1>2, MarkLike, Zenon
  <1>4. Like(disk, g) /\ Like(disk, disk)
    BY <1>0, <1>1, <1>3, LikeTrans, LikeSame, Zenon
  <1>5. disk' \in {disk, f, g}
    BY Zenon DEF Handoff
  <1>6. Like(disk, disk') /\ (disk.db.marker => disk'.db.marker)
    BY <1>1, <1>3, <1>4, <1>5, Zenon
  <1>7. run' = run \/ run' = [run EXCEPT !.conn = Opened(disk)]
    BY Zenon DEF Handoff
  <1>8. run' \in Processes
    BY <1>0, <1>1, <1>7, Zenon DEF TypeOK, Processes
  <1> QED BY <1>6, <1>8, Zenon DEF Handoff, At, Goto

\* What a reload leaves: done, it serves the files in place if they are whole.
LEMMA ReloadDoes ==
  ASSUME IInv, NEW from, NEW to, NEW otherwise, Reload(from, to, otherwise)
  PROVE  /\ up /\ op.pc = from
         /\ Like(disk, disk') /\ disk'.db.marker = disk.db.marker
         /\ run' \in Processes
         /\ UNCHANGED <<stage, snaps, gate, answer, shown, up, restores>>
         /\ \/ op' = [op EXCEPT !.pc = to] /\ (Whole(disk) => Served(disk)')
            \/ op' = [op EXCEPT !.pc = otherwise]
  <1>0. disk \in Files /\ TypeOK
    BY Zenon DEF IInv, TypeOK
  <1> DEFINE f == WithLog(disk)
             opened == Opened(disk)
  <1>1. Like(disk, f) /\ f.db.marker = disk.db.marker /\ opened \in Sets \cup {Mixed}
        /\ (Whole(disk) => opened = disk.db.set)
    BY <1>0, LogLike, Zenon
  <1>2. f \in Files
    BY <1>1, Zenon DEF Like
  <1>3. Like(f, Interrupted(f)) /\ Interrupted(f).db.marker = f.db.marker
    BY <1>2, InterruptedLike, Zenon
  <1>4. Like(disk, Interrupted(f)) /\ Like(disk, disk)
    BY <1>0, <1>1, <1>3, LikeTrans, LikeSame, Zenon
  <1>5. disk' \in {disk, f, Interrupted(f)}
    BY Zenon DEF Reload
  <1>6. Like(disk, disk') /\ disk'.db.marker = disk.db.marker
    BY <1>1, <1>3, <1>4, <1>5, Zenon
  <1>7. \/ run' = run \/ run' = [conn |-> opened, loaded |-> opened, notes |-> TRUE]
        \/ \E l \in {run.loaded, opened} : run' = [conn |-> opened, loaded |-> l, notes |-> FALSE]
    BY Zenon DEF Reload
  <1>8. run.loaded \in Sets \cup {Mixed}
    BY <1>0, Zenon DEF TypeOK
  <1>9. run' \in Processes
    <2>1. CASE run' = run
      BY <1>0, <2>1, Zenon DEF TypeOK, Processes
    <2>2. ASSUME NEW l \in Sets \cup {Mixed}, NEW n \in BOOLEAN,
                 run' = [conn |-> opened, loaded |-> l, notes |-> n]
          PROVE  run' \in Processes
      BY <1>1, <2>2, Zenon DEF Processes
    <2> HIDE DEF opened
    <2> QED BY <1>1, <1>7, <1>8, <2>1, <2>2, Zenon
  <1>10. \/ op' = [op EXCEPT !.pc = to] /\ run' = [conn |-> opened, loaded |-> opened, notes |-> TRUE]
         \/ op' = [op EXCEPT !.pc = otherwise]
    BY Zenon DEF Reload, Goto
  <1>11. disk'.db.set = disk.db.set
    BY <1>6, Zenon DEF Like
  <1>12. \/ op' = [op EXCEPT !.pc = to] /\ (Whole(disk) => Served(disk)')
         \/ op' = [op EXCEPT !.pc = otherwise]
    BY <1>1, <1>10, <1>11, Zenon DEF Served
  <1> QED BY <1>6, <1>9, <1>12, Zenon DEF Reload, At

\* The restore moves on, with nothing else of it changed.
LEMMA Moves ==
  ASSUME IInv, NEW to \in Steps, op' = [op EXCEPT !.pc = to]
  PROVE  /\ op' \in Operations /\ op'.pc = to /\ op'.archive = op.archive
         /\ op'.left = op.left /\ op'.outcome = op.outcome
  <1>1. op \in Operations
    BY Zenon DEF IInv, TypeOK, Operations, Steps
  <1> QED BY <1>1, Zenon DEF Operations

\* The steps at which the prepared database has yet to be put in place.
Staged == {"prepare", "snapshot", "sidecars", "database", "sidecars_again", "hosts", "handoff"}

\* A step of the file work that leaves the data of the files alone.
LEMMA LikeStep ==
  ASSUME IInv, up, op.pc \in Marked, NEW to \in Marked \ {"release"}, op' = [op EXCEPT !.pc = to],
         Like(disk, disk'), disk.db.marker => disk'.db.marker, run' \in Processes,
         UNCHANGED <<stage, snaps, gate, answer, shown, up, restores>>
  PROVE  /\ TypeOK' /\ SoundInv' /\ GateInv' /\ MarkerInv'
         /\ \A set : Holds(set) => Whole(disk') /\ disk'.db.set = set
         /\ op'.pc = to /\ gate' = "exclusive" /\ up'
         /\ to \notin Staged => StageInv'
         /\ (/\ to \notin {"undo_wal", "undo_hosts", "undo_handoff"}
             /\ to \in Replacing => op.pc \in Replacing) => SnapInv'
  <1>1. to \in Steps
    BY Zenon DEF Steps, Marked, Forward, Ending
  <1>2. op' \in Operations /\ op'.pc = to /\ op'.archive = op.archive
    BY <1>1, Moves, Zenon
  <1>3. SoundInv' /\ disk' \in Files /\ \A set : Holds(set) => Whole(disk') /\ disk'.db.set = set
    BY LikeSound, Zenon
  <1>4. TypeOK'
    BY <1>2, <1>3, TypeKept, Zenon
  <1>5. disk.db.marker
    BY Zenon DEF IInv, Safe, MarkerInv
  <1>6. GateInv' /\ MarkerInv' /\ gate' = "exclusive" /\ up'
    BY <1>2, <1>5, RestoreRuns, Zenon
  <1>7. to \notin Staged => StageInv'
    BY <1>2, Zenon DEF Staged, StageInv
  <1>8. ASSUME to \notin {"undo_wal", "undo_hosts", "undo_handoff"},
               to \in Replacing => op.pc \in Replacing
        PROVE  SnapInv'
    <2>1. disk'.hosts = disk.hosts
      BY Zenon DEF Like
    <2>2. SnapInv
      BY Zenon DEF IInv, Safe
    <2> QED BY <1>2, <1>8, <2>1, <2>2, Zenon DEF SnapInv
  <1> QED BY <1>2, <1>3, <1>4, <1>6, <1>7, <1>8, Zenon

\* PreparePersistenceReplacement before anything is replaced.
LEMMA PrepareSafe ==
  ASSUME IInv, Prepare("prepare", "snapshot", "fail")
  PROVE  IInv'
  <1>0. "prepare" \in Marked /\ "snapshot" \in Marked \ {"release"} /\ "fail" \in Marked \ {"release"}
    BY Zenon DEF Marked
  <1>1. /\ up /\ op.pc = "prepare"
        /\ Like(disk, disk') /\ disk'.db.marker = disk.db.marker
        /\ run' \in Processes
        /\ UNCHANGED <<stage, snaps, gate, answer, shown, up, restores>>
        /\ \/ op' = [op EXCEPT !.pc = "snapshot"]
           \/ op' = [op EXCEPT !.pc = "fail"] /\ UNCHANGED <<disk, run>>
    BY PrepareDoes, Zenon
  <1>2. WholeInv /\ StageInv /\ Holds(shown) /\ Served(disk)
    BY <1>1, Zenon DEF IInv, Safe, WholeInv
  <1>3. CASE op' = [op EXCEPT !.pc = "snapshot"]
    <2>1. /\ TypeOK' /\ SoundInv' /\ GateInv' /\ MarkerInv'
          /\ \A set : Holds(set) => Whole(disk') /\ disk'.db.set = set
          /\ op'.pc = "snapshot" /\ gate' = "exclusive" /\ up'
          /\ SnapInv'
      BY <1>0, <1>1, <1>3, LikeStep, Zenon DEF Replacing, Backward
    <2>2. WholeInv'
      BY <1>1, <1>2, <2>1, Zenon DEF WholeInv, Holds, Original
    <2>3. op'.archive = op.archive /\ disk'.hosts = disk.hosts
      BY <1>1, <1>3, Zenon DEF Like, IInv, TypeOK
    <2>4. StageInv'
      BY <1>1, <1>2, <2>1, <2>3, Zenon DEF StageInv, Sound
    <2> QED BY <2>1, <2>2, <2>4, Zenon DEF IInv, Safe
  <1>4. CASE op' = [op EXCEPT !.pc = "fail"] /\ UNCHANGED <<disk, run>>
    <2>1. /\ TypeOK' /\ SoundInv' /\ GateInv' /\ MarkerInv'
          /\ op'.pc = "fail" /\ gate' = "exclusive" /\ up'
          /\ SnapInv' /\ StageInv'
      BY <1>0, <1>1, <1>4, LikeStep, Zenon DEF Replacing, Backward, Staged
    <2>2. WholeInv'
      BY <1>1, <1>2, <1>4, <2>1, Zenon DEF WholeInv, Holds, Served, Original
    <2> QED BY <2>1, <2>2, Zenon DEF IInv, Safe
  <1> QED BY <1>1, <1>3, <1>4, Zenon



\* Such a step, to where nothing is staged: what the next step counts on must hold.
LEMMA QuietStep ==
  ASSUME IInv, up, op.pc \in Marked,
         NEW to \in {"unprepare", "undo_database", "retain", "reload", "succeed", "undo_reload",
                     "original_reload", "fail"},
         op' = [op EXCEPT !.pc = to],
         Like(disk, disk'), disk.db.marker => disk'.db.marker, run' \in Processes,
         UNCHANGED <<stage, snaps, gate, answer, shown, up, restores>>,
         to \in Replacing => op.pc \in Replacing,
         to \in {"undo_reload", "original_reload", "fail"} => Holds(shown),
         to \in {"reload", "succeed"} => Holds(restores),
         to \in {"fail", "succeed"} => Served(disk)'
  PROVE  IInv'
  <1>1. to \in Marked \ {"release"} /\ to \notin Staged
        /\ to \notin {"undo_wal", "undo_hosts", "undo_handoff"}
    BY Zenon DEF Marked, Backward, Original, Staged
  <1>2. /\ TypeOK' /\ SoundInv' /\ GateInv' /\ MarkerInv' /\ StageInv' /\ SnapInv'
        /\ \A set : Holds(set) => Whole(disk') /\ disk'.db.set = set
        /\ op'.pc = to /\ gate' = "exclusive" /\ up'
    BY <1>1, LikeStep, Zenon
  <1>3. Holds(shown) => Holds(shown)'
    BY <1>2, Zenon DEF Holds
  <1>4. Holds(restores) => Holds(restores)'
    BY <1>2, Zenon DEF Holds
  <1>5. to \notin {"job", "activate", "open", "validate", "prepare", "snapshot",
                   "original_handoff", "release", "publish", "complete"}
    BY Zenon
  <1>6. WholeInv'
    BY <1>2, <1>3, <1>4, <1>5, Zenon DEF WholeInv, Original
  <1> QED BY <1>2, <1>6, Zenon DEF IInv, Safe

\* PreparePersistenceReplacement before the rollback.
LEMMA UnprepareSafe ==
  ASSUME IInv, Prepare("unprepare", "undo_database", "retain")
  PROVE  IInv'
  <1>0. "unprepare" \in Marked /\ "unprepare" \in Replacing /\ "retain" \notin Replacing
    BY Zenon DEF Marked, Replacing, Backward
  <1>1. /\ up /\ op.pc = "unprepare"
        /\ Like(disk, disk') /\ disk'.db.marker = disk.db.marker
        /\ run' \in Processes
        /\ UNCHANGED <<stage, snaps, gate, answer, shown, up, restores>>
        /\ op' = [op EXCEPT !.pc = "undo_database"] \/ op' = [op EXCEPT !.pc = "retain"]
    BY PrepareDoes, Zenon
  <1> QED BY <1>0, <1>1, QuietStep, Zenon

\* The handoff to the restored database: it is complete by then.
LEMMA HandoffSafe ==
  ASSUME IInv, Handoff("handoff", "reload", "unprepare")
  PROVE  IInv'
  <1>0. "handoff" \in Marked /\ "handoff" \in Replacing
    BY Zenon DEF Marked, Replacing
  <1>1. /\ up /\ op.pc = "handoff"
        /\ Like(disk, disk') /\ (disk.db.marker => disk'.db.marker)
        /\ run' \in Processes
        /\ UNCHANGED <<stage, snaps, gate, answer, shown, up, restores>>
        /\ op' = [op EXCEPT !.pc = "reload"] \/ op' = [op EXCEPT !.pc = "unprepare"]
    BY HandoffDoes, Zenon
  <1>2. /\ disk.db = stage /\ disk.wal = None /\ disk.hosts = stage.hosts
        /\ stage.set = restores /\ ~stage.behind
    BY <1>1, Zenon DEF IInv, Safe, StageInv
  <1>3. Holds(restores)
    BY <1>2, Zenon DEF Holds, Whole, Short
  <1> QED BY <1>0, <1>1, <1>3, QuietStep, Zenon

\* The handoff back to the originals, once every file could be put back, or to
\* originals nothing was done to.
LEMMA HandBackSafe ==
  ASSUME IInv,
         \/ ~op.left /\ Handoff("undo_handoff", "undo_reload", "retain")
         \/ Handoff("original_handoff", "original_reload", "retain")
  PROVE  IInv'
  <1>0. /\ "undo_handoff" \in Marked \cap Replacing /\ "original_handoff" \in Marked
        /\ "retain" \notin Replacing /\ "original_reload" \notin Replacing
    BY Zenon DEF Marked, Replacing, Backward, Original
  <1>1. CASE ~op.left /\ Handoff("undo_handoff", "undo_reload", "retain")
    <2>1. /\ up /\ op.pc = "undo_handoff"
          /\ Like(disk, disk') /\ (disk.db.marker => disk'.db.marker)
          /\ run' \in Processes
          /\ UNCHANGED <<stage, snaps, gate, answer, shown, up, restores>>
          /\ op' = [op EXCEPT !.pc = "undo_reload"] \/ op' = [op EXCEPT !.pc = "retain"]
      BY <1>1, HandoffDoes, Zenon
    <2>2. /\ disk.db = snaps.files.db /\ disk.wal = snaps.files.wal
          /\ disk.hosts = snaps.files.hosts
          /\ Whole(snaps.files) /\ snaps.files.db.set = shown
      BY <1>0, <1>1, <2>1, Zenon DEF IInv, Safe, SnapInv
    <2>3. Holds(shown)
      BY <2>2, Zenon DEF Holds, Whole, Short
    <2> QED BY <1>0, <2>1, <2>3, QuietStep, Zenon
  <1>2. CASE Handoff("original_handoff", "original_reload", "retain")
    <2>1. /\ up /\ op.pc = "original_handoff"
          /\ Like(disk, disk') /\ (disk.db.marker => disk'.db.marker)
          /\ run' \in Processes
          /\ UNCHANGED <<stage, snaps, gate, answer, shown, up, restores>>
          /\ op' = [op EXCEPT !.pc = "original_reload"] \/ op' = [op EXCEPT !.pc = "retain"]
      BY <1>2, HandoffDoes, Zenon
    <2>2. Holds(shown)
      BY <2>1, Zenon DEF IInv, Safe, WholeInv, Original
    <2> QED BY <1>0, <2>1, <2>2, QuietStep, Zenon
  <1> QED BY <1>1, <1>2, Zenon

\* ReloadRestoredState, of the restored database or of the originals.
LEMMA ReloadSafe ==
  ASSUME IInv,
         \/ Reload("reload", "succeed", "unprepare")
         \/ Reload("undo_reload", "fail", "retain")
         \/ Reload("original_reload", "fail", "retain")
  PROVE  IInv'
  <1>0. /\ {"reload", "undo_reload"} \subseteq Marked \cap Replacing
        /\ "original_reload" \in Marked
        /\ {"retain", "fail", "succeed"} \cap Replacing = {}
    BY Zenon DEF Marked, Replacing, Backward, Original
  <1>1. ASSUME NEW from \in {"reload", "undo_reload", "original_reload"},
               NEW to, NEW otherwise, Reload(from, to, otherwise)
        PROVE  /\ up /\ op.pc = from
               /\ Like(disk, disk') /\ disk'.db.marker = disk.db.marker
               /\ run' \in Processes
               /\ UNCHANGED <<stage, snaps, gate, answer, shown, up, restores>>
               /\ Holds(IF from = "reload" THEN restores ELSE shown)
               /\ \/ op' = [op EXCEPT !.pc = to] /\ Served(disk)'
                  \/ op' = [op EXCEPT !.pc = otherwise]
    <2>1. /\ up /\ op.pc = from
          /\ Like(disk, disk') /\ disk'.db.marker = disk.db.marker
          /\ run' \in Processes
          /\ UNCHANGED <<stage, snaps, gate, answer, shown, up, restores>>
          /\ \/ op' = [op EXCEPT !.pc = to] /\ (Whole(disk) => Served(disk)')
             \/ op' = [op EXCEPT !.pc = otherwise]
      BY <1>1, ReloadDoes, Zenon
    <2>2. Holds(IF from = "reload" THEN restores ELSE shown)
      BY <2>1, Zenon DEF IInv, Safe, WholeInv, Original
    <2>3. Whole(disk)
      BY <2>2, Zenon DEF Holds
    <2> QED BY <2>1, <2>2, <2>3, Zenon
  <1>2. CASE Reload("reload", "succeed", "unprepare")
    BY <1>0, <1>1, <1>2, QuietStep, Zenon
  <1>3. CASE Reload("undo_reload", "fail", "retain")
    BY <1>0, <1>1, <1>3, QuietStep, Zenon
  <1>4. CASE Reload("original_reload", "fail", "retain")
    BY <1>0, <1>1, <1>4, QuietStep, Zenon
  <1> QED BY <1>2, <1>3, <1>4, Zenon

-----------------------------------------------------------------------------
(* Files replaced and put back                                              *)

\* The snapshots of the originals are complete before anything is replaced.
LEMMA SnapshotSafe ==
  ASSUME IInv, Snapshot
  PROVE  IInv'
  <1>0. /\ {"snapshot", "sidecars", "original_handoff"} \subseteq Marked \cap Steps
        /\ "original_handoff" \notin Replacing /\ "original_handoff" \notin Staged
    BY Zenon DEF Marked, Steps, Forward, Original, Replacing, Backward, Staged
  <1>1. up /\ op.pc = "snapshot" /\ UNCHANGED <<disk, stage, run, gate, answer, shown, up, restores>>
    BY Zenon DEF Snapshot, At
  <1>2. Holds(shown) /\ disk.db.marker /\ SoundInv /\ StageInv /\ run \in Processes /\ disk \in Files
    BY <1>0, <1>1, Zenon DEF IInv, Safe, WholeInv, MarkerInv, TypeOK, Processes
  <1>3. CASE snaps' = [kept |-> TRUE, files |-> disk] /\ op' = [op EXCEPT !.pc = "sidecars"]
    <2>1. op' \in Operations /\ op'.pc = "sidecars" /\ op'.archive = op.archive
      BY <1>0, <1>3, Moves, Zenon
    <2>2. TypeOK'
      BY <1>1, <1>2, <1>3, <2>1, TypeKept, Zenon
    <2>3. GateInv' /\ MarkerInv' /\ gate' = "exclusive" /\ up'
      BY <1>0, <1>1, <1>2, <2>1, RestoreRuns, Zenon
    <2>4. SoundInv'
      BY <1>1, <1>2, <1>3, Zenon DEF SoundInv, Sound, Recoverable, Holds
    <2>5. WholeInv' /\ StageInv'
      BY <1>1, <1>2, <2>1, <2>3, Zenon DEF WholeInv, StageInv, Sound, Original
    <2>6. SnapInv'
      BY <1>1, <1>2, <1>3, <2>1, Zenon DEF SnapInv, Holds
    <2> QED BY <2>2, <2>3, <2>4, <2>5, <2>6, Zenon DEF IInv, Safe
  <1>4. CASE op' = [op EXCEPT !.pc = "original_handoff"] /\ UNCHANGED snaps
    <2>1. Like(disk, disk')
      BY <1>1, <1>2, LikeSame, Zenon
    <2>2. /\ TypeOK' /\ SoundInv' /\ GateInv' /\ MarkerInv' /\ StageInv' /\ SnapInv'
          /\ op'.pc = "original_handoff" /\ gate' = "exclusive" /\ up'
      BY <1>0, <1>1, <1>2, <1>4, <2>1, LikeStep, Zenon
    <2>3. WholeInv'
      BY <1>1, <1>2, <2>2, Zenon DEF WholeInv, Holds, Original
    <2> QED BY <2>2, <2>3, Zenon DEF IInv, Safe
  <1> QED BY <1>3, <1>4, Zenon DEF Snapshot, Goto

\* A file that could not be replaced stays as it was, and the rollback begins.
LEMMA ReplaceFails ==
  ASSUME IInv, up, op.pc \in Replacing, op' = [op EXCEPT !.pc = "unprepare"],
         UNCHANGED <<disk, stage, snaps, run, gate, answer, shown, up, restores>>
  PROVE  IInv'
  <1>1. op.pc \in Marked
    BY Zenon DEF Marked, Replacing, Backward
  <1>2. run \in Processes /\ disk \in Files
    BY Zenon DEF IInv, TypeOK, Processes
  <1> QED BY <1>1, <1>2, LikeSame, QuietStep, Zenon

\* One that was replaced or put back by a sound database's file.
LEMMA FileReplaced ==
  ASSUME IInv, up, op.pc \in Replacing, NEW to \in Replacing \ {"reload", "undo_reload"}, NEW left \in BOOLEAN,
         op' = [op EXCEPT !.pc = to, !.left = left],
         disk' \in Files, Sound(disk'.db), disk'.db.marker,
         ~op.archive.hosts => disk'.hosts = disk.hosts,
         UNCHANGED <<stage, snaps, run, gate, answer, shown, up, restores>>
  PROVE  /\ TypeOK' /\ SoundInv' /\ GateInv' /\ MarkerInv' /\ WholeInv'
         /\ snaps'.kept /\ Whole(snaps'.files)
         /\ snaps'.files.db.set = shown' /\ snaps'.files.db.marker
         /\ ~op'.archive.hosts => disk'.hosts = snaps'.files.hosts
         /\ op'.pc = to /\ op'.archive = op.archive /\ op'.left = left
  <1>1. op \in Operations /\ run \in Processes
    BY Zenon DEF IInv, TypeOK, Operations, Processes, Steps
  <1>2. op.pc \in Marked /\ to \in Marked /\ to \in Steps
    BY Zenon DEF Marked, Replacing, Backward, Steps, Forward
  <1>3. op' \in Operations /\ op'.pc = to /\ op'.archive = op.archive /\ op'.left = left
    BY <1>1, <1>2, Zenon DEF Operations
  <1>4. GateInv' /\ MarkerInv' /\ gate' = "exclusive" /\ up'
    BY <1>2, <1>3, RestoreRuns, Zenon
  <1>5. TypeOK'
    BY <1>1, <1>3, TypeKept, Zenon
  <1>6. /\ snaps.kept /\ Whole(snaps.files) /\ snaps.files.db.set = shown /\ snaps.files.db.marker
        /\ ~op.archive.hosts => disk.hosts = snaps.files.hosts
    BY Zenon DEF IInv, Safe, SnapInv
  <1>7. SoundInv'
    BY <1>6, Zenon DEF IInv, Safe, SoundInv, Sound, Recoverable
  <1>8. to \notin {"job", "activate", "open", "validate", "prepare", "snapshot", "fail", "undo_reload",
                   "original_handoff", "original_reload", "reload", "succeed", "release", "publish",
                   "complete"}
    BY Zenon DEF Replacing, Backward
  <1>9. WholeInv'
    BY <1>3, <1>4, <1>8, Zenon DEF WholeInv, Original
  <1> QED BY <1>3, <1>4, <1>5, <1>6, <1>7, <1>9, Zenon

\* The four steps of the replacement (applyArchiveFiles).
LEMMA ReplacementSafe ==
  ASSUME IInv, RemoveSidecars \/ WriteDatabase \/ RemoveSidecarsAgain \/ WriteHosts
  PROVE  IInv'
  <1> DEFINE from == {"sidecars", "database", "sidecars_again", "hosts"}
  <1>0. from \subseteq Replacing /\ {"database", "sidecars_again", "hosts", "handoff"} \subseteq Replacing
        /\ from \subseteq Marked
    BY Zenon DEF Replacing, Marked
  <1>1. /\ up /\ op.pc \in from
        /\ UNCHANGED <<stage, snaps, run, gate, answer, shown, up, restores>>
    BY Zenon DEF RemoveSidecars, WriteDatabase, RemoveSidecarsAgain, WriteHosts, FileStep, At
  <1>2. /\ disk \in Files /\ stage \in Database /\ op \in Operations /\ restores \in Sets
        /\ Sound(disk.db) /\ disk.db.marker /\ StageInv
        /\ Sound(stage) /\ stage.set = restores /\ stage.marker /\ ~stage.behind
        /\ stage.hosts = IF op.archive.hosts THEN restores ELSE disk.hosts
    BY <1>0, <1>1, Zenon DEF IInv, Safe, TypeOK, SoundInv, GateInv, MarkerInv, StageInv, Operations, Steps
  <1>3. CASE op' = [op EXCEPT !.pc = "unprepare"] /\ UNCHANGED disk
    BY <1>0, <1>1, <1>3, ReplaceFails, Zenon
  <1>4. ASSUME NEW to \in {"database", "sidecars_again", "hosts", "handoff"},
               op' = [op EXCEPT !.pc = to], disk' \in Files, disk'.db \in {disk.db, stage},
               ~op.archive.hosts => disk'.hosts = disk.hosts,
               to \in {"sidecars_again", "hosts", "handoff"} => disk'.db = stage,
               to \in {"hosts", "handoff"} => disk'.wal = None,
               to = "handoff" => disk'.hosts = stage.hosts
        PROVE  IInv'
    <2>1. op' = [op EXCEPT !.pc = to, !.left = op.left] /\ op.left \in BOOLEAN
      BY <1>2, <1>4, Zenon DEF Operations
    <2>2. Sound(disk'.db) /\ disk'.db.marker
      BY <1>2, <1>4, Zenon
    <2>3. to \in Replacing \ {"reload", "undo_reload"}
      BY <1>0, Zenon
    <2>4. /\ TypeOK' /\ SoundInv' /\ GateInv' /\ MarkerInv' /\ WholeInv'
          /\ snaps'.kept /\ Whole(snaps'.files)
          /\ snaps'.files.db.set = shown' /\ snaps'.files.db.marker
          /\ ~op'.archive.hosts => disk'.hosts = snaps'.files.hosts
          /\ op'.pc = to /\ op'.archive = op.archive
      BY <1>0, <1>1, <1>4, <2>1, <2>2, <2>3, FileReplaced, Zenon
    <2>5. SnapInv'
      BY <1>4, <2>4, Zenon DEF SnapInv
    <2>6. StageInv'
      BY <1>1, <1>2, <1>4, <2>4, Zenon DEF StageInv, Sound
    <2> QED BY <2>4, <2>5, <2>6, Zenon DEF IInv, Safe
  <1>5. CASE RemoveSidecars
    <2>1. [disk EXCEPT !.wal = None] \in Files /\ [disk EXCEPT !.wal = None].db = disk.db
          /\ [disk EXCEPT !.wal = None].hosts = disk.hosts
      BY <1>2, Zenon DEF Files
    <2> QED BY <1>3, <1>4, <1>5, <2>1, Zenon DEF RemoveSidecars, FileStep, Goto
  <1>6. CASE WriteDatabase
    <2>1. [disk EXCEPT !.db = stage] \in Files /\ [disk EXCEPT !.db = stage].db = stage
          /\ [disk EXCEPT !.db = stage].hosts = disk.hosts
      BY <1>2, Zenon DEF Files
    <2> QED BY <1>3, <1>4, <1>6, <2>1, Zenon DEF WriteDatabase, FileStep, Goto
  <1>7. CASE RemoveSidecarsAgain
    <2>1. op.pc = "sidecars_again" /\ disk.db = stage
      BY <1>2, <1>7, Zenon DEF RemoveSidecarsAgain, FileStep, At, StageInv
    <2>2. [disk EXCEPT !.wal = None] \in Files /\ [disk EXCEPT !.wal = None].db = disk.db
          /\ [disk EXCEPT !.wal = None].hosts = disk.hosts
          /\ [disk EXCEPT !.wal = None].wal = None
      BY <1>2, Zenon DEF Files
    <2> QED BY <1>3, <1>4, <1>7, <2>1, <2>2, Zenon DEF RemoveSidecarsAgain, FileStep, Goto
  <1>8. CASE WriteHosts
    <2> DEFINE files == IF op.archive.hosts THEN [disk EXCEPT !.hosts = restores] ELSE disk
    <2>1. op.pc = "hosts" /\ disk.db = stage /\ disk.wal = None
      BY <1>2, <1>8, Zenon DEF WriteHosts, FileStep, At, StageInv
    <2>2. files \in Files /\ files.db = stage /\ files.wal = None /\ files.hosts = stage.hosts
          /\ (~op.archive.hosts => files.hosts = disk.hosts)
      BY <1>2, <2>1, Zenon DEF Files
    <2> QED BY <1>3, <1>4, <1>8, <2>2, Zenon DEF WriteHosts, FileStep, Goto
  <1> QED BY <1>5, <1>6, <1>7, <1>8, Zenon

\* The originals put back one by one; what could not be put back is remembered.
LEMMA UndoSafe ==
  ASSUME IInv, UndoDatabase \/ UndoWal \/ UndoHosts
  PROVE  IInv'
  <1> DEFINE from == {"undo_database", "undo_wal", "undo_hosts"}
             target == {"undo_wal", "undo_hosts", "undo_handoff"}
             files == snaps.files
  <1>0. from \subseteq Replacing /\ target \subseteq Replacing /\ from \subseteq Marked
    BY Zenon DEF Replacing, Marked, Backward
  <1>1. /\ up /\ op.pc \in from
        /\ UNCHANGED <<stage, snaps, run, gate, answer, shown, up, restores>>
    BY Zenon DEF UndoDatabase, UndoWal, UndoHosts, UndoStep, At
  <1>2. /\ snaps.kept /\ files.db.marker /\ SnapInv
        /\ ~op.archive.hosts => disk.hosts = files.hosts
    BY <1>0, <1>1, Zenon DEF IInv, Safe, SnapInv
  <1>3. /\ disk \in Files /\ files \in Files /\ op \in Operations
        /\ Sound(disk.db) /\ disk.db.marker /\ Sound(files.db)
    BY <1>0, <1>1, <1>2 DEF IInv, Safe, TypeOK, NoSnaps, SoundInv, MarkerInv, Operations, Steps
  <1>4. ASSUME NEW to \in target, NEW left \in BOOLEAN, op' = [op EXCEPT !.pc = to, !.left = left],
               disk' \in Files, disk'.db \in {disk.db, files.db},
               ~op.archive.hosts => disk'.hosts = disk.hosts,
               ~left => /\ disk'.db = files.db
                        /\ to \in {"undo_hosts", "undo_handoff"} => disk'.wal = files.wal
                        /\ to = "undo_handoff" => disk'.hosts = files.hosts
        PROVE  IInv'
    <2>1. Sound(disk'.db) /\ disk'.db.marker
      BY <1>2, <1>3, <1>4, Zenon
    <2>2. to \in Replacing \ {"reload", "undo_reload"}
      BY <1>0, Zenon
    <2>3. /\ TypeOK' /\ SoundInv' /\ GateInv' /\ MarkerInv' /\ WholeInv'
          /\ snaps'.kept /\ Whole(snaps'.files)
          /\ snaps'.files.db.set = shown' /\ snaps'.files.db.marker
          /\ ~op'.archive.hosts => disk'.hosts = snaps'.files.hosts
          /\ op'.pc = to /\ op'.left = left
      BY <1>0, <1>1, <1>4, <2>1, <2>2, FileReplaced, Zenon
    <2>4. SnapInv'
      BY <1>1, <1>4, <2>3, Zenon DEF SnapInv
    <2>5. StageInv'
      BY <2>3, Zenon DEF StageInv
    <2> QED BY <2>3, <2>4, <2>5, Zenon DEF IInv, Safe
  <1>5. ASSUME NEW to \in target, op' = [op EXCEPT !.pc = to, !.left = TRUE], UNCHANGED disk
        PROVE  IInv'
    BY <1>3, <1>4, <1>5, Zenon
  <1>6. ASSUME NEW to, op' = [op EXCEPT !.pc = to]
        PROVE  op' = [op EXCEPT !.pc = to, !.left = op.left] /\ op.left \in BOOLEAN
    BY <1>3, <1>6, Zenon DEF Operations
  <1>7. CASE UndoDatabase
    <2> DEFINE g == [disk EXCEPT !.db = files.db]
    <2>1. g \in Files /\ g.db = files.db /\ g.hosts = disk.hosts
      BY <1>3, Zenon DEF Files
    <2> QED BY <1>4, <1>5, <1>6, <1>7, <2>1, Zenon DEF UndoDatabase, UndoStep, Goto
  <1>8. CASE UndoWal
    <2> DEFINE g == [disk EXCEPT !.wal = files.wal]
    <2>1. g \in Files /\ g.db = disk.db /\ g.hosts = disk.hosts /\ g.wal = files.wal
      BY <1>3, Zenon DEF Files
    <2>2. op.pc = "undo_wal" /\ (~op.left => disk.db = files.db)
      BY <1>2, <1>8, Zenon DEF UndoWal, UndoStep, At, SnapInv
    <2> QED BY <1>4, <1>5, <1>6, <1>8, <2>1, <2>2, Zenon DEF UndoWal, UndoStep, Goto
  <1>9. CASE UndoHosts
    <2> DEFINE g == IF op.archive.hosts THEN [disk EXCEPT !.hosts = files.hosts] ELSE disk
    <2>1. g \in Files /\ g.db = disk.db /\ g.hosts = files.hosts /\ g.wal = disk.wal
      BY <1>2, <1>3, Zenon DEF Files
    <2>2. op.pc = "undo_hosts" /\ (~op.left => disk.db = files.db /\ disk.wal = files.wal)
      BY <1>2, <1>9, Zenon DEF UndoHosts, UndoStep, At, SnapInv
    <2> QED BY <1>2, <1>4, <1>5, <1>6, <1>9, <2>1, <2>2, Zenon DEF UndoHosts, UndoStep, Goto
  <1> QED BY <1>7, <1>8, <1>9, Zenon

\* A rollback that left something is not reloaded.
LEMMA GiveUpSafe ==
  ASSUME IInv, GiveUp
  PROVE  IInv'
  <1>1. /\ up /\ op.pc = "undo_handoff" /\ op' = [op EXCEPT !.pc = "retain"]
        /\ UNCHANGED <<disk, stage, snaps, run, gate, answer, shown, up, restores>>
    BY Zenon DEF GiveUp, At, Goto
  <1>2. "undo_handoff" \in Marked /\ "retain" \notin Replacing
    BY Zenon DEF Marked, Replacing, Backward
  <1>3. run \in Processes /\ disk \in Files
    BY Zenon DEF IInv, TypeOK, Processes
  <1> QED BY <1>1, <1>2, <1>3, LikeSame, QuietStep, Zenon

-----------------------------------------------------------------------------
(* The steps before the files are touched, and the endings                  *)

\* A step in which the lease was granted or is given back, or the process ends: the
\* files keep their data and the restore that ran is over or has only begun.
LEMMA OutsideSafe ==
  ASSUME IInv, Like(disk, disk'), UNCHANGED <<stage, snaps, restores>>,
         op'.pc \in {"idle", "job", "activate", "publish", "complete"}
  PROVE  /\ SoundInv' /\ disk' \in Files /\ StageInv' /\ SnapInv'
         /\ \A set : Holds(set) => Whole(disk') /\ disk'.db.set = set
  <1>1. SoundInv' /\ disk' \in Files /\ \A set : Holds(set) => Whole(disk') /\ disk'.db.set = set
    BY LikeSound, Zenon
  <1>2. op'.pc \notin Staged /\ op'.pc \notin Replacing
    BY Zenon DEF Staged, Replacing, Backward
  <1>3. StageInv' /\ SnapInv'
    BY <1>2, Zenon DEF StageInv, SnapInv, Staged, Replacing, Backward
  <1> QED BY <1>1, <1>3, Zenon

\* No restore is one of the recorded operations.
LEMMA IdleType ==
  /\ Idle \in Operations /\ Idle.pc = "idle" /\ ~Idle.left
  BY Zenon DEF Idle, Operations, Steps

\* The exclusive lease is granted.
LEMMA BeginSafe ==
  ASSUME IInv, Begin
  PROVE  IInv'
  <1>1. PICK archive \in Archives : op' = [Idle EXCEPT !.pc = "job", !.archive = archive]
    BY Zenon DEF Begin
  <1>2. op' \in Operations /\ op'.pc = "job" /\ ~op'.left
    <2>1. "job" \in Steps
      BY Zenon DEF Steps, Forward
    <2> QED BY <1>1, <2>1, Zenon DEF Idle, Operations
  <1>3. /\ up /\ gate = "open" /\ gate' = "exclusive" /\ restores < MaxRestores
        /\ restores' = restores + 1 /\ answer' = "none"
        /\ UNCHANGED <<disk, stage, snaps, run, shown, up>>
    BY Zenon DEF Begin
  <1>4. TypeOK'
    BY <1>2, <1>3, Zenon DEF IInv, TypeOK, Operations, Steps
  <1>5. restores \in Sets /\ restores' \in Sets /\ restores' > 0 /\ shown \in Sets /\ shown <= restores'
        /\ MaxRestores \in Nat
    BY <1>3, RestoreAssumption DEF IInv, Safe, GateInv, Sets
  <1>6. SoundInv'
    <2>1. \A db \in Database : db.set <= restores => db.set <= restores'
      BY <1>3, <1>5 DEF Sets, Database
    <2>2. disk.db \in Database /\ (snaps.kept => snaps.files.db \in Database) /\ SoundInv
      BY DEF IInv, Safe, TypeOK, Files, NoSnaps
    <2> QED BY <1>3, <2>1, <2>2, Zenon DEF SoundInv, Sound, Recoverable
  <1>7. GateInv'
    BY <1>2, <1>3, <1>5, Zenon DEF GateInv
  <1>8. WholeInv' /\ MarkerInv'
    <2>1. Holds(shown) /\ Served(disk) /\ ~disk.db.marker
      BY <1>3, Zenon DEF IInv, Safe, WholeInv, MarkerInv
    <2> QED BY <1>2, <1>3, <2>1, Zenon DEF WholeInv, MarkerInv, Holds, Served, Original, Marked, Backward
  <1>9. StageInv' /\ SnapInv'
    BY <1>2, Zenon DEF StageInv, SnapInv, Replacing, Backward
  <1> QED BY <1>4, <1>6, <1>7, <1>8, <1>9, Zenon DEF IInv, Safe

\* A restore is refused before its marker is saved, or goes on towards saving it.
LEMMA LeaseSafe ==
  ASSUME IInv, CreateJob \/ Activate
  PROVE  IInv'
  <1>1. /\ up /\ op.pc \in {"job", "activate"}
        /\ UNCHANGED <<stage, snaps, run, shown, up, restores>>
    BY Zenon DEF CreateJob, Activate, At
  <1>2. /\ Holds(shown) /\ Served(disk) /\ ~disk.db.marker /\ disk \in Files /\ TypeOK
        /\ gate = "exclusive" /\ GateInv /\ answer = "none"
    BY <1>1, Zenon DEF IInv, Safe, WholeInv, MarkerInv, GateInv, TypeOK
  <1>3. \/ disk' = disk
        \/ disk' = [disk EXCEPT !.db.job = "running"] \/ disk' = [disk EXCEPT !.db.job = "failed"]
        \/ disk' = [disk EXCEPT !.db.marker = TRUE]
    BY Zenon DEF CreateJob, Activate
  <1>4. Like(disk, disk')
    BY <1>2, <1>3, LikeSame, JobLike, MarkLike, Zenon
  <1>5. disk'.db.set = disk.db.set
    BY <1>4, Zenon DEF Like
  <1>6. CASE op' = Idle /\ gate' = "open" /\ answer' = "failed" /\ disk'.db.marker = disk.db.marker
    <2>1. SoundInv' /\ disk' \in Files /\ StageInv' /\ SnapInv'
          /\ (\A set : Holds(set) => Whole(disk') /\ disk'.db.set = set)
      BY <1>1, <1>4, <1>6, IdleType, OutsideSafe, Zenon
    <2>2. TypeOK'
      BY <1>1, <1>2, <1>6, <2>1, IdleType, Zenon DEF TypeOK, Operations, Steps
    <2>3. GateInv' /\ MarkerInv'
      BY <1>1, <1>2, <1>6, IdleType, Zenon DEF GateInv, MarkerInv, Marked, Backward, Original
    <2>4. WholeInv'
      BY <1>1, <1>2, <1>5, <1>6, <2>1, IdleType, Zenon DEF WholeInv, Holds, Served, Original
    <2> QED BY <2>1, <2>2, <2>3, <2>4, Zenon DEF IInv, Safe
  <1>7. CASE /\ op' = [op EXCEPT !.pc = "activate"] /\ UNCHANGED <<gate, answer>>
             /\ disk'.db.marker = disk.db.marker
    <2>1. "activate" \in Steps
      BY Zenon DEF Steps, Forward
    <2>2. op' \in Operations /\ op'.pc = "activate" /\ op'.left = op.left
      BY <1>7, <2>1, Moves, Zenon
    <2>3. SoundInv' /\ disk' \in Files /\ StageInv' /\ SnapInv'
          /\ (\A set : Holds(set) => Whole(disk') /\ disk'.db.set = set)
      BY <1>1, <1>4, <2>2, OutsideSafe, Zenon
    <2>4. TypeOK'
      BY <1>1, <1>2, <1>7, <2>2, <2>3, Zenon DEF TypeOK, Operations, Steps
    <2>5. GateInv' /\ MarkerInv'
      BY <1>1, <1>2, <1>7, <2>2, Zenon DEF GateInv, MarkerInv, Marked, Backward, Original
    <2>6. WholeInv'
      BY <1>1, <1>2, <1>5, <1>7, <2>2, <2>3, Zenon DEF WholeInv, Holds, Served, Original
    <2> QED BY <2>3, <2>4, <2>5, <2>6, Zenon DEF IInv, Safe
  <1>8. CASE /\ op' = [op EXCEPT !.pc = "open"] /\ UNCHANGED <<gate, answer>>
             /\ disk'.db.marker
    <2>1. "open" \in Steps
      BY Zenon DEF Steps, Forward
    <2>2. op' \in Operations /\ op'.pc = "open"
      BY <1>8, <2>1, Moves, Zenon
    <2>3. SoundInv' /\ disk' \in Files
          /\ (\A set : Holds(set) => Whole(disk') /\ disk'.db.set = set)
      BY <1>1, <1>4, LikeSound, Zenon
    <2>4. TypeOK'
      BY <1>1, <1>2, <1>8, <2>2, <2>3, Zenon DEF TypeOK, Operations, Steps
    <2>5. GateInv' /\ MarkerInv'
      BY <1>1, <1>2, <1>8, <2>2, Zenon DEF GateInv, MarkerInv
    <2>6. WholeInv'
      BY <1>1, <1>2, <1>5, <1>8, <2>2, <2>3, <2>5, Zenon DEF WholeInv, Holds, Served, Original
    <2>7. StageInv' /\ SnapInv'
      BY <2>2, Zenon DEF StageInv, SnapInv, Replacing, Backward
    <2> QED BY <2>3, <2>4, <2>5, <2>6, <2>7, Zenon DEF IInv, Safe
  <1>9. CASE CreateJob
    <2>1. [disk EXCEPT !.db.job = "running"].db.marker = disk.db.marker
      BY <1>2, JobLike, Zenon
    <2> QED BY <1>6, <1>7, <1>9, <2>1, Zenon DEF CreateJob, Refuse, Goto
  <1>10. CASE Activate
    <2>1. /\ [disk EXCEPT !.db.job = "failed"].db.marker = disk.db.marker
          /\ [disk EXCEPT !.db.marker = TRUE].db.marker
      BY <1>2, JobLike, MarkLike, Zenon
    <2> QED BY <1>6, <1>8, <1>10, <2>1, Zenon DEF Activate, Refuse, Goto
  <1> QED BY <1>9, <1>10, Zenon

\* Before the preparation nothing but the private copy is written.
LEMMA ReadingSafe ==
  ASSUME IInv, OpenArchive \/ Validate
  PROVE  IInv'
  <1>0. /\ {"open", "validate", "prepare", "fail"} \subseteq Marked \cap Steps
        /\ {"open", "validate", "prepare", "fail"} \cap Replacing = {}
        /\ {"open", "validate", "fail"} \cap Staged = {}
    BY Zenon DEF Marked, Steps, Forward, Ending, Replacing, Backward, Staged
  <1>1. /\ up /\ op.pc \in {"open", "validate"}
        /\ UNCHANGED <<disk, snaps, run, gate, answer, shown, up, restores>>
    BY Zenon DEF OpenArchive, Validate, At
  <1>2. /\ Holds(shown) /\ Served(disk) /\ disk.db.marker /\ run \in Processes
        /\ disk \in Files /\ op \in Operations /\ restores \in Sets /\ SoundInv /\ TypeOK
    BY <1>0, <1>1, Zenon DEF IInv, Safe, WholeInv, MarkerInv, GateInv, TypeOK, Processes, Operations, Steps
  <1>3. Like(disk, disk')
    BY <1>1, <1>2, LikeSame, Zenon
  <1>4. ASSUME NEW to \in {"validate", "fail"}, op' = [op EXCEPT !.pc = to], UNCHANGED stage
        PROVE  IInv'
    <2>1. /\ to \in Marked \ {"release"} /\ to \notin Staged /\ to \notin Replacing
          /\ to \notin {"undo_wal", "undo_hosts", "undo_handoff"}
      BY <1>0, Zenon
    <2>2. /\ TypeOK' /\ SoundInv' /\ GateInv' /\ MarkerInv' /\ StageInv' /\ SnapInv'
          /\ op'.pc = to /\ gate' = "exclusive" /\ up'
      BY <1>0, <1>1, <1>2, <1>3, <1>4, <2>1, LikeStep, Zenon
    <2>3. WholeInv'
      BY <1>1, <1>2, <1>4, <2>2, Zenon DEF WholeInv, Holds, Served, Original
    <2> QED BY <2>2, <2>3, Zenon DEF IInv, Safe
  <1>5. CASE op.pc = "validate" /\ stage' = PrepareRestored(Reencrypted(Archived))
             /\ op' = [op EXCEPT !.pc = "prepare"]
    <2>1. op' \in Operations /\ op'.pc = "prepare" /\ op'.archive = op.archive
      BY <1>0, <1>5, Moves, Zenon
    <2>2. op.archive.key \in {"current", "other"} /\ disk.hosts \in Sets
      <3>1. op.archive \in Archives \cup {NoArchive}
        BY <1>2, Zenon DEF Operations
      <3>2. \A archive \in Archives : archive.key \in {"current", "other"}
        BY RestoreAssumption, Zenon
      <3>3. NoArchive.key \in {"current", "other"}
        BY Zenon DEF NoArchive
      <3>4. disk.hosts \in Sets
        BY <1>2, Zenon DEF Files
      <3> QED BY <3>1, <3>2, <3>3, <3>4, Zenon
    <2> DEFINE hosts == IF op.archive.hosts THEN restores ELSE disk.hosts
               db == [set |-> restores, hosts |-> hosts, key |-> "current", archived |-> FALSE,
                      marker |-> TRUE, behind |-> FALSE, job |-> "none"]
    <2>3. hosts \in Sets
      BY <1>2, <2>2, Zenon
    <2>4. Archived = [Fresh(restores) EXCEPT !.hosts = hosts, !.key = op.archive.key, !.archived = TRUE]
      BY Zenon DEF Archived
    <2> HIDE DEF hosts
    <2>5. stage' = db
      BY <1>5, <2>2, <2>4, Zenon DEF PrepareRestored, Reencrypted, Fresh
    <2>6. stage' \in Database
      BY <1>2, <2>3, <2>5, Zenon DEF Database
    <2>7. TypeOK'
      BY <1>1, <1>2, <2>1, <2>6, ZenonT(40) DEF TypeOK, Operations, Steps
    <2>8. GateInv' /\ MarkerInv' /\ gate' = "exclusive" /\ up'
      BY <1>0, <1>1, <1>2, <2>1, RestoreRuns, Zenon
    <2>9. SoundInv' /\ WholeInv'
      BY <1>1, <1>2, <2>1, <2>8, Zenon
      DEF SoundInv, Sound, Recoverable, WholeInv, Holds, Served, Original
    <2>10. restores <= restores
      BY <1>2 DEF Sets
    <2>11. Sound(stage)'
      BY <1>1, <2>5, <2>10, Zenon DEF Sound
    <2>12. StageInv'
      BY <1>1, <2>1, <2>5, <2>11, Zenon DEF StageInv, hosts
    <2>13. SnapInv'
      BY <1>0, <2>1, Zenon DEF SnapInv
    <2> QED BY <2>7, <2>8, <2>9, <2>12, <2>13, Zenon DEF IInv, Safe
  <1>6. \/ op' = [op EXCEPT !.pc = "validate"] /\ UNCHANGED stage
        \/ op' = [op EXCEPT !.pc = "fail"] /\ UNCHANGED stage
        \/ op.pc = "validate" /\ stage' = PrepareRestored(Reencrypted(Archived))
           /\ op' = [op EXCEPT !.pc = "prepare"]
    BY Zenon DEF OpenArchive, Validate, At, Goto
  <1> QED BY <1>4, <1>5, <1>6, Zenon

\* The restore has ended, one way or the other, and its snapshots are gone.
LEMMA EndingSafe ==
  ASSUME IInv, FailRestore \/ Succeed
  PROVE  IInv'
  <1>0. {"fail", "succeed", "release"} \subseteq Marked \cap Steps /\ "release" \notin Replacing
    BY Zenon DEF Marked, Steps, Forward, Ending, Replacing, Backward
  <1>1. /\ up /\ op.pc \in {"fail", "succeed"} /\ snaps' = NoSnaps
        /\ UNCHANGED <<stage, run, gate, answer, shown, up, restores>>
        /\ disk' \in {disk, [disk EXCEPT !.db.job = "failed"]}
        /\ \/ op.pc = "fail" /\ op' = [op EXCEPT !.pc = "release", !.outcome = "failed"]
           \/ op.pc = "succeed" /\ op' = [op EXCEPT !.pc = "release", !.outcome = "restored"]
    BY Zenon DEF FailRestore, Succeed, At
  <1>2. /\ Served(disk) /\ disk.db.marker /\ run \in Processes /\ TypeOK
        /\ disk \in Files /\ op \in Operations /\ SoundInv
        /\ op.pc = "fail" => Holds(shown)
        /\ op.pc = "succeed" => Holds(restores)
    BY <1>0, <1>1, Zenon DEF IInv, Safe, WholeInv, MarkerInv, TypeOK, Processes, Operations, Steps
  <1>3. Like(disk, disk') /\ disk'.db.marker
    BY <1>1, <1>2, LikeSame, JobLike, Zenon
  <1>4. disk' \in Files /\ disk'.db.set = disk.db.set /\ (Whole(disk) => Whole(disk'))
    BY <1>3, Zenon DEF Like
  <1>5. /\ op' \in Operations /\ op'.pc = "release" /\ op'.outcome \in {"restored", "failed"}
        /\ op'.outcome = "failed" => op.pc = "fail"
        /\ op'.outcome = "restored" => op.pc = "succeed"
    BY <1>0, <1>1, <1>2, Zenon DEF Operations
  <1>6. TypeOK'
    BY <1>1, <1>2, <1>4, <1>5, TypeKept, Zenon
  <1>7. GateInv' /\ MarkerInv' /\ gate' = "exclusive" /\ up'
    BY <1>0, <1>1, <1>3, <1>5, RestoreRuns, Zenon
  <1>8. Whole(disk)
    BY <1>1, <1>2, Zenon DEF Holds
  <1>9. SoundInv'
    BY <1>1, <1>2, <1>3, <1>4, <1>8, Zenon DEF SoundInv, Sound, Recoverable, Like, NoSnaps
  <1>10. WholeInv'
    BY <1>1, <1>2, <1>4, <1>5, <1>7, Zenon DEF WholeInv, Holds, Served, Original
  <1>11. StageInv' /\ SnapInv'
    BY <1>0, <1>5, Zenon DEF StageInv, SnapInv
  <1> QED BY <1>6, <1>7, <1>9, <1>10, <1>11, Zenon DEF IInv, Safe

\* The marker is cleared; if that fails, the release stays pending.
LEMMA ReleaseSafe ==
  ASSUME IInv, Release
  PROVE  IInv'
  <1>0. "publish" \in Steps /\ "release" \in Marked
    BY Zenon DEF Steps, Ending, Marked
  <1>1. /\ up /\ op.pc = "release" /\ UNCHANGED <<stage, snaps, run, shown, up, restores>>
        /\ \/ /\ disk' = [disk EXCEPT !.db.marker = FALSE] /\ op' = [op EXCEPT !.pc = "publish"]
              /\ UNCHANGED <<gate, answer>>
           \/ /\ disk' \in {disk, [disk EXCEPT !.db.job = "failed"]}
              /\ gate' = "pending" /\ answer' = "unreleased" /\ op' = Idle
    BY Zenon DEF Release, At, Goto
  <1>2. /\ Served(disk) /\ disk.db.marker /\ disk \in Files /\ TypeOK /\ GateInv /\ gate = "exclusive"
        /\ \/ op.outcome = "restored" /\ Holds(restores)
           \/ op.outcome = "failed" /\ Holds(shown)
    BY <1>0, <1>1, Zenon DEF IInv, Safe, WholeInv, MarkerInv, GateInv, TypeOK
  <1>3. CASE /\ disk' = [disk EXCEPT !.db.marker = FALSE] /\ op' = [op EXCEPT !.pc = "publish"]
             /\ UNCHANGED <<gate, answer>>
    <2>1. Like(disk, disk') /\ disk'.db.marker = FALSE
      BY <1>2, <1>3, MarkLike, Zenon
    <2>2. op' \in Operations /\ op'.pc = "publish" /\ op'.outcome = op.outcome
      BY <1>0, <1>3, Moves, Zenon
    <2>3. SoundInv' /\ disk' \in Files /\ StageInv' /\ SnapInv'
          /\ (\A set : Holds(set) => Whole(disk') /\ disk'.db.set = set)
      BY <1>1, <2>1, <2>2, OutsideSafe, Zenon
    <2>4. TypeOK'
      BY <1>1, <1>2, <1>3, <2>2, <2>3, Zenon DEF TypeOK, Operations, Steps
    <2>5. GateInv' /\ MarkerInv'
      BY <1>1, <1>2, <1>3, <2>1, <2>2, Zenon DEF GateInv, MarkerInv, Marked, Backward, Original
    <2>6. disk'.db.set = disk.db.set
      BY <2>1, Zenon DEF Like
    <2>7. WholeInv'
      BY <1>1, <1>2, <1>3, <2>2, <2>3, <2>6, Zenon DEF WholeInv, Holds, Served, Original
    <2> QED BY <2>3, <2>4, <2>5, <2>7, Zenon DEF IInv, Safe
  <1>4. CASE /\ disk' \in {disk, [disk EXCEPT !.db.job = "failed"]}
             /\ gate' = "pending" /\ answer' = "unreleased" /\ op' = Idle
    <2>1. Like(disk, disk') /\ disk'.db.marker
      BY <1>2, <1>4, LikeSame, JobLike, Zenon
    <2>2. SoundInv' /\ disk' \in Files /\ StageInv' /\ SnapInv'
          /\ (\A set : Holds(set) => Whole(disk') /\ disk'.db.set = set)
      BY <1>1, <1>4, <2>1, IdleType, OutsideSafe, Zenon
    <2>3. TypeOK'
      BY <1>1, <1>2, <1>4, <2>2, IdleType, ZenonT(40) DEF TypeOK, Operations, Steps
    <2>4. GateInv' /\ MarkerInv'
      BY <1>1, <1>2, <1>4, <2>1, IdleType, Zenon DEF GateInv, MarkerInv, Marked, Backward, Original
    <2>5. disk'.db.set = disk.db.set
      BY <2>1, Zenon DEF Like
    <2>6. WholeInv'
      BY <1>1, <1>2, <1>4, <2>2, <2>5, IdleType, Zenon DEF WholeInv, Holds, Served, Original
    <2> QED BY <2>2, <2>3, <2>4, <2>6, Zenon DEF IInv, Safe
  <1> QED BY <1>1, <1>3, <1>4, Zenon

\* The cleared state is published: requests are served again.
LEMMA PublishSafe ==
  ASSUME IInv, Publish
  PROVE  IInv'
  <1>0. "complete" \in Steps
    BY Zenon DEF Steps, Ending
  <1>1. /\ up /\ op.pc = "publish" /\ UNCHANGED <<disk, stage, snaps, run, up, restores>>
        /\ gate' = "open" /\ shown' = Seen(disk) /\ answer' = op.outcome
        /\ \/ op.outcome = "restored" /\ op' = [op EXCEPT !.pc = "complete"]
           \/ op.outcome # "restored" /\ op' = Idle
    BY Zenon DEF Publish, At, Goto
  <1>2. /\ Served(disk) /\ ~disk.db.marker /\ disk \in Files /\ TypeOK /\ GateInv
        /\ restores > 0 /\ restores \in Sets /\ shown \in Sets /\ shown <= restores
        /\ \/ op.outcome = "restored" /\ Holds(restores)
           \/ op.outcome = "failed" /\ Holds(shown)
    BY <1>1, Zenon DEF IInv, Safe, WholeInv, MarkerInv, GateInv, TypeOK
  <1>3. /\ op' \in Operations /\ op'.pc \in {"idle", "complete"}
        /\ op'.pc = "complete" => op.outcome = "restored"
    BY <1>0, <1>1, Moves, IdleType, Zenon
  <1>4. Whole(disk) /\ shown' = disk.db.set /\ shown' \in Sets /\ shown' <= restores
        /\ (op.outcome = "restored" => disk.db.set > 0)
    BY <1>1, <1>2 DEF Holds, Seen, Sets
  <1>5. Like(disk, disk')
    BY <1>1, <1>2, LikeSame, Zenon
  <1>6. SoundInv' /\ StageInv' /\ SnapInv'
    BY <1>1, <1>3, <1>5, OutsideSafe, Zenon
  <1>7. answer' \in {"restored", "failed"}
    BY <1>1, <1>2, Zenon
  <1>8. TypeOK'
    BY <1>1, <1>2, <1>3, <1>4, <1>7, Zenon DEF TypeOK, Operations, Steps
  <1>9. GateInv' /\ MarkerInv'
    BY <1>1, <1>2, <1>3, <1>4, Zenon DEF GateInv, MarkerInv, Marked, Backward, Original
  <1>10. WholeInv'
    BY <1>1, <1>2, <1>3, <1>4, Zenon DEF WholeInv, Holds, Served, Original
  <1> QED BY <1>6, <1>8, <1>9, <1>10, Zenon DEF IInv, Safe

\* The success of the job is recorded in the database that was restored.
LEMMA CompleteSafe ==
  ASSUME IInv, Complete
  PROVE  IInv'
  <1>1. /\ up /\ op.pc = "complete" /\ op' = Idle
        /\ UNCHANGED <<stage, snaps, run, gate, answer, shown, up, restores>>
        /\ disk' \in {disk, [disk EXCEPT !.db.job = "succeeded"]}
    BY Zenon DEF Complete, At
  <1>2. gate = "open" /\ ~disk.db.marker /\ disk.db.set > 0 /\ Holds(shown) /\ Served(disk)
        /\ disk \in Files /\ TypeOK /\ GateInv /\ SoundInv
    <2>1. op # Idle
      BY <1>1, IdleType, Zenon
    <2>2. gate = "open"
      BY <1>1, <2>1, Zenon DEF IInv, Safe, GateInv
    <2> QED BY <1>1, <2>2, Zenon DEF IInv, Safe, GateInv, WholeInv, MarkerInv, TypeOK
  <1>3. /\ disk' \in Files /\ disk'.wal = disk.wal /\ disk'.hosts = disk.hosts
        /\ disk'.db.set = disk.db.set /\ disk'.db.hosts = disk.db.hosts
        /\ disk'.db.behind = disk.db.behind /\ disk'.db.marker = disk.db.marker
        /\ disk'.db.key = disk.db.key /\ disk'.db.archived = disk.db.archived
    BY <1>1, <1>2 DEF Files, Database
  <1>4. Whole(disk') /\ Holds(shown)'
    BY <1>1, <1>2, <1>3, Zenon DEF Holds, Whole, Short
  <1>5. SoundInv'
    BY <1>1, <1>2, <1>3, <1>4, Zenon DEF SoundInv, Sound, Recoverable
  <1>6. TypeOK'
    BY <1>1, <1>2, <1>3, TypeKept, IdleType, Zenon DEF TypeOK, Processes
  <1>7. GateInv' /\ MarkerInv'
    BY <1>1, <1>2, <1>3, IdleType, Zenon DEF GateInv, MarkerInv, Marked, Backward, Original
  <1>8. WholeInv'
    BY <1>1, <1>2, <1>3, <1>4, IdleType, Zenon DEF WholeInv, Served, Original
  <1>9. StageInv' /\ SnapInv'
    BY <1>1, IdleType, Zenon DEF StageInv, SnapInv, Replacing, Backward
  <1> QED BY <1>5, <1>6, <1>7, <1>8, <1>9, Zenon DEF IInv, Safe

\* A later admission clears the marker whose clearing had failed.
LEMMA RecoverReleaseSafe ==
  ASSUME IInv, RecoverRelease
  PROVE  IInv'
  <1>1. /\ up /\ gate = "pending" /\ gate' = "open" /\ shown' = Seen(disk)
        /\ disk' = [disk EXCEPT !.db.marker = FALSE]
        /\ UNCHANGED <<stage, snaps, run, op, answer, up, restores>>
    BY Zenon DEF RecoverRelease
  <1>2. /\ Served(disk) /\ (Holds(shown) \/ Holds(restores)) /\ disk \in Files /\ TypeOK /\ GateInv
        /\ restores \in Sets /\ shown \in Sets /\ shown <= restores /\ op = Idle
    BY <1>1, IdleType, Zenon DEF IInv, Safe, WholeInv, GateInv, TypeOK
  <1>3. Like(disk, disk') /\ disk'.db.marker = FALSE
    BY <1>1, <1>2, MarkLike, Zenon
  <1>4. SoundInv' /\ disk' \in Files /\ StageInv' /\ SnapInv'
        /\ (\A set : Holds(set) => Whole(disk') /\ disk'.db.set = set)
    BY <1>1, <1>2, <1>3, IdleType, OutsideSafe, Zenon
  <1>5. Whole(disk) /\ shown' = disk.db.set /\ shown' \in Sets /\ shown' <= restores
        /\ Whole(disk') /\ disk'.db.set = disk.db.set
    <2>1. /\ Whole(disk) /\ disk.db.set \in {shown, restores}
          /\ Whole(disk') /\ disk'.db.set = disk.db.set
      BY <1>2, <1>4, Zenon DEF Holds
    <2>2. restores <= restores
      BY <1>2 DEF Sets
    <2> QED BY <1>1, <1>2, <2>1, <2>2, Zenon DEF Seen
  <1>6. TypeOK'
    BY <1>1, <1>2, <1>4, <1>5 DEF TypeOK
  <1>7. GateInv' /\ MarkerInv'
    BY <1>1, <1>2, <1>3, <1>5, IdleType, Zenon DEF GateInv, MarkerInv, Marked, Backward, Original
  <1>8. WholeInv'
    BY <1>1, <1>2, <1>5, IdleType, Zenon DEF WholeInv, Holds, Served, Original
  <1> QED BY <1>4, <1>6, <1>7, <1>8, Zenon DEF IInv, Safe

\* A recovery that stays incomplete is latched; the marker is in place already.
LEMMA RetainSafe ==
  ASSUME IInv, Retain
  PROVE  IInv'
  <1>1. /\ up /\ op.pc = "retain" /\ gate' = "latched" /\ op' = Idle
        /\ UNCHANGED <<stage, snaps, answer, shown, up, restores>>
        /\ \/ UNCHANGED <<disk, run>>
           \/ /\ disk' = [WithLog(disk) EXCEPT !.db.marker = TRUE]
              /\ run' = [run EXCEPT !.conn = Opened(disk)]
    BY Zenon DEF Retain, At
  <1>2. disk.db.marker /\ disk \in Files /\ TypeOK /\ GateInv /\ run \in Processes
    BY <1>1, Zenon DEF IInv, Safe, MarkerInv, Marked, TypeOK, Processes
  <1>3. /\ Like(disk, WithLog(disk)) /\ WithLog(disk) \in Files /\ Opened(disk) \in Sets \cup {Mixed}
        /\ Like(WithLog(disk), [WithLog(disk) EXCEPT !.db.marker = TRUE])
        /\ [WithLog(disk) EXCEPT !.db.marker = TRUE].db.marker
    BY <1>2, LogLike, MarkLike, Zenon DEF Like
  <1>4. Like(disk, disk') /\ disk'.db.marker
    BY <1>1, <1>2, <1>3, LikeSame, LikeTrans, Zenon
  <1>5. run' \in Processes
    BY <1>1, <1>2, <1>3, Zenon DEF Processes
  <1>6. SoundInv' /\ disk' \in Files /\ StageInv' /\ SnapInv'
    BY <1>1, <1>4, IdleType, OutsideSafe, Zenon
  <1>7. TypeOK'
    BY <1>1, <1>2, <1>5, <1>6, IdleType, Zenon DEF TypeOK, Operations, Steps, Processes
  <1>8. GateInv' /\ MarkerInv'
    BY <1>1, <1>2, <1>4, IdleType, Zenon DEF GateInv, MarkerInv, Marked, Backward, Original
  <1>9. WholeInv'
    BY <1>1, IdleType, Zenon DEF WholeInv, Original
  <1> QED BY <1>6, <1>7, <1>8, <1>9, Zenon DEF IInv, Safe

\* The process exits between any two steps.
LEMMA CrashSafe ==
  ASSUME ~ExitsWhenShort, IInv, Crash
  PROVE  IInv'
  <1>1. /\ up /\ ~up' /\ ~Short(disk) /\ op' = Idle
        /\ run' = [run EXCEPT !.conn = None, !.notes = FALSE]
        /\ UNCHANGED <<disk, stage, snaps, gate, answer, shown, restores>>
    BY Zenon DEF Crash
  <1>2. disk \in Files /\ TypeOK /\ GateInv /\ run \in Processes /\ op \in Operations
    BY Zenon DEF IInv, Safe, TypeOK, Processes, Operations, Steps
  <1>3. SoundInv' /\ StageInv' /\ SnapInv'
    BY <1>1, <1>2, LikeSame, IdleType, OutsideSafe, Zenon
  <1>4. run' \in Processes
    BY <1>1, <1>2, Zenon DEF Processes
  <1>5. TypeOK'
    BY <1>1, <1>2, <1>4, TypeKept, IdleType, Zenon
  <1>6. GateInv' /\ MarkerInv'
    BY <1>1, IdleType, Zenon DEF IInv, Safe, GateInv, MarkerInv, Marked, Backward, Original
  <1>7. ASSUME ~disk.db.marker
        PROVE  Holds(shown) \/ (gate = "exclusive" /\ Holds(restores))
    <2>1. gate \in {"open", "exclusive"} /\ op.pc \notin Marked
      BY <1>2, <1>7, Zenon DEF IInv, Safe, MarkerInv, TypeOK
    <2>2. CASE gate = "open"
      BY <1>1, <2>2, Zenon DEF IInv, Safe, WholeInv
    <2>3. CASE gate = "exclusive"
      <3>1. op.pc \in {"job", "activate", "publish"}
        BY <1>1, <1>2, <2>1, <2>3, Zenon
        DEF GateInv, Operations, Steps, Marked, Forward, Ending
      <3> QED BY <2>3, <3>1, Zenon DEF IInv, Safe, WholeInv
    <2> QED BY <2>1, <2>2, <2>3, Zenon
  <1>8. WholeInv'
    BY <1>1, <1>7, IdleType, Zenon DEF WholeInv, Holds, Original
  <1> QED BY <1>3, <1>5, <1>6, <1>8, Zenon DEF IInv, Safe

\* A start that finds no marker serves what is in place, which is whole then.
LEMMA StartupSafe ==
  ASSUME ~ExitsWhenShort, IInv, Startup
  PROVE  IInv'
  <1>1. ~up /\ ~Short(disk) /\ TypeOK /\ disk \in Files /\ GateInv /\ op = Idle
        /\ shown \in Sets /\ restores \in Sets
    BY Zenon DEF Startup, IInv, Safe, WholeInv, GateInv, TypeOK
  <1>2. disk.db.marker \in BOOLEAN
    BY <1>1, Zenon DEF Files, Database
  <1>3. /\ up'
        /\ run' = [conn |-> Opened(disk), loaded |-> Opened(disk), notes |-> TRUE]
        /\ disk' = Interrupted(WithLog(disk))
        /\ gate' = IF disk.db.marker THEN "latched" ELSE "open"
        /\ shown' = IF disk.db.marker THEN shown ELSE Seen(disk)
        /\ UNCHANGED <<stage, snaps, op, answer, restores>>
    BY <1>1, Zenon DEF Startup
  <1>4. /\ Like(disk, WithLog(disk)) /\ WithLog(disk) \in Files /\ Opened(disk) \in Sets \cup {Mixed}
        /\ WithLog(disk).db.marker = disk.db.marker
        /\ Whole(disk) => Opened(disk) = disk.db.set
    BY <1>1, LogLike, Zenon DEF Like
  <1>5. Like(WithLog(disk), disk') /\ disk'.db.marker = disk.db.marker
    BY <1>3, <1>4, InterruptedLike, Zenon
  <1>6. Like(disk, disk')
    BY <1>4, <1>5, LikeTrans, Zenon
  <1>7. SoundInv' /\ disk' \in Files /\ StageInv' /\ SnapInv'
        /\ (\A set : Holds(set) => Whole(disk') /\ disk'.db.set = set)
    BY <1>1, <1>3, <1>6, IdleType, OutsideSafe, Zenon
  <1>8. ~disk.db.marker =>
          /\ Whole(disk) /\ shown' = disk.db.set /\ Whole(disk') /\ disk'.db.set = disk.db.set
          /\ shown' \in Sets /\ shown' <= restores /\ gate' = "open" /\ Served(disk)'
    <2>1. ASSUME ~disk.db.marker
          PROVE  Holds(shown) \/ Holds(restores)
      BY <1>1, <2>1, Zenon DEF IInv, Safe, WholeInv
    <2>2. shown <= restores /\ restores <= restores
      BY <1>1 DEF GateInv, Sets
    <2>3. ASSUME ~disk.db.marker
          PROVE  /\ Whole(disk) /\ disk.db.set \in {shown, restores}
                 /\ Whole(disk') /\ disk'.db.set = disk.db.set
      BY <1>7, <2>1, <2>3, Zenon DEF Holds
    <2> QED BY <1>1, <1>3, <1>4, <2>2, <2>3, Zenon DEF Seen, Served
  <1>9. run' \in Processes
    BY <1>3, <1>4, Zenon DEF Processes
  <1>10. shown' \in Sets /\ shown' <= restores
    BY <1>1, <1>3, <1>8, Zenon DEF GateInv
  <1>11. TypeOK'
    BY <1>1, <1>3, <1>7, <1>9, <1>10, Zenon DEF TypeOK, Processes
  <1>12. GateInv' /\ MarkerInv'
    BY <1>1, <1>2, <1>3, <1>5, <1>10, IdleType, Zenon DEF GateInv, MarkerInv, Marked, Backward, Original
  <1>13. WholeInv'
    BY <1>1, <1>2, <1>3, <1>8, IdleType, Zenon DEF WholeInv, Holds, Original
  <1> QED BY <1>7, <1>11, <1>12, <1>13, Zenon DEF IInv, Safe

-----------------------------------------------------------------------------
(* The theorems                                                             *)

\* The invariant holds at the first start.
LEMMA InitIInv == Init => IInv
  <1> SUFFICES ASSUME Init PROVE IInv
    BY Zenon
  <1>1. 0 \in Sets /\ 0 <= 0
    BY RestoreAssumption DEF Sets
  <1>2. disk = [db |-> [set |-> 0, hosts |-> 0, key |-> "current", archived |-> FALSE,
                        marker |-> FALSE, behind |-> TRUE, job |-> "none"], wal |-> 0, hosts |-> 0]
        /\ stage = Fresh(0) /\ snaps = NoSnaps
        /\ run = [conn |-> 0, loaded |-> 0, notes |-> TRUE]
        /\ gate = "open" /\ op = Idle /\ answer = "none" /\ shown = 0 /\ up /\ restores = 0
    BY Zenon DEF Init, Fresh
  <1>3. Holds(0) /\ Served(disk) /\ disk \in Files
    BY <1>1, <1>2, Zenon DEF Holds, Whole, Short, Served, Files, Database
  <1>4. TypeOK
    BY <1>1, <1>2, <1>3, IdleType, Zenon DEF TypeOK, Fresh, Database, Operations, Steps
  <1>5. SoundInv
    BY <1>1, <1>2, <1>3, Zenon DEF SoundInv, Sound, Recoverable, NoSnaps, Holds
  <1>6. GateInv /\ MarkerInv
    BY <1>1, <1>2, IdleType, Zenon DEF GateInv, MarkerInv, Marked, Backward, Original
  <1>7. WholeInv /\ StageInv /\ SnapInv
    BY <1>2, <1>3, IdleType, Zenon DEF WholeInv, StageInv, SnapInv, Original, Replacing, Backward
  <1> QED BY <1>4, <1>5, <1>6, <1>7, Zenon DEF IInv, Safe

\* Every step of a restore and of the process around it keeps the invariant.
LEMMA NextIInv ==
  ASSUME ~ExitsWhenShort, IInv, [Next]_vars
  PROVE  IInv'
  <1>1. CASE UNCHANGED vars
    <2> USE <1>1 DEF vars
    <2>1. TypeOK' /\ GateInv' /\ MarkerInv'
      <3>1. TypeOK /\ GateInv /\ MarkerInv
        BY Zenon DEF IInv, Safe
      <3>2. TypeOK'
        BY <3>1 DEF TypeOK
      <3>3. GateInv'
        BY <3>1, Zenon DEF GateInv
      <3>4. MarkerInv'
        BY <3>1, Zenon DEF MarkerInv
      <3> QED BY <3>2, <3>3, <3>4, Zenon
    <2>2. SoundInv'
      <3>1. SoundInv
        BY Zenon DEF IInv, Safe
      <3> QED BY <3>1, Zenon DEF SoundInv, Sound, Recoverable
    <2>3. WholeInv'
      <3>1. WholeInv
        BY Zenon DEF IInv, Safe
      <3>2. \A set : Holds(set) => Holds(set)'
        BY Zenon DEF Holds
      <3>3. Served(disk) => Served(disk)'
        BY Zenon DEF Served
      <3> QED BY <3>1, <3>2, <3>3, Zenon DEF WholeInv
    <2>4. StageInv'
      BY Zenon DEF IInv, Safe, StageInv, Sound
    <2>5. SnapInv'
      BY Zenon DEF IInv, Safe, SnapInv
    <2> QED BY <2>1, <2>2, <2>3, <2>4, <2>5, Zenon DEF IInv, Safe
  <1>2. CASE Begin \/ CreateJob \/ Activate \/ OpenArchive \/ Validate
    BY <1>2, BeginSafe, LeaseSafe, ReadingSafe, Zenon
  <1>3. CASE Apply
    BY <1>3, PrepareSafe, SnapshotSafe, ReplacementSafe, HandoffSafe, ReloadSafe, Zenon DEF Apply
  <1>4. CASE Rollback
    BY <1>4, UnprepareSafe, UndoSafe, GiveUpSafe, HandBackSafe, ReloadSafe, Zenon DEF Rollback
  <1>5. CASE ReloadOriginal
    BY <1>5, HandBackSafe, ReloadSafe, Zenon DEF ReloadOriginal
  <1>6. CASE \/ FailRestore \/ Succeed \/ Release \/ Publish \/ Complete \/ RecoverRelease \/ Retain
    BY <1>6, EndingSafe, ReleaseSafe, PublishSafe, CompleteSafe, RecoverReleaseSafe, RetainSafe, Zenon
  <1>7. CASE Crash \/ Startup
    BY <1>7, CrashSafe, StartupSafe, Zenon
  <1> QED BY <1>1, <1>2, <1>3, <1>4, <1>5, <1>6, <1>7, Zenon DEF Next

\* The inductive invariant holds in every reachable state, whatever is uploaded and
\* wherever a step fails or the process exits.
THEOREM Invariance ==
  ASSUME ~ExitsWhenShort
  PROVE  Spec => []IInv
  <1>1. IInv /\ [Next]_vars => IInv'
    BY NextIInv, Zenon
  <1> QED BY InitIInv, <1>1, PTL DEF Spec

\* Through any number of restores, failures and crashes, requests are served one
\* whole data set, a whole data set can be recovered at every moment, and nothing of
\* an archive is in place that was not prepared (Restore, RestoreArchiveFile,
\* applyArchiveFiles).
THEOREM RestoresAreSafe ==
  ASSUME ~ExitsWhenShort
  PROVE  Spec => []RestoreIsSafe
  <1>1. ASSUME IInv
        PROVE  RestoreIsSafe
    <2>1. /\ SoundInv /\ GateInv /\ MarkerInv /\ WholeInv
          /\ op \in Operations /\ gate \in {"open", "exclusive", "pending", "latched"}
      BY <1>1, Zenon DEF IInv, Safe, TypeOK, Operations, Steps
    <2>2. ServedIsWhole
      BY <2>1, Zenon DEF ServedIsWhole, Serving, WholeInv, Holds, Served, SoundInv, Sound
    <2>3. ASSUME disk.db.set # shown, gate # "open", ~At("publish"), up
          PROVE  disk.db.marker
      <3>1. CASE gate \in {"pending", "latched"}
        BY <2>1, <3>1, Zenon DEF MarkerInv
      <3>2. CASE gate = "exclusive"
        <4>1. op.pc \notin {"idle", "complete", "publish"}
          BY <2>1, <2>3, <3>2, Zenon DEF GateInv, At
        <4>2. op.pc \notin {"job", "activate"}
          BY <2>1, <2>3, Zenon DEF WholeInv, Holds
        <4>3. op.pc \in Marked
          BY <2>1, <4>1, <4>2, Zenon DEF Operations, Steps, Marked, Forward, Ending
        <4> QED BY <2>1, <4>3, Zenon DEF MarkerInv
      <3> QED BY <2>1, <2>3, <3>1, <3>2, Zenon
    <2>4. InstalledIsPrepared
      BY <2>1, <2>3, Zenon DEF InstalledIsPrepared, SoundInv, Sound
    <2> QED BY <2>1, <2>2, <2>4, Zenon DEF RestoreIsSafe, SoundInv
  <1> QED BY <1>1, Invariance, PTL

-----------------------------------------------------------------------------
(* A restore is atomic                                                      *)

\* Steps that keep the gate, what is shown and the process are not seen from outside.
LEMMA Unseen ==
  ASSUME UNCHANGED <<gate, answer, shown, up, restores>>
  PROVE  UNCHANGED Atomic!vars
  BY Zenon DEF Atomic!vars

\* The file work is such steps.
LEMMA FileWorkUnseen ==
  ASSUME Apply \/ Rollback \/ ReloadOriginal
  PROVE  UNCHANGED <<gate, answer, shown, up, restores>>
  <1>1. ASSUME NEW from, NEW to, NEW otherwise,
               \/ Prepare(from, to, otherwise) \/ Handoff(from, to, otherwise)
               \/ Reload(from, to, otherwise)
        PROVE  UNCHANGED <<gate, answer, shown, up, restores>>
    BY <1>1, Zenon DEF Prepare, Handoff, Reload
  <1>2. ASSUME NEW from, NEW to, NEW files, FileStep(from, to, files) \/ UndoStep(from, to, files)
        PROVE  UNCHANGED <<gate, answer, shown, up, restores>>
    BY <1>2, Zenon DEF FileStep, UndoStep
  <1>3. CASE Apply
    BY <1>1, <1>2, <1>3, Zenon
    DEF Apply, Snapshot, RemoveSidecars, WriteDatabase, RemoveSidecarsAgain, WriteHosts
  <1>4. CASE Rollback
    BY <1>1, <1>2, <1>4, Zenon DEF Rollback, UndoDatabase, UndoWal, UndoHosts, GiveUp
  <1>5. CASE ReloadOriginal
    BY <1>1, <1>5, Zenon DEF ReloadOriginal
  <1> QED BY <1>3, <1>4, <1>5, Zenon

\* The gate opens after a restore that ended: what it answers is what is shown.
LEMMA EndsAtomically ==
  ASSUME IInv, up, gate \in {"exclusive", "pending"}, up', gate' = "open", UNCHANGED restores,
         \/ answer' = "restored" /\ shown' = restores
         \/ answer' = "failed" /\ shown' = shown
         \/ answer' = "unreleased" /\ shown' \in {shown, restores}
  PROVE  Atomic!End
  BY Zenon DEF Atomic!End

\* Every step is one of the abstract restore's, or is not seen from outside.
LEMMA NextAtomic ==
  ASSUME ~ExitsWhenShort, IInv, [Next]_vars
  PROVE  [Atomic!Next]_(Atomic!vars)
  <1>0. /\ SoundInv /\ GateInv /\ MarkerInv /\ WholeInv /\ gate \in {"open", "exclusive", "pending", "latched"}
        /\ disk \in Files
    BY Zenon DEF IInv, Safe, TypeOK
  <1>1. CASE UNCHANGED vars
    BY <1>1, Unseen, Zenon DEF vars
  <1>2. CASE Begin
    <2>1. /\ up /\ up' /\ gate = "open" /\ gate' = "exclusive" /\ restores' = restores + 1
          /\ answer' = "none" /\ shown' = shown
      BY <1>2, Zenon DEF Begin
    <2>2. restores' > shown
      BY <1>0, <2>1, RestoreAssumption DEF GateInv, Sets
    <2>3. Atomic!Begin
      BY <2>1, <2>2, Zenon DEF Atomic!Begin
    <2> QED BY <2>3, Zenon DEF Atomic!Next
  <1>3. CASE CreateJob \/ Activate
    <2>1. up /\ op.pc \in {"job", "activate"} /\ UNCHANGED <<shown, up, restores>>
      BY <1>3, Zenon DEF CreateJob, Activate, At
    <2>2. CASE UNCHANGED <<gate, answer>>
      BY <2>1, <2>2, Unseen, Zenon
    <2>3. CASE Refuse
      <3>1. gate = "exclusive"
        BY <1>0, <2>1, Zenon DEF GateInv
      <3>2. Atomic!End
        BY <2>1, <2>3, <3>1, EndsAtomically, Zenon DEF Refuse
      <3> QED BY <3>2, Zenon DEF Atomic!Next
    <2> QED BY <1>3, <2>2, <2>3, Zenon DEF CreateJob, Activate
  <1>4. CASE OpenArchive \/ Validate \/ FailRestore \/ Succeed \/ Complete
    BY <1>4, Unseen, Zenon DEF OpenArchive, Validate, FailRestore, Succeed, Complete
  <1>5. CASE Apply \/ Rollback \/ ReloadOriginal
    BY <1>5, FileWorkUnseen, Unseen, Zenon
  <1>6. CASE Release
    <2>1. up /\ op.pc = "release" /\ UNCHANGED <<shown, up, restores>>
      BY <1>6, Zenon DEF Release, At
    <2>2. gate = "exclusive" /\ (UNCHANGED <<gate, answer>> \/ gate' = "pending")
      BY <1>0, <1>6, <2>1, Zenon DEF Release, GateInv
    <2> QED BY <2>1, <2>2, Zenon DEF Atomic!vars
  <1>7. CASE Publish
    <2>1. /\ up /\ op.pc = "publish" /\ up' /\ gate' = "open" /\ shown' = Seen(disk)
          /\ answer' = op.outcome /\ UNCHANGED restores
      BY <1>7, Zenon DEF Publish, At
    <2>2. gate = "exclusive"
      BY <1>0, <2>1, Zenon DEF GateInv
    <2>3. \/ op.outcome = "restored" /\ Seen(disk) = restores
          \/ op.outcome = "failed" /\ Seen(disk) = shown
      BY <1>0, <2>1, Zenon DEF WholeInv, Holds, Seen
    <2>4. Atomic!End
      BY <2>1, <2>2, <2>3, EndsAtomically, Zenon
    <2> QED BY <2>4, Zenon DEF Atomic!Next
  <1>8. CASE RecoverRelease
    <2>1. /\ up /\ gate = "pending" /\ up' /\ gate' = "open" /\ shown' = Seen(disk)
          /\ UNCHANGED <<answer, restores>>
      BY <1>8, Zenon DEF RecoverRelease
    <2>2. answer' = "unreleased" /\ Seen(disk) \in {shown, restores}
      BY <1>0, <2>1, Zenon DEF GateInv, WholeInv, Holds, Seen
    <2>3. Atomic!End
      BY <2>1, <2>2, EndsAtomically, Zenon
    <2> QED BY <2>3, Zenon DEF Atomic!Next
  <1>9. CASE Retain
    <2>1. /\ up /\ op.pc = "retain" /\ up' /\ gate' = "latched" /\ UNCHANGED <<answer, shown, restores>>
      BY <1>9, Zenon DEF Retain, At
    <2>2. gate = "exclusive"
      BY <1>0, <2>1, Zenon DEF GateInv
    <2>3. Atomic!Latch
      BY <2>1, <2>2, Zenon DEF Atomic!Latch
    <2> QED BY <2>3, Zenon DEF Atomic!Next
  <1>10. CASE Crash
    <2>1. up /\ ~up' /\ UNCHANGED <<gate, answer, shown, restores>>
      BY <1>10, Zenon DEF Crash
    <2>2. Atomic!Stop
      BY <2>1, Zenon DEF Atomic!Stop
    <2> QED BY <2>2, Zenon DEF Atomic!Next
  <1>11. CASE Startup
    <2>1. /\ ~up /\ ~Short(disk) /\ disk.db.marker \in BOOLEAN
      BY <1>0, <1>11, Zenon DEF Startup, WholeInv, Files, Database
    <2>2. /\ up' /\ UNCHANGED <<answer, restores>>
          /\ gate' = IF disk.db.marker THEN "latched" ELSE "open"
          /\ shown' = IF disk.db.marker THEN shown ELSE Seen(disk)
      BY <1>11, <2>1, Zenon DEF Startup
    <2>3. CASE disk.db.marker
      <3>1. gate # "open"
        BY <1>0, <2>3, Zenon DEF MarkerInv
      <3>2. Atomic!Latch
        BY <2>1, <2>2, <2>3, <3>1, Zenon DEF Atomic!Latch
      <3> QED BY <3>2, Zenon DEF Atomic!Next
    <2>4. CASE ~disk.db.marker
      <3>1. gate \in {"open", "exclusive"}
        BY <1>0, <2>4, Zenon DEF MarkerInv
      <3>2. Seen(disk) \in {shown, IF gate = "open" THEN shown ELSE restores}
        BY <1>0, <2>1, <2>4, Zenon DEF WholeInv, Holds, Seen
      <3>3. gate = "exclusive" => answer = "none"
        BY <1>0, Zenon DEF GateInv
      <3>4. Atomic!Start
        BY <2>1, <2>2, <2>4, <3>1, <3>2, <3>3, Zenon DEF Atomic!Start
      <3> QED BY <3>4, Zenon DEF Atomic!Next
    <2> QED BY <2>1, <2>3, <2>4, Zenon
  <1> QED BY <1>1, <1>2, <1>3, <1>4, <1>5, <1>6, <1>7, <1>8, <1>9, <1>10, <1>11, Zenon DEF Next

\* The lifecycle of a restore implements the atomic one: success shows the archived
\* data set, failure the one shown before, and otherwise the application stays
\* latched, across restarts too (Restore, Initialize).
THEOREM RestoresAreAtomic ==
  ASSUME ~ExitsWhenShort
  PROVE  Spec => RestoreIsAtomic
  <1>1. Init => Atomic!Init
    BY Zenon DEF Init, Atomic!Init
  <1>2. IInv /\ [Next]_vars => [Atomic!Next]_(Atomic!vars)
    BY NextAtomic, Zenon
  <1> QED BY <1>1, <1>2, Invariance, PTL DEF Spec, RestoreIsAtomic, Atomic!Spec

=============================================================================
