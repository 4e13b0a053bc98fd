--------------------------- MODULE BackupRestore ---------------------------
(***************************************************************************)
(* The restore half of the backup lifecycle: Restore in                    *)
(* backup_operation_lifecycle.go, the file work of RestoreArchiveFile and  *)
(* applyArchiveFiles in internal/backup/file_restore.go, and the runtime's *)
(* PreparePersistenceReplacement and ReloadRestoredState in                *)
(* runtime_composition.go, with a failure possible at every step and a     *)
(* crash between any two.                                                  *)
(*                                                                         *)
(* The n-th restore brings data set n; the installation starts with set 0. *)
(* A database file is reduced to the set it holds, the set known_hosts     *)
(* should be at beside it, the key its secrets are sealed with, whether it *)
(* holds sessions of an archive, its maintenance marker, the job record of *)
(* the restore, and whether its last changes are only in its write-ahead   *)
(* log.  The marker's own life is MaintenanceCoordinator's.                *)
(***************************************************************************)
EXTENDS Integers

CONSTANTS
  Archives,      \* the uploads: [opens, fits, valid, hosts : BOOLEAN, key]
  ExitsWhenShort, \* whether the process may exit while a database is in place
                 \* without the log that holds its last changes
  MaxRestores, MaxFaults, MaxCrashes

ASSUME RestoreAssumption ==
  /\ Archives \subseteq [opens : BOOLEAN, fits : BOOLEAN, valid : BOOLEAN, hosts : BOOLEAN,
                         key : {"current", "other"}]
  /\ ExitsWhenShort \in BOOLEAN
  /\ {MaxRestores, MaxFaults, MaxCrashes} \subseteq Nat

VARIABLES
  disk,       \* the files in place: [db, wal, hosts]
  stage,      \* the prepared database file, a database record
  snaps,      \* the snapshot directory: NoSnaps, or the files with recovery.json
  run,        \* the process: [conn, loaded, notes]
  gate,       \* "open", "exclusive", "pending" or "latched"
  op,         \* the restore in progress: [pc, archive, left, outcome]; left says
              \* that the rollback could not put some file back
  answer,     \* what the last restore answered
  shown,      \* the data set last served
  up, restores, faults, crashes

vars == <<disk, stage, snaps, run, gate, op, answer, shown, up, restores, faults, crashes>>

-----------------------------------------------------------------------------

Sets == 0 .. MaxRestores
None == -1
Mixed == -2

Database == [set : Sets, hosts : Sets, key : {"current", "other"},
             archived : BOOLEAN, marker : BOOLEAN, behind : BOOLEAN,
             job : {"none", "running", "succeeded", "failed", "interrupted"}]

Files == [db : Database, wal : Sets \cup {None}, hosts : Sets]
NoSnaps == [kept |-> FALSE]

NoArchive == [opens |-> FALSE, fits |-> FALSE, valid |-> FALSE, hosts |-> FALSE, key |-> "current"]

Idle == [pc |-> "idle", archive |-> NoArchive, left |-> FALSE, outcome |-> "none"]

Forward == {"job", "activate", "open", "validate", "prepare", "snapshot",
            "sidecars", "database", "sidecars_again", "hosts", "handoff", "reload"}
Backward == {"unprepare", "undo_database", "undo_wal", "undo_hosts", "undo_handoff", "undo_reload"}
Original == {"original_handoff", "original_reload"}
Ending == {"fail", "retain", "succeed", "release", "publish", "complete"}

TypeOK ==
  /\ disk \in Files
  /\ stage \in Database
  /\ snaps = NoSnaps \/ (snaps.kept /\ snaps.files \in Files)
  /\ run \in [conn : Sets \cup {None, Mixed}, loaded : Sets \cup {Mixed}, notes : BOOLEAN]
  /\ gate \in {"open", "exclusive", "pending", "latched"}
  /\ op \in [pc : {"idle"} \cup Forward \cup Backward \cup Original \cup Ending,
             archive : Archives \cup {NoArchive}, left : BOOLEAN,
             outcome : {"none", "restored", "failed"}]
  /\ answer \in {"none", "restored", "failed", "unreleased"}
  /\ shown \in Sets \cup {Mixed}

Fresh(n) == [set |-> n, hosts |-> n, key |-> "current", archived |-> FALSE,
             marker |-> FALSE, behind |-> FALSE, job |-> "none"]

Init ==
  /\ disk = [db |-> [Fresh(0) EXCEPT !.behind = TRUE], wal |-> 0, hosts |-> 0]
  /\ stage = Fresh(0)
  /\ snaps = NoSnaps
  /\ run = [conn |-> 0, loaded |-> 0, notes |-> TRUE]
  /\ gate = "open" /\ op = Idle /\ answer = "none" /\ shown = 0
  /\ up = TRUE /\ restores = 0 /\ faults = 0 /\ crashes = 0

\* A step that fails: an I/O error, a refused save, a cancelled request.
Fault == faults < MaxFaults /\ faults' = faults + 1

At(pc) == up /\ op.pc = pc
Goto(pc) == op' = [op EXCEPT !.pc = pc]

\* A database in place without the log that holds its last changes.
Short(files) == files.db.behind /\ files.wal # files.db.set

\* Opening the database: SQLite applies whatever write-ahead log lies beside it.
Opened(files) ==
  IF files.wal \in {None, files.db.set} /\ ~Short(files) THEN files.db.set ELSE Mixed
WithLog(files) ==
  IF Opened(files) = Mixed THEN files
  ELSE [files EXCEPT !.wal = files.db.set, !.db.behind = TRUE]

\* Closing it merges the log and removes it, unless the merge fails or another
\* process has the database open; the error of Close is not looked at.
Closed(files) == {files, [files EXCEPT !.wal = None, !.db.behind = FALSE]}

Whole(files) ==
  /\ files.wal \in {None, files.db.set} /\ ~Short(files)
  /\ files.hosts = files.db.hosts

\* What whoever is served sees of the files.
Seen(files) == IF Whole(files) THEN files.db.set ELSE Mixed

-----------------------------------------------------------------------------
(* Restore, up to the work on the files *)

\* The middleware's exclusive lease, then Restore.
Begin ==
  /\ up /\ gate = "open" /\ op = Idle /\ restores < MaxRestores
  /\ \E archive \in Archives : op' = [Idle EXCEPT !.pc = "job", !.archive = archive]
  /\ gate' = "exclusive" /\ restores' = restores + 1 /\ answer' = "none"
  /\ UNCHANGED <<disk, stage, snaps, run, shown, up, faults, crashes>>

\* A restore refused before its marker is saved: the lease closes unactivated.
Refuse ==
  /\ op' = Idle /\ gate' = "open" /\ answer' = "failed"

CreateJob ==
  /\ At("job")
  /\ \/ Goto("activate") /\ disk' = [disk EXCEPT !.db.job = "running"] /\ UNCHANGED <<gate, answer, faults>>
     \/ Fault /\ Refuse /\ UNCHANGED disk
  /\ UNCHANGED <<stage, snaps, run, shown, up, restores, crashes>>

Activate ==
  /\ At("activate")
  /\ \/ Goto("open") /\ disk' = [disk EXCEPT !.db.marker = TRUE] /\ UNCHANGED <<gate, answer, faults>>
     \/ Fault /\ Refuse /\ disk' = [disk EXCEPT !.db.job = "failed"]
  /\ UNCHANGED <<stage, snaps, run, shown, up, restores, crashes>>

\* Decrypt, inspect the archive, then BeforeApply.
OpenArchive ==
  /\ At("open")
  /\ IF op.archive.opens /\ op.archive.fits THEN Goto("validate") ELSE Goto("fail")
  /\ UNCHANGED <<disk, stage, snaps, run, gate, answer, shown, up, restores, faults, crashes>>

\* ValidateConfigData, ValidateDatabaseFile, ReencryptDatabaseFile when the
\* archive's key is another one, then prepareRestoredDatabase: sessions out,
\* marker in.  All of it on a private copy.
Archived == [Fresh(restores) EXCEPT
  !.hosts = IF op.archive.hosts THEN restores ELSE disk.hosts,
  !.key = op.archive.key, !.archived = TRUE]

Reencrypted(db) == IF db.key = "current" THEN db ELSE [db EXCEPT !.key = "current"]

PrepareRestored(db) == [db EXCEPT !.archived = FALSE, !.marker = TRUE]

Validate ==
  /\ At("validate")
  /\ \/ op.archive.valid /\ stage' = PrepareRestored(Reencrypted(Archived)) /\ Goto("prepare") /\ UNCHANGED faults
     \/ ~op.archive.valid /\ Goto("fail") /\ UNCHANGED <<stage, faults>>
     \/ Fault /\ Goto("fail") /\ UNCHANGED stage
  /\ UNCHANGED <<disk, snaps, run, gate, answer, shown, up, restores, crashes>>

-----------------------------------------------------------------------------
(* The runtime's two operations, as steps of the file work *)

\* PreparePersistenceReplacement: notification writers pause and drain, then
\* the connection closes.  A failure resumes them and leaves it open.
Prepare(from, to, otherwise) ==
  /\ At(from)
  /\ \/ /\ run' = [run EXCEPT !.conn = None, !.notes = FALSE]
        /\ disk' \in IF run.conn = None THEN {disk} ELSE Closed(disk)
        /\ Goto(to) /\ UNCHANGED faults
     \/ Fault /\ Goto(otherwise) /\ UNCHANGED <<disk, run>>
  /\ UNCHANGED <<stage, snaps, gate, answer, shown, up, restores, crashes>>

\* Handoff saves the published state, an active restore, in the file in place.
\* The save opens the database, and may fail before or after that.
Handoff(from, to, otherwise) ==
  /\ At(from)
  /\ \/ /\ disk' = [WithLog(disk) EXCEPT !.db.marker = TRUE]
        /\ run' = [run EXCEPT !.conn = Opened(disk)]
        /\ Goto(to) /\ UNCHANGED faults
     \/ /\ Fault /\ Goto(otherwise)
        /\ \/ UNCHANGED <<disk, run>>
           \/ disk' = WithLog(disk) /\ run' = [run EXCEPT !.conn = Opened(disk)]
  /\ UNCHANGED <<stage, snaps, gate, answer, shown, up, restores, crashes>>

Interrupted(files) ==
  [files EXCEPT !.db.job = IF @ = "running" THEN "interrupted" ELSE @]

\* ReloadRestoredState: prepare again, reopen, suspend automation, rebase the
\* clock and the watermark, new job manager, unfinished jobs interrupted,
\* inventory, sessions, notification persistence last but for the vulnerability
\* scans' audit.  A failure may come before the connection is reopened, between
\* that and the resumption of notifications, or after it.
Reload(from, to, otherwise) ==
  /\ At(from)
  /\ LET opened == Opened(disk) IN
     \/ /\ run' = [conn |-> opened, loaded |-> opened, notes |-> TRUE]
        /\ disk' = Interrupted(WithLog(disk))
        /\ Goto(to) /\ UNCHANGED faults
     \/ /\ Fault /\ Goto(otherwise)
        /\ \/ UNCHANGED <<disk, run>>
           \/ /\ disk' \in {WithLog(disk), Interrupted(WithLog(disk))}
              /\ run' \in {[conn |-> opened, loaded |-> l, notes |-> FALSE] : l \in {run.loaded, opened}}
           \/ /\ disk' = Interrupted(WithLog(disk))
              /\ run' = [conn |-> opened, loaded |-> opened, notes |-> TRUE]
  /\ UNCHANGED <<stage, snaps, gate, answer, shown, up, restores, crashes>>

-----------------------------------------------------------------------------
(* applyArchiveFiles, from the first closed connection on *)

\* The originals are copied beside the database and listed in recovery.json.
\* Without them nothing is replaced: reloadOriginalPersistence.
Snapshot ==
  /\ At("snapshot")
  /\ \/ snaps' = [kept |-> TRUE, files |-> disk] /\ Goto("sidecars") /\ UNCHANGED faults
     \/ Fault /\ Goto("original_handoff") /\ UNCHANGED snaps
  /\ UNCHANGED <<disk, stage, run, gate, answer, shown, up, restores, crashes>>

\* One file replaced or removed, atomically (writeAtomicFileFromPath renames),
\* or left as it was and the rollback begins.
FileStep(from, to, files) ==
  /\ At(from)
  /\ \/ disk' = files /\ Goto(to) /\ UNCHANGED faults
     \/ Fault /\ Goto("unprepare") /\ UNCHANGED disk
  /\ UNCHANGED <<stage, snaps, run, gate, answer, shown, up, restores, crashes>>

RemoveSidecars == FileStep("sidecars", "database", [disk EXCEPT !.wal = None])
WriteDatabase == FileStep("database", "sidecars_again", [disk EXCEPT !.db = stage])
RemoveSidecarsAgain == FileStep("sidecars_again", "hosts", [disk EXCEPT !.wal = None])
WriteHosts == FileStep("hosts", "handoff",
  IF op.archive.hosts THEN [disk EXCEPT !.hosts = restores] ELSE disk)

\* Mutant: a file that could not be put back is not reported.
UndoQuietly(from, to, files) ==
  /\ At(from)
  /\ \/ disk' = files /\ Goto(to) /\ UNCHANGED faults
     \/ Fault /\ Goto(to) /\ UNCHANGED disk
  /\ UNCHANGED <<stage, snaps, run, gate, answer, shown, up, restores, crashes>>

\* restoreFileSnapshots goes on after an error and reports them together.
UndoStep(from, to, files) ==
  /\ At(from)
  /\ \/ disk' = files /\ Goto(to) /\ UNCHANGED faults
     \/ Fault /\ op' = [op EXCEPT !.pc = to, !.left = TRUE] /\ UNCHANGED disk
  /\ UNCHANGED <<stage, snaps, run, gate, answer, shown, up, restores, crashes>>

UndoDatabase == UndoStep("undo_database", "undo_wal", [disk EXCEPT !.db = snaps.files.db])
UndoWal == UndoStep("undo_wal", "undo_hosts", [disk EXCEPT !.wal = snaps.files.wal])
UndoHosts == UndoStep("undo_hosts", "undo_handoff",
  IF op.archive.hosts THEN [disk EXCEPT !.hosts = snaps.files.hosts] ELSE disk)

\* An incomplete rollback is not reloaded.
GiveUp ==
  /\ At("undo_handoff") /\ op.left
  /\ Goto("retain")
  /\ UNCHANGED <<disk, stage, snaps, run, gate, answer, shown, up, restores, faults, crashes>>

Rollback ==
  \/ Prepare("unprepare", "undo_database", "retain")
  \/ UndoDatabase \/ UndoWal \/ UndoHosts
  \/ GiveUp
  \/ ~op.left /\ Handoff("undo_handoff", "undo_reload", "retain")
  \/ Reload("undo_reload", "fail", "retain")

Apply ==
  \/ Prepare("prepare", "snapshot", "fail")
  \/ Snapshot
  \/ RemoveSidecars \/ WriteDatabase \/ RemoveSidecarsAgain \/ WriteHosts
  \/ Handoff("handoff", "reload", "unprepare")
  \/ Reload("reload", "succeed", "unprepare")

ReloadOriginal ==
  \/ Handoff("original_handoff", "original_reload", "retain")
  \/ Reload("original_reload", "fail", "retain")

-----------------------------------------------------------------------------
(* The endings *)

\* failRestoreArchive: snapshots gone, the job written as failed (by a
\* transition, or imported again after a rollback), its error not looked at.
FailRestore ==
  /\ At("fail")
  /\ snaps' = NoSnaps
  /\ \/ disk' = [disk EXCEPT !.db.job = "failed"] /\ UNCHANGED faults
     \/ Fault /\ UNCHANGED disk
  /\ op' = [op EXCEPT !.pc = "release", !.outcome = "failed"]
  /\ UNCHANGED <<stage, run, gate, answer, shown, up, restores, crashes>>

Succeed ==
  /\ At("succeed")
  /\ snaps' = NoSnaps
  /\ op' = [op EXCEPT !.pc = "release", !.outcome = "restored"]
  /\ UNCHANGED <<disk, stage, run, gate, answer, shown, up, restores, faults, crashes>>

\* The deferred Close: the cleared state is saved, then published.  When the
\* save fails, the job and the answer say so and the release stays pending.
Release ==
  /\ At("release")
  /\ \/ disk' = [disk EXCEPT !.db.marker = FALSE] /\ Goto("publish")
        /\ UNCHANGED <<gate, answer, faults>>
     \/ /\ Fault
        /\ disk' \in {disk, [disk EXCEPT !.db.job = "failed"]}
        /\ gate' = "pending" /\ answer' = "unreleased" /\ op' = Idle
  /\ UNCHANGED <<stage, snaps, run, shown, up, restores, crashes>>

Publish ==
  /\ At("publish")
  /\ gate' = "open" /\ shown' = Seen(disk) /\ answer' = op.outcome
  /\ IF op.outcome = "restored" THEN Goto("complete") ELSE op' = Idle
  /\ UNCHANGED <<disk, stage, snaps, run, up, restores, faults, crashes>>

\* The completed job is imported into the database that was restored.
Complete ==
  /\ At("complete")
  /\ disk' \in {disk, [disk EXCEPT !.db.job = "succeeded"]}
  /\ op' = Idle
  /\ UNCHANGED <<stage, snaps, run, gate, answer, shown, up, restores, faults, crashes>>

\* A later admission tries the pending release again.
RecoverRelease ==
  /\ up /\ gate = "pending"
  /\ disk' = [disk EXCEPT !.db.marker = FALSE]
  /\ gate' = "open" /\ shown' = Seen(disk)
  /\ UNCHANGED <<stage, snaps, run, op, answer, up, restores, faults, crashes>>

\* Mutant: the snapshots are removed with every other temporary file.
RetainAndClean ==
  /\ At("retain")
  /\ gate' = "latched" /\ op' = Idle /\ snaps' = NoSnaps
  /\ UNCHANGED <<disk, run, stage, answer, shown, up, restores, faults, crashes>>

\* IncompleteRecoveryError: the latch is published, and its save, which opens
\* whatever is in place, may fail.  Snapshots stay if they were made.
Retain ==
  /\ At("retain")
  /\ gate' = "latched" /\ op' = Idle
  /\ \/ UNCHANGED <<disk, run>>
     \/ /\ disk' = [WithLog(disk) EXCEPT !.db.marker = TRUE]
        /\ run' = [run EXCEPT !.conn = Opened(disk)]
  /\ UNCHANGED <<stage, snaps, answer, shown, up, restores, faults, crashes>>

-----------------------------------------------------------------------------
(* The process *)

Crash ==
  /\ up /\ crashes < MaxCrashes
  /\ Short(disk) => ExitsWhenShort
  /\ up' = FALSE /\ crashes' = crashes + 1
  /\ run' = [run EXCEPT !.conn = None, !.notes = FALSE]
  /\ op' = Idle
  /\ UNCHANGED <<disk, stage, snaps, gate, answer, shown, restores, faults>>

\* Startup: Initialize reads the marker before anything is served.  A short
\* database may have lost it with its other last changes.
Startup ==
  /\ ~up /\ up' = TRUE
  /\ run' = [conn |-> Opened(disk), loaded |-> Opened(disk), notes |-> TRUE]
  /\ disk' = Interrupted(WithLog(disk))
  /\ \E marker \in IF Short(disk) THEN BOOLEAN ELSE {disk.db.marker} :
       /\ gate' = IF marker THEN "latched" ELSE "open"
       /\ shown' = IF marker THEN shown ELSE Seen(disk)
  /\ UNCHANGED <<stage, snaps, op, answer, restores, faults, crashes>>

Next ==
  \/ Begin \/ CreateJob \/ Activate \/ OpenArchive \/ Validate
  \/ Apply \/ Rollback \/ ReloadOriginal
  \/ FailRestore \/ Succeed \/ Release \/ Publish \/ Complete \/ RecoverRelease \/ Retain
  \/ Crash \/ Startup

Spec == Init /\ [][Next]_vars

-----------------------------------------------------------------------------
(* Properties *)

Serving == up /\ gate = "open"

\* Whenever requests are admitted, the process works on one whole data set: the
\* connection, the caches loaded from it and known_hosts belong together, no log
\* of another database was applied to it, notification delivery has resumed, and
\* a database whose restore job reads succeeded did come from an archive.
ServedIsWhole ==
  Serving =>
    /\ Whole(disk)
    /\ run = [conn |-> disk.db.set, loaded |-> disk.db.set, notes |-> TRUE]
    /\ disk.db.job = "succeeded" => disk.db.set > 0

\* At every moment, through failures and crashes, an operator can get a whole
\* data set back: the files in place are whole, or the complete snapshots of the
\* originals are on disk.
Recoverable == Whole(disk) \/ (snaps.kept /\ Whole(snaps.files))

\* Nothing of an archive is live before it has been prepared: a database that
\* was ever put in place is sealed with this installation's key and holds none of
\* the archive's sessions, and one that a restore has put in place without
\* ending carries the marker that makes the next start latch.
InstalledIsPrepared ==
  /\ disk.db.key = "current" /\ ~disk.db.archived
  /\ disk.db.set # shown /\ gate # "open" /\ ~At("publish") /\ up => disk.db.marker

\* What a restore keeps at every step, failed and interrupted ones included: the
\* installation serves a whole data set, can be recovered, and has nothing of an
\* archive live that was not prepared (RestoreArchiveFile, applyArchiveFiles).
RestoreIsSafe == ServedIsWhole /\ Recoverable /\ InstalledIsPrepared

\* A process exit during the replacement blocks the next start: what a start
\* serves is a whole data set.
ExitBlocksStartup == [][~up /\ up' /\ gate' = "open" => shown' # Mixed]_vars

\* A restore is atomic to whoever is served (AtomicRestore): success shows the
\* archived set, failure the one before, and otherwise the application stays
\* latched, also when it is started again.
Atomic == INSTANCE AtomicRestore WITH
  mode <- IF ~up THEN "down" ELSE IF gate = "open" THEN "serving"
          ELSE IF gate = "latched" THEN "latched" ELSE "busy",
  data <- shown,
  next <- IF gate = "open" THEN shown ELSE restores,
  result <- IF gate = "open" THEN answer ELSE "none"

RestoreIsAtomic == Atomic!Spec

=============================================================================
