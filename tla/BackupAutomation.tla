-------------------------- MODULE BackupAutomation --------------------------
(***************************************************************************)
(* Automated backups: the durable schedule, the tick that claims an        *)
(* occurrence, exports, verifies, publishes and retains, the catalog of    *)
(* registered archives, and what a restore does to all of it               *)
(* (backup_automation.go, backup_automation_admission.go,                  *)
(* backup_catalog.go, and Export in backup_operation_lifecycle.go).        *)
(*                                                                         *)
(* Run n writes file n of the archive directory: its temporary link and    *)
(* its published archive.  One occurrence of the schedule is due every     *)
(* Period minutes; zone z shifts it by z.  Whether other work holds the    *)
(* gate, server actions are active or the destination validates is open at *)
(* every tick.  A tick holds the exclusive lease and the mutex, so nothing *)
(* but a crash, a clock and the file system moves beside it.               *)
(***************************************************************************)
EXTENDS Integers, Sequences, FiniteSets, SequencesExt

CONSTANTS
  Period, Window, RetryDelay,   \* backupDeferralWindow, backupRetryDelay
  Retain,                       \* Config.Retain
  Horizon, MaxRuns, MaxFaults, MaxCrashes, MaxOutside

VARIABLES
  now,
  saved,     \* the settings row
  audited,   \* archives a failed backup.verify audit was recorded for
  dir,       \* the archive directory: run -> [tmp, arc]
  dumps,     \* what an archive holds of this: run -> [saved, audited]
  tick,      \* the tick in progress: [pc, manual, s, ok]
  exports,   \* scheduled occurrence -> exports begun for it
  runs, faults, crashes, outside

vars == <<now, saved, audited, dir, dumps, tick, exports, runs, faults, crashes, outside>>

-----------------------------------------------------------------------------

Times == 0 .. Horizon + Period
None == -1
Runs == 1 .. MaxRuns

Archive == [id : Runs, seen : {"present", "missing", "changed"}, ok : BOOLEAN]

Settings == [enabled : BOOLEAN, approved : BOOLEAN, zone : {0, 1},
             next : Times, pending : Times \cup {None}, manual : BOOLEAN,
             retry : Times \cup {None}, temp : Runs \cup {0}, archives : Seq(Archive),
             outcome : {"disabled", "configured", "suspended", "deferred",
                        "running", "succeeded", "failed"}]

Default == [enabled |-> FALSE, approved |-> FALSE, zone |-> 0, next |-> 0,
            pending |-> None, manual |-> FALSE, retry |-> None, temp |-> 0,
            archives |-> <<>>, outcome |-> "disabled"]

NoFile == [tmp |-> FALSE, arc |-> "absent"]
Idle == [pc |-> "idle", manual |-> FALSE, s |-> Default, ok |-> FALSE]
NoDump == [s |-> Default, audited |-> {}]

TypeOK ==
  /\ now \in 0 .. Horizon
  /\ saved \in Settings
  /\ audited \subseteq Runs
  /\ dir \in [Runs -> [tmp : BOOLEAN, arc : {"absent", "intact", "changed"}]]
  /\ tick.pc \in {"idle", "recover_deferred", "defer", "cleanup", "recover", "decide",
                  "export", "write", "link", "unlink", "own", "retain", "finish"}
  /\ tick.s \in Settings
  /\ runs \in 0 .. MaxRuns

Init ==
  /\ now = 0
  /\ saved \in {Default, [Default EXCEPT !.enabled = TRUE, !.approved = TRUE,
                                         !.next = Period, !.outcome = "configured"]}
  /\ audited = {} /\ dir = [i \in Runs |-> NoFile] /\ dumps = [i \in Runs |-> NoDump]
  /\ tick = Idle /\ exports = [t \in Times |-> 0]
  /\ runs = 0 /\ faults = 0 /\ crashes = 0 /\ outside = 0

Fault == faults < MaxFaults /\ faults' = faults + 1
Outside == outside < MaxOutside /\ outside' = outside + 1

\* nextBackupOccurrence: the first instant of the schedule after now.
NextBackupOccurrence(zone) == CHOOSE t \in Times :
  /\ t > now /\ t % Period = zone
  /\ \A u \in Times : u > now /\ u % Period = zone => t <= u

At(pc) == tick.pc = pc
Go(pc, s) == tick' = [tick EXCEPT !.pc = pc, !.s = s]

\* save, and the error return that follows when it fails.
SaveThen(s, then) ==
  \/ saved' = s /\ (IF then = "idle" THEN tick' = Idle ELSE Go(then, s)) /\ UNCHANGED faults
  \/ Fault /\ tick' = Idle /\ UNCHANGED saved

-----------------------------------------------------------------------------
(* Tick: up to the decision *)

\* The early returns: nothing is enabled, approved or due.
Wanted(s, manual) == manual \/ ((s.enabled \/ s.manual) /\ s.approved)
Due(s, manual) == manual \/ (IF s.pending = None THEN now >= s.next ELSE now >= s.retry)

\* needsExclusiveTick: interrupted work and temporary files need a tick too.
NeedsExclusiveTick(s) ==
  s.outcome = "running" \/ s.temp # 0 \/ (Wanted(s, FALSE) /\ Due(s, FALSE))

AfterCleanup(s) == IF s.outcome = "running" THEN "recover" ELSE "decide"

\* Admission: exclusive, or shared because other work is admitted.
BeginTick ==
  /\ At("idle")
  /\ \E manual \in BOOLEAN, shared \in BOOLEAN :
       /\ IF manual THEN Outside ELSE NeedsExclusiveTick(saved) /\ UNCHANGED outside
       /\ tick' = [pc |-> IF shared THEN IF saved.outcome = "running" THEN "recover_deferred" ELSE "defer"
                          ELSE IF saved.temp # 0 THEN "cleanup" ELSE AfterCleanup(saved),
                   manual |-> manual, s |-> saved, ok |-> FALSE]
  /\ UNCHANGED <<now, saved, audited, dir, dumps, exports, runs, faults, crashes>>

\* rebaseTimezone, at the first tick after the application's zone has changed: a
\* deferred occurrence is kept, the next one is computed anew.
RebaseTimezone ==
  /\ At("idle") /\ Outside
  /\ LET zone == 1 - saved.zone IN
       saved' = [saved EXCEPT !.zone = zone, !.next = NextBackupOccurrence(zone)]
  /\ UNCHANGED <<now, audited, dir, dumps, tick, exports, runs, faults, crashes>>

\* cleanupTemporary, when the destination validates and is the approved one.
CleanupTemporary ==
  /\ At("cleanup")
  /\ LET temp == tick.s.temp IN
     \/ Go(AfterCleanup(tick.s), tick.s) /\ UNCHANGED <<saved, dir, faults>>
     \/ /\ tick.s.approved
        /\ \/ dir' = [dir EXCEPT ![temp].tmp = FALSE]
              /\ SaveThen([tick.s EXCEPT !.temp = 0], AfterCleanup(tick.s))
           \/ Fault /\ tick' = Idle /\ UNCHANGED <<saved, dir>>
  /\ UNCHANGED <<now, audited, dumps, exports, runs, crashes, outside>>

\* recoverInterrupted: an occurrence whose run was cut off is consumed.
Consumed(s) == [s EXCEPT !.outcome = "failed", !.pending = None, !.manual = FALSE, !.retry = None]

RecoverInterrupted ==
  /\ \/ At("recover") /\ SaveThen(Consumed(tick.s), "decide")
     \/ At("recover_deferred") /\ SaveThen(Consumed(tick.s), "defer")
  /\ UNCHANGED <<now, audited, dir, dumps, exports, runs, crashes, outside>>

ReturnEarly ==
  /\ \/ At("decide") /\ ~(Wanted(tick.s, tick.manual) /\ Due(tick.s, tick.manual))
     \/ At("defer") /\ ~Wanted(tick.s, tick.manual)
     \/ At("defer") /\ ~tick.manual /\ tick.s.pending = None /\ now < tick.s.next
     \/ At("defer") /\ tick.manual   \* the destination does not validate
  /\ tick' = Idle
  /\ UNCHANGED <<now, saved, audited, dir, dumps, exports, runs, faults, crashes, outside>>

-----------------------------------------------------------------------------
(* Tick: the outcomes *)

\* The occurrence this tick is about.
Pended(s) == IF s.pending # None THEN s
             ELSE [s EXCEPT !.manual = tick.manual, !.pending = IF tick.manual THEN now ELSE s.next]

Advanced(s) == [s EXCEPT !.next = NextBackupOccurrence(s.zone)]

Expired(s) == Advanced(Consumed(s))

\* deferLocked
DeferLocked(s) ==
  LET p == IF s.pending = None THEN Advanced(Pended(s)) ELSE s IN
  IF s.pending # None /\ now < s.retry THEN tick' = Idle /\ UNCHANGED <<saved, faults>>
  ELSE SaveThen(IF now - p.pending >= Window THEN Expired(p)
                ELSE [p EXCEPT !.outcome = "deferred", !.retry = now + RetryDelay], "idle")

\* Other work holds the gate.
Defer ==
  /\ At("defer") /\ Wanted(tick.s, tick.manual)
  /\ tick.manual => tick.s.approved
  /\ ~(~tick.manual /\ tick.s.pending = None /\ now < tick.s.next)
  /\ DeferLocked(tick.s)
  /\ UNCHANGED <<now, audited, dir, dumps, exports, runs, crashes, outside>>

Deciding == At("decide") /\ Wanted(tick.s, tick.manual) /\ Due(tick.s, tick.manual)

\* The destination is not the approved one, or does not validate any more.
Suspend ==
  /\ Deciding
  /\ IF tick.s.approved THEN Outside ELSE UNCHANGED outside
  /\ tick' = Idle
  /\ saved' \in {saved, [tick.s EXCEPT !.outcome = "suspended", !.approved = FALSE]}
  /\ UNCHANGED <<now, audited, dir, dumps, exports, runs, faults, crashes>>

Overdue(s) ==
  \/ s.pending # None /\ now - s.pending >= Window
  \/ ~tick.manual /\ s.pending = None /\ now - s.next >= Window

\* cleanupTemporary again, if the first one found no valid destination.
Cleaned(s) == [s EXCEPT !.temp = 0]
WithoutTemporary == IF tick.s.temp = 0 THEN dir ELSE [dir EXCEPT ![tick.s.temp].tmp = FALSE]

\* A deferral past its window, or an occurrence missed by more than that.
Expire ==
  /\ Deciding /\ tick.s.approved /\ Overdue(tick.s)
  /\ dir' = WithoutTemporary
  /\ SaveThen(Expired(Cleaned(tick.s)), "idle")
  /\ UNCHANGED <<now, audited, dumps, exports, runs, crashes, outside>>

\* Server actions are active.
DeferActive ==
  /\ Deciding /\ tick.s.approved /\ ~Overdue(tick.s)
  /\ dir' = WithoutTemporary
  /\ DeferLocked(Cleaned(tick.s))
  /\ UNCHANGED <<now, audited, dumps, exports, runs, crashes, outside>>

\* The claim, saved before anything is exported.
Claim ==
  /\ Deciding /\ tick.s.approved /\ ~Overdue(tick.s) /\ runs < MaxRuns
  /\ dir' = WithoutTemporary
  /\ SaveThen([Advanced(Pended(tick.s)) EXCEPT !.outcome = "running", !.retry = None, !.temp = runs + 1],
              "export")
  /\ runs' = runs + 1
  /\ UNCHANGED <<now, audited, dumps, exports, crashes, outside>>

-----------------------------------------------------------------------------
(* Export and publication *)

Failing(from) == At(from) /\ Fault /\ Go("finish", tick.s)

\* Export: the database snapshot holds the claim itself.
Export ==
  /\ At("export")
  /\ exports' = IF tick.s.manual THEN exports ELSE [exports EXCEPT ![tick.s.pending] = @ + 1]
  /\ \/ Go("write", tick.s) /\ UNCHANGED faults
        /\ dumps' = [dumps EXCEPT ![tick.s.temp] = [s |-> saved, audited |-> audited]]
     \/ Failing("export") /\ UNCHANGED dumps
  /\ UNCHANGED <<now, saved, audited, dir, runs, crashes, outside>>

\* publish: copy and sync the temporary file, verify it,
WriteTemporary ==
  /\ At("write")
  /\ dir' \in {dir, [dir EXCEPT ![tick.s.temp].tmp = TRUE]}
  /\ \/ Go("link", tick.s) /\ dir' # dir /\ UNCHANGED faults
     \/ Failing("write")
  /\ UNCHANGED <<now, saved, audited, dumps, exports, runs, crashes, outside>>

\* link it under its name, which replaces nothing,
Link ==
  /\ At("link")
  /\ \/ dir' = [dir EXCEPT ![tick.s.temp].arc = "intact"] /\ Go("unlink", tick.s) /\ UNCHANGED faults
     \/ Failing("link") /\ UNCHANGED dir
  /\ UNCHANGED <<now, saved, audited, dumps, exports, runs, crashes, outside>>

\* and drop the temporary link.
Unlink ==
  /\ At("unlink")
  /\ \/ dir' = [dir EXCEPT ![tick.s.temp].tmp = FALSE] /\ Go("own", tick.s) /\ UNCHANGED faults
     \/ Failing("unlink") /\ UNCHANGED dir
  /\ UNCHANGED <<now, saved, audited, dumps, exports, runs, crashes, outside>>

Registered(s) == [s EXCEPT !.temp = 0,
  !.archives = Append(@, [id |-> s.temp, seen |-> "present", ok |-> TRUE])]

\* Ownership is saved before retention may delete anything.
Own ==
  /\ At("own")
  /\ \/ saved' = Registered(tick.s) /\ Go("retain", Registered(tick.s)) /\ UNCHANGED faults
     \/ Fault /\ Go("finish", Registered(tick.s)) /\ UNCHANGED saved
  /\ UNCHANGED <<now, audited, dir, dumps, exports, runs, crashes, outside>>

\* backupArchiveMatches, and the registered archives that match, newest first.
Intact(a) == dir[a.id].arc = "intact"
Valid(archives) == SelectSeq(Reverse(archives), Intact)

\* Mutant: the newest archives are kept, whether they are intact or not.
SurplusByAge(archives) == { a \in ToSet(archives) : Intact(a) /\ a.id <= runs - Retain }
Surplus(archives) ==
  LET valid == Valid(archives) IN { valid[i] : i \in (Retain + 1) .. Len(valid) }

\* retain: the surplus is removed, newest first; a failed removal leaves the
\* list of the archives as it was.
RetainStep ==
  /\ At("retain")
  /\ LET surplus == Surplus(tick.s.archives) IN
     IF surplus = {}
     THEN /\ tick' = [tick EXCEPT !.pc = "finish", !.ok = TRUE,
                        !.s.archives = Reverse(SubSeq(Valid(@), 1, IF Retain < Len(Valid(@)) THEN Retain ELSE Len(Valid(@))))]
          /\ UNCHANGED <<dir, faults>>
     ELSE LET a == CHOOSE x \in surplus : \A y \in surplus : y.id <= x.id IN
          \/ dir' = [dir EXCEPT ![a.id].arc = "absent"] /\ UNCHANGED <<tick, faults>>
          \/ Failing("retain") /\ UNCHANGED dir
  /\ UNCHANGED <<now, saved, audited, dumps, exports, runs, crashes, outside>>

\* The outcome, the temporary file, the final save, the lease.
Finish ==
  /\ At("finish")
  /\ LET temp == tick.s.temp
         ended(ok, left) == [Consumed(tick.s) EXCEPT
           !.outcome = IF ok THEN "succeeded" ELSE "failed", !.temp = left] IN
     \/ /\ temp = 0 /\ UNCHANGED dir
        /\ \/ SaveThen(ended(tick.ok, 0), "idle")
           \/ saved' = ended(FALSE, 0) /\ Fault /\ tick' = Idle   \* Close failed
     \/ /\ temp # 0 /\ dir' = [dir EXCEPT ![temp].tmp = FALSE]
        /\ SaveThen(ended(FALSE, 0), "idle")
     \/ /\ temp # 0 /\ Fault /\ UNCHANGED dir
        /\ saved' = ended(FALSE, temp) /\ tick' = Idle
  /\ UNCHANGED <<now, audited, dumps, exports, runs, crashes, outside>>

-----------------------------------------------------------------------------
(* The operator, the catalog, a restore *)

\* Configure: nothing of the past stays pending.
Configure ==
  /\ At("idle") /\ Outside
  /\ \E enabled, valid \in BOOLEAN :
       /\ enabled => valid
       /\ saved' = [saved EXCEPT !.enabled = enabled, !.approved = valid,
            !.next = NextBackupOccurrence(saved.zone), !.pending = None, !.manual = FALSE,
            !.retry = None, !.outcome = IF valid THEN "configured" ELSE "disabled"]
  /\ UNCHANGED <<now, audited, dir, dumps, tick, exports, runs, faults, crashes>>

Availability(a) ==
  CASE dir[a.id].arc = "intact" -> "present"
    [] dir[a.id].arc = "absent" -> "missing"
    [] OTHER -> "changed"

Newly(archives) == { a \in ToSet(archives) : Availability(a) # "present" /\ a.seen # Availability(a) }

Marked(archives) == [ i \in DOMAIN archives |->
  IF archives[i] \in Newly(archives)
  THEN [archives[i] EXCEPT !.seen = Availability(archives[i]), !.ok = FALSE] ELSE archives[i] ]

\* catalogLocked: damage is audited before the mark that hides it from the next
\* listing is saved.
List ==
  /\ At("idle") /\ Newly(saved.archives) # {}
  /\ LET damaged == { a.id : a \in Newly(saved.archives) } IN
     \/ /\ audited' = audited \cup damaged
        /\ saved' = [saved EXCEPT !.archives = Marked(@)] /\ UNCHANGED faults
     \/ /\ Fault /\ UNCHANGED saved
        /\ \E some \in SUBSET damaged : audited' = audited \cup some
  /\ UNCHANGED <<now, dir, dumps, tick, exports, runs, crashes, outside>>

\* handleBackupCatalogOperation with verify: the archive is copied and hashed,
\* then reviewed with the deployment's passphrase, which may have changed.
VerifyArchive ==
  /\ At("idle") /\ Outside
  /\ \E i \in DOMAIN saved.archives, ready \in BOOLEAN :
       LET a == saved.archives[i]
           good == Availability(a) = "present" /\ ready IN
       /\ audited' = IF good THEN audited ELSE audited \cup {a.id}
       /\ \/ saved' = [saved EXCEPT !.archives[i] = [id |-> a.id, seen |-> Availability(a), ok |-> good]]
          \/ UNCHANGED saved
  /\ UNCHANGED <<now, dir, dumps, tick, exports, runs, faults, crashes>>

\* SuspendAfterRestore
Suspended(s) == [s EXCEPT !.approved = FALSE, !.pending = None, !.manual = FALSE,
                          !.retry = None, !.temp = 0, !.outcome = "suspended"]

\* A restore (BackupRestore) of one of the archives.
Restore ==
  /\ At("idle") /\ Outside
  /\ \E i \in Runs :
       /\ dir[i].arc = "intact"
       /\ saved' = Suspended(dumps[i].s) /\ audited' = dumps[i].audited
  /\ UNCHANGED <<now, dir, dumps, tick, exports, runs, faults, crashes>>

\* Somebody changes or removes a published archive.
Damage ==
  /\ tick.pc \in {"idle", "retain"} /\ Outside
  /\ \E i \in Runs, arc \in {"absent", "changed"} :
       dir[i].arc = "intact" /\ dir' = [dir EXCEPT ![i].arc = arc]
  /\ UNCHANGED <<now, saved, audited, dumps, tick, exports, runs, faults, crashes>>

Advance ==
  /\ At("idle") /\ now < Horizon /\ now' = now + 1
  /\ UNCHANGED <<saved, audited, dir, dumps, tick, exports, runs, faults, crashes, outside>>

\* The process ends in the middle of a tick; the next tick finds what it saved.
Crash ==
  /\ ~At("idle") /\ crashes < MaxCrashes
  /\ tick' = Idle /\ crashes' = crashes + 1
  /\ UNCHANGED <<now, saved, audited, dir, dumps, exports, runs, faults, outside>>

Next ==
  \/ BeginTick \/ RebaseTimezone \/ CleanupTemporary \/ RecoverInterrupted \/ ReturnEarly
  \/ Defer \/ Suspend \/ Expire \/ DeferActive \/ Claim
  \/ Export \/ WriteTemporary \/ Link \/ Unlink \/ Own \/ RetainStep \/ Finish
  \/ Configure \/ List \/ VerifyArchive \/ Restore \/ Damage \/ Advance \/ Crash

Spec == Init /\ [][Next]_vars

-----------------------------------------------------------------------------
(* Properties *)

\* A scheduled occurrence is exported at most once: not again after a crash in
\* the middle of its run, a failed save, a deferral, a change of the schedule or
\* of the zone, nor after a restore of the archive that holds its own claim.
OccurrenceOnce == \A t \in Times : exports[t] <= 1

\* Retention deletes nothing it may not: an archive that a tick removes is
\* registered in the saved row, and Retain newer archives, registered too, are
\* intact on disk.
RetentionIsSafe ==
  [][\A i \in Runs : At("retain") /\ dir[i].arc = "intact" /\ dir'[i].arc = "absent" /\ UNCHANGED outside =>
       LET kept == { a.id : a \in { b \in ToSet(saved.archives) : Intact(b) } } IN
       i \in kept /\ Cardinality({ j \in kept : j > i }) >= Retain]_vars

\* Damage is never hidden: an archive whose saved record says it failed has been
\* reported to the audit trail that recovery health and notifications read.
DamageIsAudited == \A a \in ToSet(saved.archives) : ~a.ok => a.id \in audited

\* What automation may never do: export an occurrence twice, remove an archive it
\* should keep, or hide a damaged one (RunBackupAutomationTick and the catalog).
AutomationIsSafe == [](OccurrenceOnce /\ DamageIsAudited) /\ RetentionIsSafe

=============================================================================
