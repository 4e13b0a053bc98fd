------------------------- MODULE NotificationOutbox -------------------------
(***************************************************************************)
(* The durable notification outbox of internal/notifications: admission of *)
(* an event (Accept), the one worker that claims, sends and settles rows   *)
(* (run, processOutboxRow), destination settings and their diagnostics,    *)
(* and the replacement of the database under the running service by a      *)
(* restore (PreparePersistenceReplacement, ReloadPersistence).             *)
(*                                                                         *)
(* One destination stands for the three kinds; its fingerprint is its URL. *)
(* Time is left to Elapse: a retry that is due, a claim that has outlived  *)
(* ClaimTTL, a settled row that has outlived the retention.                *)
(***************************************************************************)
EXTENDS Naturals, Sequences, FiniteSets, SequencesExt, FiniteSetsExt

CONSTANTS
  Events,          \* delivery intents, each offered once
  MaxAttempts,     \* defaultAttempts
  MaxFaults,       \* database errors
  MaxOutside       \* saved settings, test deliveries, restores, stops and crashes

VARIABLES
  db,        \* [rows, conf]: the outbox in rowid order and the stored settings
  archive,   \* the database as it was exported
  accept,    \* event -> where its Accept call is, and the rows it built
  gate,      \* [paused, snapshot, closing, cancelled, initErr]
  worker,    \* [pc, row, conf]
  wake,      \* [signal, timer]: the wake channel and the retry timer
  restore,   \* [pc, original]
  test,      \* [pc, conf]: a test delivery
  ledger,    \* [admitted, settled]: what was promised and what was recorded
  spent      \* the bounds used up

vars == <<db, archive, accept, gate, worker, wake, restore, test, ledger, spent>>

-----------------------------------------------------------------------------

Active == {"pending", "claimed", "retrying"}
Terminal == {"succeeded", "failed", "skipped"}

Row == [id : Events, url : {"A", "B"}, state : Active \cup Terminal,
        attempts : 0 .. MaxAttempts, next : {"", "later", "past"}, old : BOOLEAN]
Conf == [enabled : BOOLEAN, url : {"none", "A", "B", "unsafe"},
         last : {"ok", "failed"}]
None == [none |-> TRUE]
NoRow == [id |-> "none"]

TypeOK ==
  /\ db.rows \in Seq(Row) /\ IsInjective([i \in DOMAIN db.rows |-> db.rows[i].id])
  /\ db.conf \in Conf
  /\ archive = None \/ archive.conf \in Conf
  /\ \A e \in Events : accept[e].pc \in {"new", "begun", "planned", "admitted", "skipped", "rejected", "closing"}
  /\ worker.pc \in {"select", "loop", "claim", "process", "attempt", "settle", "diagnose", "next", "between", "stopped", "down"}
  /\ restore.pc \in {"no", "pause", "capture", "replace", "reload", "late", "undo", "again", "back", "latched"}
  /\ test.pc \in {"no", "send", "store"}
  /\ gate.paused \in BOOLEAN /\ gate.closing \in BOOLEAN /\ gate.initErr \in BOOLEAN
  /\ wake \in [signal : BOOLEAN, timer : BOOLEAN]

Fault == spent.faults < MaxFaults /\ spent' = [spent EXCEPT !.faults = @ + 1]
Outside == spent.outside < MaxOutside /\ spent' = [spent EXCEPT !.outside = @ + 1]
NoFault == UNCHANGED spent

IdleWorker == [pc |-> "select", row |-> NoRow, conf |-> None]
OpenGate == [paused |-> FALSE, snapshot |-> None, closing |-> FALSE, cancelled |-> FALSE, initErr |-> FALSE]

Init ==
  /\ \E url \in {"A", "unsafe"} :
       db = [rows |-> << >>, conf |-> [enabled |-> TRUE, url |-> url, last |-> "ok"]]
  /\ archive = None
  /\ accept = [e \in Events |-> [pc |-> "new", url |-> "none"]]
  /\ gate = OpenGate
  /\ worker = IdleWorker
  /\ wake = [signal |-> FALSE, timer |-> FALSE]
  /\ restore = [pc |-> "no", original |-> None]
  /\ test = [pc |-> "no", conf |-> None]
  /\ ledger = [admitted |-> {}, settled |-> {}]
  /\ spent = [faults |-> 0, outside |-> 0]

-----------------------------------------------------------------------------
(* Settings *)

\* loadSettings turns off a destination whose URL no longer satisfies the policy
\* and writes that back (how a URL is protected at rest is left out).
Loaded(conf) == [conf EXCEPT !.enabled = @ /\ conf.url # "unsafe"]

\* enabledDestinations, destinationEnabled and destinationConfigured
Deliverable(conf) == conf.enabled /\ conf.url # "none"

\* SaveSettings: preserve, replace or clear the URL; enabling needs one.
SaveSettings ==
  /\ Outside
  /\ \E enabled \in BOOLEAN, intent \in {"preserve", "clear", "B"} :
       LET current == Loaded(db.conf)
           url == CASE intent = "preserve" -> current.url
                    [] intent = "clear" -> "none"
                    [] OTHER -> intent IN
       /\ enabled => url \notin {"none", "unsafe"}
       /\ db' = [db EXCEPT !.conf = [current EXCEPT !.enabled = enabled, !.url = url]]
  /\ UNCHANGED <<archive, accept, gate, worker, wake, restore, test, ledger>>

\* storeLastDelivery reads the settings again under the settings lock; the
\* delivery it reports on used the settings in the second argument.
StoredStale(now, used, outcome) == [used EXCEPT !.last = outcome]
Stored(now, used, outcome) == [Loaded(now) EXCEPT !.last = outcome]

\* TestDestination and deliverToDestination
TestDelivery ==
  \/ /\ test.pc = "no" /\ Outside
     /\ db' = [db EXCEPT !.conf = Loaded(@)]
     /\ test' = IF Loaded(db.conf).url = "none" THEN test ELSE [pc |-> "store", conf |-> Loaded(db.conf)]
  \/ /\ test.pc = "store" /\ NoFault
     /\ \E outcome \in {"ok", "failed"} : db' = [db EXCEPT !.conf = Stored(@, test.conf, outcome)]
     /\ test' = [pc |-> "no", conf |-> None]

TestStep == TestDelivery /\ UNCHANGED <<archive, accept, gate, worker, wake, restore, ledger>>

-----------------------------------------------------------------------------
(* Admission *)

\* Calls between beginPersistence and endPersistence.
Holding == { e \in Events : accept[e].pc \in {"begun", "planned"} }
WorkerHolds == worker.pc \notin {"select", "between", "stopped", "down"}
Quiet == Holding = {} /\ ~WorkerHolds

Answer(e, pc) == accept' = [accept EXCEPT ![e] = [pc |-> pc, url |-> "none"]]

AcceptBegin(e) ==
  /\ accept[e].pc = "new" /\ worker.pc # "down"
  /\ \/ gate.closing /\ Answer(e, "closing")
     \/ ~gate.closing /\ ~gate.paused /\ Answer(e, "begun")
  /\ UNCHANGED <<db, archive, gate, worker, wake, restore, test, ledger, spent>>

\* notificationPlan and buildOutboxRows
AcceptPlan(e) ==
  /\ accept[e].pc = "begun"
  /\ \/ Fault /\ Answer(e, "rejected") /\ UNCHANGED db
     \/ /\ NoFault
        /\ db' = [db EXCEPT !.conf = Loaded(@)]
        /\ IF db'.conf.enabled THEN accept' = [accept EXCEPT ![e] = [pc |-> "planned", url |-> db'.conf.url]]
           ELSE Answer(e, "skipped")
  /\ UNCHANGED <<archive, gate, worker, wake, restore, test, ledger>>

Ids(rows) == { rows[i].id : i \in DOMAIN rows }
Pending(e, url) == [id |-> e, url |-> url, state |-> "pending", attempts |-> 0, next |-> "", old |-> FALSE]

\* insertOutboxRowsTx: ON CONFLICT(id) DO NOTHING
Inserted(rows, row) == IF row.id \in Ids(rows) THEN rows ELSE Append(rows, row)

AcceptPersist(e) ==
  /\ accept[e].pc = "planned"
  /\ CASE gate.closing -> Answer(e, "closing") /\ UNCHANGED <<db, wake, ledger, spent>>
       [] ~gate.closing /\ gate.initErr -> Answer(e, "rejected") /\ UNCHANGED <<db, wake, ledger, spent>>
       [] OTHER ->
            \/ Fault /\ Answer(e, "rejected") /\ UNCHANGED <<db, wake, ledger>>
            \/ /\ NoFault /\ Answer(e, "admitted")
               /\ db' = [db EXCEPT !.rows = Inserted(@, Pending(e, accept[e].url))]
               /\ wake' = [wake EXCEPT !.signal = TRUE]
               /\ ledger' = [ledger EXCEPT !.admitted = @ \cup {e}]
  /\ UNCHANGED <<archive, gate, worker, restore, test>>

-----------------------------------------------------------------------------
(* The worker *)

Become(pc) == worker' = [worker EXCEPT !.pc = pc]
Rest == UNCHANGED <<archive, accept, restore, test>>

SetRow(id, row) ==
  db' = [db EXCEPT !.rows = [i \in DOMAIN @ |-> IF @[i].id = id THEN row ELSE @[i]]]
RowOf(id) == CHOOSE row \in ToSet(db.rows) : row.id = id

\* recoverExpiredOutboxClaims
Recovered(rows) ==
  [ i \in DOMAIN rows |-> IF rows[i].state = "claimed" /\ rows[i].old
                          THEN [rows[i] EXCEPT !.state = "retrying", !.next = "past", !.old = FALSE] ELSE rows[i] ]
\* pruneOutbox
Pruned(rows) == SelectSeq(rows, LAMBDA row : ~(row.state \in Terminal /\ row.old))
\* An outcome the outbox no longer holds a row for is forgotten.
Remembered(rows) == [k \in DOMAIN ledger |-> ledger[k] \ (ledger.settled \ Ids(rows))]

\* The select of run: shutdown, a wake-up or the retry timer.
Select ==
  /\ worker.pc = "select"
  /\ \/ gate.cancelled /\ Become("stopped") /\ UNCHANGED <<db, wake, ledger>>
     \/ /\ ~gate.paused
        /\ \/ wake.signal /\ wake' = [signal |-> FALSE, timer |-> FALSE]
           \/ wake.timer /\ wake' = [wake EXCEPT !.timer = FALSE]
        /\ Become("loop") /\ UNCHANGED <<db, ledger>>
     \/ gate.paused /\ gate.closing /\ (wake.signal \/ wake.timer) /\ Become("stopped") /\ UNCHANGED <<db, wake, ledger>>
  /\ Rest /\ UNCHANGED <<gate, spent>>

PruneTick ==
  /\ worker.pc = "select" /\ ~gate.paused /\ ~gate.cancelled /\ Become("loop")
  /\ db' = [db EXCEPT !.rows = Pruned(@)]
  /\ ledger' = Remembered(db'.rows)
  /\ Rest /\ UNCHANGED <<gate, wake, spent>>

RecoverClaims ==
  /\ worker.pc = "loop" /\ Become("claim")
  /\ \/ Fault /\ UNCHANGED db
     \/ NoFault /\ db' = [db EXCEPT !.rows = Recovered(@)]
  /\ Rest /\ UNCHANGED <<gate, wake, ledger>>

Claimable(rows) == { i \in DOMAIN rows : rows[i].state \in {"pending", "retrying"} /\ rows[i].next # "later" }

\* claimNextOutboxRow; a failed claim arms the poll timer.
Claim ==
  /\ worker.pc = "claim"
  /\ \/ gate.closing /\ Become("stopped") /\ UNCHANGED <<db, wake, spent>>
     \/ /\ ~gate.closing /\ ~gate.cancelled
        /\ \/ /\ Fault /\ Become("select") /\ UNCHANGED db
              /\ wake' = [wake EXCEPT !.timer = TRUE]
           \/ /\ NoFault /\ Claimable(db.rows) = {} /\ Become("next") /\ UNCHANGED <<db, wake>>
           \/ /\ NoFault /\ Claimable(db.rows) # {}
              /\ LET row == db.rows[Min(Claimable(db.rows))]
                     claimed == [row EXCEPT !.state = "claimed", !.old = FALSE] IN
                 /\ SetRow(row.id, claimed)
                 /\ worker' = [worker EXCEPT !.pc = "process", !.row = claimed]
              /\ UNCHANGED wake
  /\ Rest /\ UNCHANGED <<gate, ledger>>

\* completeOutboxRow: only a claim that is still held is settled.
Completed(id, state, attempts) ==
  /\ RowOf(id).state = "claimed"
  /\ SetRow(id, [RowOf(id) EXCEPT !.state = state, !.attempts = attempts, !.next = IF state = "retrying" THEN "later" ELSE "", !.old = FALSE])

\* After a row: endPersistence, then beginPersistence again, which waits while the
\* gate is closed and gives up when the service closes.
EndRow == worker' = [worker EXCEPT !.pc = "between", !.row = NoRow, !.conf = None]
Between ==
  /\ worker.pc = "between"
  /\ \/ ~gate.paused /\ Become("claim")
     \/ gate.paused /\ (gate.closing \/ gate.cancelled) /\ Become("stopped")
  /\ Rest /\ UNCHANGED <<db, gate, wake, ledger, spent>>

\* processOutboxRow up to the attempt: unreadable settings release the claim; a
\* destination that is off or has another identity by now settles it as skipped.
Process ==
  /\ worker.pc = "process"
  /\ \/ /\ Fault /\ EndRow
        /\ SetRow(worker.row.id, [RowOf(worker.row.id) EXCEPT !.state = "retrying", !.next = "later"])
        /\ UNCHANGED ledger
     \/ LET conf == Loaded(db.conf) IN
        IF Deliverable(conf) /\ conf.url = worker.row.url
        THEN /\ NoFault /\ worker' = [worker EXCEPT !.pc = "attempt", !.conf = conf]
             /\ db' = [db EXCEPT !.conf = conf] /\ UNCHANGED ledger
        ELSE /\ EndRow
             /\ \/ Fault /\ UNCHANGED <<db, ledger>>
                \/ /\ NoFault /\ Completed(worker.row.id, "skipped", worker.row.attempts)
                   /\ ledger' = [ledger EXCEPT !.settled = @ \cup {worker.row.id}]
  /\ Rest /\ UNCHANGED <<gate, wake>>

\* attemptOutboxDestination and the outcome: sent, to be retried, or failed for good.
Attempt ==
  /\ worker.pc = "attempt"
  /\ \E ok \in BOOLEAN :
       /\ gate.cancelled => ~ok
       /\ LET attempts == worker.row.attempts + 1 IN
          worker' = [worker EXCEPT !.pc = "settle", !.row.attempts = attempts,
                       !.row.state = CASE ok -> "succeeded" [] ~ok /\ attempts < MaxAttempts -> "retrying"
                                       [] OTHER -> "failed"]
  /\ Rest /\ UNCHANGED <<db, gate, wake, ledger, spent>>

Settle ==
  /\ worker.pc = "settle"
  /\ \/ Fault /\ EndRow /\ UNCHANGED <<db, ledger>>
     \/ /\ NoFault /\ Become("diagnose")
        /\ Completed(worker.row.id, worker.row.state, worker.row.attempts)
        /\ ledger' = IF worker.row.state = "retrying" THEN ledger
                     ELSE [ledger EXCEPT !.settled = @ \cup {worker.row.id}]
  /\ Rest /\ UNCHANGED <<gate, wake>>

Diagnose ==
  /\ worker.pc = "diagnose" /\ EndRow
  /\ \/ Fault /\ UNCHANGED db
     \/ NoFault /\ db' = [db EXCEPT !.conf = Stored(@, worker.conf, IF worker.row.state = "succeeded" THEN "ok" ELSE "failed")]
  /\ wake' = [wake EXCEPT !.signal = @ \/ worker.row.state = "retrying"]
  /\ Rest /\ UNCHANGED <<gate, ledger>>

\* nextOutboxWake: the earliest retry or claim expiry; an error polls.
WaitingRetriesOnly(rows) == \E i \in DOMAIN rows : rows[i].state = "retrying" /\ rows[i].next # ""
Waiting(rows) == \E i \in DOMAIN rows :
  rows[i].state = "claimed" \/ (rows[i].state = "retrying" /\ rows[i].next # "")

NextWake ==
  /\ worker.pc = "next" /\ Become("select")
  /\ \/ Fault /\ wake' = [wake EXCEPT !.timer = TRUE]
     \/ NoFault /\ wake' = [wake EXCEPT !.timer = Waiting(db.rows)]
  /\ Rest /\ UNCHANGED <<db, gate, ledger>>

-----------------------------------------------------------------------------
(* Replacing the database *)

Export ==
  /\ archive = None /\ restore.pc = "no" /\ db.rows # << >> /\ archive' = db
  /\ UNCHANGED <<db, accept, gate, worker, wake, restore, test, ledger, spent>>

\* loadCurrentOutboxRows: a claim is carried over as a retry that is due.
Captured(rows) ==
  [ i \in DOMAIN rows |-> IF rows[i].state = "claimed"
                          THEN [rows[i] EXCEPT !.state = "retrying", !.next = "", !.old = FALSE] ELSE rows[i] ]

\* restoreCurrentOutboxRows: the live active rows replace or join the restored
\* ones; a live outcome settles a restored row that is still active.
RestoredRows(rows, live) ==
  LET upsert == SelectSeq(live, LAMBDA row : row.state \in Active)
      at(id) == CHOOSE row \in ToSet(live) : row.id = id IN
  [ i \in DOMAIN rows |->
      IF rows[i].id \in Ids(upsert) \/ (rows[i].id \in Ids(live) /\ rows[i].state \in Active)
      THEN at(rows[i].id) ELSE rows[i] ]
  \o SelectSeq(upsert, LAMBDA row : row.id \notin Ids(rows))

Goto(pc) == restore' = [restore EXCEPT !.pc = pc]
Resume == wake' = [wake EXCEPT !.signal = TRUE]

BeginRestore ==
  /\ restore.pc = "no" /\ archive # None /\ worker.pc # "down" /\ Outside
  /\ Goto("pause") /\ gate' = [gate EXCEPT !.paused = TRUE]
  /\ UNCHANGED <<db, archive, accept, worker, wake, test, ledger>>

\* pausePersistence waits for the calls in flight; then the rows are captured,
\* unless an earlier preparation still holds them.  A failure reopens the gate.
Prepare(from, to, failed) ==
  /\ restore.pc = from
  /\ \/ /\ gate.snapshot = None /\ Fault /\ Goto(failed) /\ gate' = [gate EXCEPT !.paused = FALSE] /\ Resume
     \/ /\ NoFault /\ Quiet /\ Goto(to) /\ UNCHANGED wake
        /\ gate' = [gate EXCEPT !.paused = TRUE, !.snapshot = IF @ = None THEN [rows |-> Captured(db.rows)] ELSE @]
  /\ UNCHANGED <<db, archive, accept, worker, test, ledger>>

\* The archive's database takes the place of the live one; its settings are
\* protected under the running key.
Replace ==
  /\ restore.pc = "replace"
  /\ restore' = [restore EXCEPT !.pc = "reload", !.original = db]
  /\ db' = [archive EXCEPT !.conf = Loaded(@)]
  /\ UNCHANGED <<archive, accept, gate, worker, wake, test, ledger, spent>>

\* ReloadPersistence
Reload(from, to, failed) ==
  /\ restore.pc = from
  /\ \/ Fault /\ Goto(failed) /\ UNCHANGED <<db, gate, wake, ledger>>
     \/ gate.closing /\ NoFault /\ Goto(failed) /\ UNCHANGED <<db, gate, wake, ledger>>
     \/ /\ ~gate.closing /\ NoFault /\ Quiet /\ Goto(to)
        /\ LET merged == RestoredRows(Recovered(db.rows), gate.snapshot.rows) IN
           /\ db' = [db EXCEPT !.rows = Pruned(merged)]
           /\ ledger' = Remembered(db'.rows)
        /\ gate' = [gate EXCEPT !.paused = FALSE, !.snapshot = None, !.initErr = FALSE]
        /\ Resume
  /\ UNCHANGED <<archive, accept, worker, test>>

\* The steps of the reload after ReloadPersistence succeed, or undo the restore.
Conclude ==
  /\ restore.pc = "late"
  /\ \/ NoFault /\ restore' = [pc |-> "no", original |-> None]
     \/ Fault /\ Goto("undo")
  /\ UNCHANGED <<db, archive, accept, gate, worker, wake, test, ledger>>

Reinstate ==
  /\ restore.pc = "again"
  /\ db' = restore.original /\ restore' = [restore EXCEPT !.pc = "back", !.original = None]
  /\ UNCHANGED <<archive, accept, gate, worker, wake, test, ledger, spent>>

RestoreStep ==
  \/ BeginRestore \/ Replace \/ Conclude \/ Reinstate
  \/ Prepare("pause", "replace", "no")
  \/ Reload("reload", "late", "undo")
  \/ Prepare("undo", "again", "latched")
  \/ Reload("back", "no", "latched")

-----------------------------------------------------------------------------
(* Shutdown, crash and start *)

Close ==
  /\ worker.pc # "down" /\ Outside
  /\ gate' = [gate EXCEPT !.closing = TRUE] /\ Resume
  /\ UNCHANGED <<db, archive, accept, worker, restore, test, ledger>>

CloseTimesOut ==
  /\ gate.closing /\ ~gate.cancelled /\ gate' = [gate EXCEPT !.cancelled = TRUE]
  /\ UNCHANGED <<db, archive, accept, worker, wake, restore, test, ledger, spent>>

\* The process ends, asked to or not.  The captured rows are gone with it: a
\* database that was replaced has only its own ledger.
Exit ==
  /\ worker.pc # "down"
  /\ \/ gate.closing /\ worker.pc = "stopped" /\ restore.pc = "no" /\ NoFault
     \/ gate.closing /\ gate.cancelled /\ NoFault
     \/ Outside
  /\ worker' = [IdleWorker EXCEPT !.pc = "down"]
  /\ accept' = [e \in Events |-> IF e \in Holding THEN [pc |-> "closing", url |-> "none"] ELSE accept[e]]
  /\ gate' = OpenGate /\ wake' = [signal |-> FALSE, timer |-> FALSE]
  /\ restore' = [pc |-> "no", original |-> None]
  /\ test' = [pc |-> "no", conf |-> None]
  /\ ledger' = IF restore.pc \in {"reload", "undo", "again", "back", "latched", "late"}
               THEN [admitted |-> Ids(db.rows),
                     settled |-> { e \in Events : \E i \in DOMAIN db.rows : db.rows[i].id = e /\ db.rows[i].state \in Terminal }]
               ELSE ledger
  /\ UNCHANGED <<db, archive>>

\* NewService: expired claims, retention, and a first wake-up for what is left.
Start ==
  /\ worker.pc = "down" /\ worker' = IdleWorker
  /\ \/ /\ Fault /\ gate' = [OpenGate EXCEPT !.initErr = TRUE] /\ UNCHANGED <<db, wake, ledger>>
     \/ /\ NoFault /\ UNCHANGED gate
        /\ LET recovered == Recovered(db.rows) IN
           /\ db' = [db EXCEPT !.rows = Pruned(recovered)]
           /\ ledger' = Remembered(db'.rows)
        /\ wake' = [wake EXCEPT !.signal = \E i \in DOMAIN db'.rows : db'.rows[i].state \in Active]
  /\ Rest

\* Time passes for a row: its retry falls due, its claim or its retention expires.
Elapse ==
  /\ \E i \in DOMAIN db.rows :
       \/ /\ db.rows[i].state = "retrying" /\ db.rows[i].next = "later"
          /\ SetRow(db.rows[i].id, [db.rows[i] EXCEPT !.next = "past"])
       \/ /\ db.rows[i].state \in Terminal \cup {"claimed"} /\ ~db.rows[i].old
          /\ worker.row.id # db.rows[i].id
          /\ SetRow(db.rows[i].id, [db.rows[i] EXCEPT !.old = TRUE])
  /\ UNCHANGED <<archive, accept, gate, worker, wake, restore, test, ledger, spent>>

-----------------------------------------------------------------------------

WorkerStep == Select \/ RecoverClaims \/ Claim \/ Between \/ Process \/ Attempt \/ Settle \/ Diagnose \/ NextWake
AcceptStep == \E e \in Events : AcceptBegin(e) \/ AcceptPlan(e) \/ AcceptPersist(e)

Next ==
  \/ AcceptStep \/ WorkerStep \/ PruneTick \/ RestoreStep \/ TestStep
  \/ SaveSettings \/ Export \/ Close \/ CloseTimesOut \/ Exit \/ Start \/ Elapse

Spec == Init /\ [][Next]_vars

\* The worker and a restore never block for good, time passes, and a service
\* that was stopped is started again.  The hourly pruning tick is not counted on.
FairSpec ==
  /\ Spec
  /\ WF_vars(WorkerStep) /\ WF_vars(RestoreStep /\ ~BeginRestore) /\ WF_vars(AcceptStep)
  /\ WF_vars(Elapse) /\ WF_vars(CloseTimesOut) /\ WF_vars(Exit /\ gate.closing) /\ WF_vars(Start)

-----------------------------------------------------------------------------
(* Properties *)

Serving == worker.pc # "down" /\ gate.snapshot = None

\* The outbox keeps its promises across crashes, restarts, restores and restores
\* that are rolled back, even late: an event answered as admitted is in the live
\* outbox until its outcome is recorded, and one whose outcome is recorded is
\* not queued for delivery again (Accept, restoreCurrentOutboxRows).
OutboxKeepsItsPromises ==
  Serving => \A e \in Events :
    LET live == { row \in ToSet(db.rows) : row.id = e /\ row.state \in Active } IN
    /\ e \in ledger.admitted \ ledger.settled => live # {}
    /\ e \in ledger.settled => live = {}

\* A delivery report never undoes what the operator saved meanwhile: a step of
\* the worker or of a test delivery does not change the destination's URL, and
\* turns it off only when it is no longer allowed (storeLastDelivery).
SettingsAreKept ==
  [][ worker' # worker \/ test' # test
      => /\ db'.conf.url = db.conf.url
         /\ db'.conf.enabled # db.conf.enabled => db.conf.url = "unsafe" /\ ~db'.conf.enabled ]_vars

\* Neither an admitted event nor a saved setting is lost or undone by what the
\* worker, a test delivery or a restore does meanwhile (Service).
OutboxIsSafe == []OutboxKeepsItsPromises /\ SettingsAreKept

\* No wake-up is lost: whatever fails, is claimed by a process that died or is
\* retried, every row is settled in the end without the help of the pruning
\* tick, unless the service came up unable to use its database or an incomplete
\* restore has been latched (run, nextOutboxWake, signalWorker).
OutboxDrains ==
  []<>( \/ \A i \in DOMAIN db.rows : db.rows[i].state \in Terminal
        \/ gate.initErr \/ restore.pc = "latched" )

=============================================================================
