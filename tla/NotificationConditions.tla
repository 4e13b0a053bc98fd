------------------------ MODULE NotificationConditions ------------------------
(***************************************************************************)
(* Conditions that call for an operator: internal/notifications/           *)
(* conditions.go and notification_conditions.go.                           *)
(*                                                                         *)
(* The notification worker reads what the database says of approvals, of   *)
(* reboots and of backups from two cursors onward, folds it into the       *)
(* conditions it remembers, and admits one delivery for each episode of a  *)
(* condition and each destination; the state, its cursors and the          *)
(* deliveries are one transaction.  Before a delivery is sent the          *)
(* conditions are reconciled again.  Events are audited after what they    *)
(* report, observations arrive out of order, endpoints change, servers are *)
(* deleted and created again, settings are saved, and a restore puts an    *)
(* older database under the state that was live.                           *)
(*                                                                         *)
(* One job on one server, one destination.  The backup coverage, which has *)
(* no cursor, the removal of what is a month old, and the delivery itself  *)
(* (NotificationOutbox) are left out; a reconciliation is one step, as its *)
(* reads are one snapshot and conditionMu admits one at a time.            *)
(***************************************************************************)
EXTENDS Naturals, Sequences, FiniteSets, SequencesExt, TLC

CONSTANTS
    Urls,     \* what the destination may be set to
    MaxTime,  \* bound: the clock
    MaxOps    \* bound: what happens to jobs, servers, backups and settings

VARIABLES
    db,       \* the facts: audited events, the job, the server, its observations
    archive,  \* the facts of the latest backup
    conf,     \* the settings: the destination, whether it is on, the events selected
    cond,     \* notification_conditions: cursors, conditions, admissions, reminders
    rows,     \* the deliveries admitted, by identity
    sending,  \* the delivery the worker has claimed, with the settings it read
    now, ops,
    fresh,    \* whether the conditions were reconciled with these facts
    told,     \* the alerts that were sent: condition, what it was about, destination
    twice     \* whether one of them was sent again

vars == <<db, archive, conf, cond, rows, sending, now, ops, fresh, told, twice>>

Approval == <<"approval", 0>>
Export == <<"export", 0>>
Reboot(ident) == <<"reboot", ident>>
Expired(gen) == <<"expired", gen>>

Fact(id, gen, active, at) ==
    [id |-> id, gen |-> gen, active |-> active, at |-> at]

\* A row that is deleted keeps its place: keys are not used again.
Gone == [at |-> 0, need |-> FALSE, gone |-> TRUE]

NoneSending == [key |-> <<>>, conf |-> [url |-> "none"]]

EmptyFacts == [audit |-> <<>>, owed |-> <<>>,
               job |-> [gen |-> 0, waiting |-> FALSE, live |-> TRUE], exists |-> TRUE, ident |-> 0, idents |-> 0, snaps |-> <<>>, changed |-> 0,
               floor |-> 0]

Init ==
    /\ db = EmptyFacts
    /\ archive = EmptyFacts
    /\ conf \in [url : {CHOOSE u \in Urls : TRUE}, on : {TRUE},
                 events : {{"approval", "reboot", "export", "expired"}}, reminders : BOOLEAN]
    /\ cond = [audit |-> 0, health |-> 0, restored |-> FALSE, known |-> <<>>, adm |-> {},
               reminded |-> <<>>]
    /\ rows = <<>>
    /\ sending = NoneSending
    /\ now = 0 /\ ops = 0
    /\ fresh = FALSE
    /\ told = {} /\ twice = FALSE

-----------------------------------------------------------------------------
(* newNotificationConditionSource: the facts since the cursors.            *)

\* notificationAuditFacts: an expiration ends the approval and is an event of
\* its own.
AuditFacts(after) ==
    LET facts(e) == CASE e.kind = "published" -> <<Fact(Approval, e.gen, TRUE, 0)>>
                      [] e.kind = "expired" -> <<Fact(Approval, e.gen, FALSE, 0),
                                                 Fact(Expired(e.gen), e.gen, TRUE, 0)>>
                      [] e.kind = "export" -> <<Fact(Export, 0, ~e.ok, 0)>>
    IN FlattenSeq([i \in 1..(Len(db.audit) - after) |-> facts(db.audit[after + i])])

\* After a restore no event is replayed; the latest outcome of the backup counts.
LatestExport ==
    LET exports == SelectSeq(AuditFacts(0), LAMBDA f : f.id = Export)
    IN IF exports = <<>> THEN <<>> ELSE <<Last(exports)>>

\* A condition of a server that is gone, or of an endpoint it no longer has, ends.
Revalidated(id) ==
    LET c == cond.known[id]
    IN IF ~db.exists \/ id # Reboot(db.ident) THEN Fact(id, 0, FALSE, c.at)
       ELSE IF c.at < db.changed THEN Fact(id, 0, FALSE, db.changed)
       ELSE Fact(id, 0, c.active, c.at)

RebootFacts ==
    SetToSeq({Revalidated(id) : id \in {x \in DOMAIN cond.known : x[1] = "reboot"}})

\* notificationHealthFacts: observations of the present endpoint, all of them in
\* the order of their rows or, after a restore, the one captured last.
Current == {i \in DOMAIN db.snaps : db.exists /\ db.snaps[i] # Gone /\ db.snaps[i].at >= db.changed}

Latest(S) == {i \in S : \A j \in S \ {i} :
                db.snaps[j].at < db.snaps[i].at \/ (db.snaps[j].at = db.snaps[i].at /\ j < i)}

HealthRows == IF cond.restored THEN Latest(Current) ELSE {i \in Current : i > cond.health}

HealthFacts(ident) ==
    LET sorted == SetToSortSeq(HealthRows, <)
    IN [k \in DOMAIN sorted |->
          Fact(Reboot(ident), 0, db.snaps[sorted[k]].need, db.snaps[sorted[k]].at)]

\* What a job that waits says of its approval; of one that does not, an active
\* fact is taken back.
ApprovalFacts(audited) ==
    LET reported == SelectSeq(audited, LAMBDA f : f.id = Approval)
        last == IF reported # <<>> THEN Last(reported)
                ELSE IF Approval \in DOMAIN cond.known
                     THEN Fact(Approval, cond.known[Approval].gen, cond.known[Approval].active, 0)
                     ELSE Fact(Approval, 0, FALSE, 0)
        fact == IF db.job.waiting THEN Fact(Approval, db.job.gen, TRUE, 0) ELSE last
    IN IF fact.active THEN <<[fact EXCEPT !.active = db.job.waiting /\ db.exists]>> ELSE <<>>

\* The server's identity, made when it is first seen; after a restore of a
\* database that has none the live one is inherited.
Identity ==
    LET inherited == {id \in DOMAIN cond.known : id[1] = "reboot" /\ cond.restored}
    IN IF db.ident # 0 \/ ~db.exists THEN db.ident
       ELSE IF inherited # {} THEN (CHOOSE id \in inherited : TRUE)[2] ELSE db.idents + 1

Batch ==
    LET audited == AuditFacts(IF cond.restored THEN Len(db.audit) ELSE cond.audit)
    IN audited \o (IF cond.restored THEN LatestExport ELSE <<>>) \o RebootFacts
         \o HealthFacts(Identity) \o ApprovalFacts(audited)

-----------------------------------------------------------------------------
(* reconcileConditions: the facts into the conditions.                     *)

Enabled(id) == id[1] \in conf.events

OneShot(id) == id[1] = "expired"

\* Mutant: an older observation that arrives late is taken for the present.
AcceptedInOrder(known, f) ==
    LET new == f.id \notin DOMAIN known
        old == IF new THEN [active |-> FALSE, gen |-> 0, ep |-> 0, at |-> 0] ELSE known[f.id]
        starts == f.active /\ (new \/ ~old.active \/ old.gen # f.gen)
    IN (f.id :> [active |-> f.active, gen |-> f.gen,
                 ep |-> IF starts THEN old.ep + 1 ELSE old.ep, at |-> f.at]) @@ known

Accepted(known, f) ==
    LET new == f.id \notin DOMAIN known
        old == IF new THEN [active |-> FALSE, gen |-> 0, ep |-> 0, at |-> 0] ELSE known[f.id]
        late == f.id[1] = "reboot" /\ ~new /\ ~cond.restored /\ f.at < old.at
        starts == f.active /\ (new \/ ~old.active \/ old.gen # f.gen)
        active == IF ~OneShot(f.id) THEN f.active
                  ELSE IF new THEN Enabled(f.id) /\ conf.on ELSE old.active
    IN IF late THEN known
       ELSE (f.id :> [active |-> active, gen |-> f.gen,
                      ep |-> IF starts THEN old.ep + 1 ELSE old.ep, at |-> f.at]) @@ known

Folded == FoldLeft(Accepted, cond.known, Batch)

\* The deliveries to admit: each episode once for this destination, an event of
\* its own only when it is first seen.
Admitted(known) ==
    IF ~conf.on \/ conf.url = "none" THEN {}
    ELSE {<<id, known[id].ep, conf.url>> :
            id \in {x \in DOMAIN known : /\ known[x].active /\ Enabled(x)
                                         /\ OneShot(x) => x \notin DOMAIN cond.known}} \ cond.adm

Unresolved(known, c) == {id \in DOMAIN known : known[id].active /\ ~OneShot(id) /\ id[1] \in c.events}

\* The grouped reminder: the interval, one step of the clock here, starts when
\* reminders are first seen switched on.
Remind(known) ==
    /\ conf.on /\ conf.url # "none" /\ conf.reminders
    /\ conf.url \in DOMAIN cond.reminded
    /\ now > cond.reminded[conf.url]
    /\ Unresolved(known, conf) # {}

Reminded(known) ==
    IF ~conf.on \/ conf.url = "none" THEN cond.reminded
    ELSE IF ~conf.reminders THEN [u \in DOMAIN cond.reminded \ {conf.url} |-> cond.reminded[u]]
    ELSE IF conf.url \notin DOMAIN cond.reminded \/ Remind(known)
         THEN (conf.url :> now) @@ cond.reminded ELSE cond.reminded

\* pruneConditionState: admissions and reminders of the configured destination.
Pruned(c) ==
    [c EXCEPT !.adm = {a \in @ : a[1] \in DOMAIN c.known /\ a[2] = c.known[a[1]].ep
                                 /\ a[3] = conf.url},
              !.reminded = [u \in DOMAIN @ \cap {conf.url} |-> @[u]]]

\* Rows are inserted under their identity, which may be there already.
Inserted(known) ==
    LET new == Admitted(known)
                 \cup (IF Remind(known) THEN {<<<<"reminder", now>>, 0, conf.url>>} ELSE {})
    IN rows @@ [k \in new |-> "pending"]

Max0(S) == IF S = {} THEN 0 ELSE CHOOSE i \in S : \A j \in S : j <= i

\* The state after a reconciliation.
Reconciled ==
    LET known == Folded
    IN Pruned([audit |-> Len(db.audit),
               health |-> Max0(HealthRows \cup (IF cond.restored THEN {} ELSE {cond.health})),
               restored |-> FALSE, known |-> known, adm |-> cond.adm \cup Admitted(known),
               reminded |-> Reminded(known)])

Reconcile ==
    /\ cond' = Reconciled
    /\ rows' = Inserted(cond'.known)
    /\ db' = [db EXCEPT !.ident = Identity, !.idents = IF Identity > @ THEN Identity ELSE @]
    /\ fresh' = TRUE

Tick ==
    /\ Reconcile
    /\ UNCHANGED <<archive, conf, sending, now, ops, told, twice>>

-----------------------------------------------------------------------------
(* processOutboxRow for the deliveries of conditions.                      *)

Claim(k) ==
    /\ sending = NoneSending
    /\ rows[k] = "pending"
    /\ sending' = [key |-> k, conf |-> conf]
    /\ UNCHANGED <<db, archive, conf, cond, rows, now, ops, fresh, told, twice>>

\* Mutant: a condition that is active again will do for an older episode's alert.
EligibleByCondition(k, c, state) ==
    IF k[1][1] = "reminder"
    THEN /\ c.reminders /\ k[3] \in DOMAIN state.reminded
         /\ state.reminded[k[3]] = k[1][2] /\ Unresolved(state.known, c) # {}
    ELSE /\ k[1] \in DOMAIN state.known
         /\ state.known[k[1]].active /\ k[1][1] \in c.events

\* conditionDeliveryEligible, with the settings read before.
Eligible(k, c, state) ==
    IF k[1][1] = "reminder"
    THEN /\ c.reminders /\ k[3] \in DOMAIN state.reminded
         /\ state.reminded[k[3]] = k[1][2] /\ Unresolved(state.known, c) # {}
    ELSE /\ k[1] \in DOMAIN state.known
         /\ state.known[k[1]].active /\ state.known[k[1]].ep = k[2] /\ k[1][1] \in c.events

\* What an alert is about, by the facts: the plan of an approval, the failures
\* since the last export that succeeded, the observations of this endpoint since
\* the last that asked for no reboot.
Since(id) ==
    CASE id[1] = "approval" -> <<db.job.gen, {}>>
      [] id[1] = "export" ->
           <<Max0({i \in DOMAIN db.audit : db.audit[i].kind = "export" /\ db.audit[i].ok}), {}>>
      [] id[1] = "reboot" -> <<db.changed, Latest({i \in Current : ~db.snaps[i].need})>>
      [] OTHER -> <<0, {}>>

\* The conditions are reconciled, the delivery judged, and sent or skipped; a
\* failed attempt leaves it as it was.
Deliver ==
    LET k == sending.key
        c == sending.conf
        sends == Eligible(k, c, cond') /\ c.on /\ c.url = k[3]
        about == <<k[1], Since(k[1]), k[3]>>
    IN /\ sending # NoneSending
       /\ cond' = Reconciled
       /\ db' = [db EXCEPT !.ident = Identity, !.idents = IF Identity > @ THEN Identity ELSE @]
       /\ fresh' = TRUE
       /\ rows' = [Inserted(cond'.known) EXCEPT ![k] = IF sends THEN "sent" ELSE "skipped"]
       /\ told' = IF sends THEN told \cup {about} ELSE told
       /\ twice' = (twice \/ (sends /\ k[1][1] # "reminder" /\ about \in told))
       /\ sending' = NoneSending
       /\ UNCHANGED <<archive, conf, now, ops>>

-----------------------------------------------------------------------------
(* What the conditions are about.                                          *)

Outside ==
    /\ ops < MaxOps
    /\ ops' = ops + 1
    /\ UNCHANGED <<cond, rows, sending, now, twice>>

Facts(d) == db' = d /\ fresh' = FALSE /\ UNCHANGED <<archive, conf, told>>

\* The runner publishes a plan on the job's row and records the event afterwards,
\* before it goes on.
Publish ==
    /\ Outside /\ db.exists /\ db.job.live /\ db.owed = <<>>
    /\ Facts([db EXCEPT !.job.gen = @ + 1, !.job.waiting = TRUE,
                        !.owed = Append(@, [kind |-> "published", gen |-> db.job.gen + 1])])

\* The operator decides, or the runner finds the approval expired.
EndApproval(expired) ==
    /\ Outside /\ db.job.waiting /\ (expired => db.owed = <<>>)
    /\ Facts([db EXCEPT !.job.waiting = FALSE,
                        !.owed = IF expired THEN Append(@, [kind |-> "expired", gen |-> db.job.gen])
                                 ELSE @])

Audit ==
    /\ db.owed # <<>>
    /\ Facts([db EXCEPT !.audit = Append(@, Head(db.owed)), !.owed = Tail(@)])
    /\ UNCHANGED <<cond, rows, sending, now, ops, twice>>

ExportBackup(ok) ==
    /\ Outside
    /\ Facts([db EXCEPT !.audit = Append(@, [kind |-> "export", ok |-> ok])])

\* An observation is stored some time after it was captured; none is under way
\* while its server is deleted or a database restored.
Observe(at, need) ==
    /\ Outside /\ db.exists /\ at >= db.floor
    /\ Facts([db EXCEPT !.snaps = Append(@, [at |-> at, need |-> need, gone |-> FALSE])])

\* Nothing captured before has the time of the change.
ChangeEndpoint ==
    /\ ops < MaxOps /\ now < MaxTime
    /\ ops' = ops + 1 /\ now' = now + 1
    /\ db.exists
    /\ Facts([db EXCEPT !.changed = now + 1])
    /\ UNCHANGED <<cond, rows, sending, twice>>

DeleteServer ==
    /\ Outside /\ db.exists /\ ~db.job.waiting
    /\ Facts([db EXCEPT !.exists = FALSE, !.ident = 0, !.changed = 0,
                        !.snaps = [i \in DOMAIN @ |-> Gone]])

CreateServer ==
    /\ Outside /\ ~db.exists
    /\ Facts([db EXCEPT !.exists = TRUE, !.floor = now])

SaveSettings ==
    /\ Outside
    /\ conf' \in {[conf EXCEPT !.url = u, !.on = on, !.events = e] :
                    u \in Urls, on \in BOOLEAN, e \in {conf.events, conf.events \ {"approval"}}}
    /\ conf' # conf
    /\ UNCHANGED <<db, archive, fresh, told>>

Elapse ==
    /\ now < MaxTime
    /\ now' = now + 1
    /\ UNCHANGED <<db, archive, conf, cond, rows, sending, ops, fresh, told, twice>>

\* A restart interrupts the job that waits; a delivery is claimed again later.
Restart ==
    /\ ops < MaxOps
    /\ ops' = ops + 1
    /\ sending' = NoneSending
    /\ Facts([db EXCEPT !.job.waiting = FALSE, !.job.live = FALSE, !.owed = <<>>])
    /\ UNCHANGED <<cond, rows, now, twice>>

Backup ==
    /\ Outside
    /\ archive' = db
    /\ UNCHANGED <<db, conf, fresh, told>>

\* restoreConditions: the live state over the facts of the archive, whose job
\* is interrupted.  The worker is paused.  What is told from here on is about
\* restored evidence.
Restore ==
    /\ ops < MaxOps
    /\ ops' = ops + 1
    /\ sending = NoneSending
    /\ db' = [archive EXCEPT !.job.waiting = FALSE, !.job.live = FALSE, !.owed = <<>>,
                            !.idents = db.idents, !.floor = now]
    /\ cond' = [cond EXCEPT !.restored = TRUE]
    /\ fresh' = FALSE
    /\ told' = {}
    /\ UNCHANGED <<archive, conf, rows, sending, now, twice>>

Next ==
    \/ Tick \/ Deliver \/ (\E k \in DOMAIN rows : Claim(k))
    \/ Publish \/ Audit \/ (\E b \in BOOLEAN : EndApproval(b) \/ ExportBackup(b))
    \/ \E at \in 0..now, need \in BOOLEAN : Observe(at, need)
    \/ ChangeEndpoint \/ DeleteServer \/ CreateServer
    \/ SaveSettings \/ Elapse \/ Restart \/ Backup \/ Restore

Spec == Init /\ [][Next]_vars

-----------------------------------------------------------------------------

Active(id) == id \in DOMAIN cond.known /\ cond.known[id].active

\* Folding what came since the cursors gives what the facts say at once: an
\* approval is a condition exactly while its job waits, with the plan it waits
\* for, the export exactly while its latest outcome is a failure, the reboot
\* exactly while the latest observation of the present endpoint asks for it;
\* nothing recorded late, out of order, before an endpoint changed, a server
\* was deleted or a backup was restored makes a difference
\* (newNotificationConditionSource, reconcileConditions).
ConditionsTellTheFacts ==
    fresh =>
      /\ Active(Approval) <=> db.job.waiting /\ db.exists
      /\ Active(Approval) => cond.known[Approval].gen = db.job.gen
      /\ LET exports == SelectSeq(db.audit, LAMBDA e : e.kind = "export")
         IN exports # <<>> => (Active(Export) <=> ~Last(exports).ok)
      /\ \A i \in Latest(Current) : Active(Reboot(db.ident)) <=> db.snaps[i].need
      /\ \A id \in DOMAIN cond.known : id[1] = "reboot" /\ Active(id) => id = Reboot(db.ident)

\* An alert about the same thing is not sent to the same destination twice,
\* whatever was deferred, superseded, switched off and on again, or redirected
\* in between (the episodes and admissions of reconcileConditions,
\* conditionDeliveryEligible).
AlertedOnce == ~twice
====
