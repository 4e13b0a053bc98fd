-------------------------- MODULE PolicyScheduler --------------------------
(***************************************************************************)
(* The policy scheduler (internal/policies: service.go, occurrences.go,    *)
(* scheduler_recovery*.go, scheduler_watermark.go).  Once a minute a tick  *)
(* replays the minutes maintenance blocked, records the latest occurrence  *)
(* of each policy that fell into a gap of the durable watermark, and then  *)
(* dispatches the current minute: it accepts occurrences, evaluates the    *)
(* rollout gates and writes one row per member.  A step is one read of the *)
(* state, or one durable write; the operator edits, jobs end, maintenance  *)
(* begins and the process crashes in between.                              *)
(*                                                                         *)
(* What happens to a row once its run was launched is ScheduledRuns'       *)
(* subject; here a job ends when it likes and its row follows.  Reasons of *)
(* skipped rows are left out, as is everything local to a time zone: due   *)
(* is the set of canonical minutes.  The continuation of rollouts without  *)
(* a manifest (rows from before manifests existed) is not modelled, and a  *)
(* gap is shorter than the recovery horizon of seven days.                 *)
(***************************************************************************)
EXTENDS RolloutPlan

CONSTANTS
  Servers,      \* servers, as numbers in name order
  Policies,     \* policies, as numbers in creation order
  Instances,    \* what to start from: [pol: the saved policies, found: is there
                \* a checkpoint?, budget: bound on edits, operations and failed
                \* writes, together, crashes: bound on crashes]
  Drafts,       \* the edits an operator may save: <<policy, draft>>
  Leavers,      \* the servers an operator may take out or bring back
  MaxTime       \* the last minute

Minutes == 1..MaxTime

ASSUME SizeAssumption ==
  /\ Servers \subseteq Nat /\ \A S \in SUBSET Servers : Cardinality(S) \in Nat
  /\ Policies \subseteq Nat
  /\ MaxTime \in Nat \ {0}

ASSUME PolicyAssumption ==
  /\ Instances \subseteq [pol : [Policies -> Policy(Servers, Minutes)], found : BOOLEAN,
                          budget : Nat, crashes : Nat]
  /\ Drafts \subseteq Policies \X Policy(Servers, Minutes)
  /\ Leavers \subseteq Servers

VARIABLES
  now,       \* the current minute
  up,        \* is the process up?
  maint,     \* does an exclusive operation hold the maintenance gate?
  cfg,       \* saved configuration: pol, off (servers out), since, rev
  occ,       \* update_policy_occurrences: Policies -> key -> manifest
  runs,      \* update_policy_runs: <<policy, origin, server>> -> row
  jobs,      \* the status of each run's job
  at,        \* observation: the minute whose tick launched the run, or 0
  scopes,    \* recovery scopes: {<<policy, origin>>}
  mark,      \* the checkpoint: found, at (watermark), rev (of the fingerprint),
             \* and base (observation: minutes up to it predate the scheduler)
  missed,    \* in memory: minutes maintenance blocked
  last,      \* the minute of the process's last tick, or 0
  tick,      \* the tick in progress
  budget, crashes    \* what is left of the instance's bounds

vars == <<now, up, maint, cfg, occ, runs, jobs, at, scopes, mark, missed, last, tick,
          budget, crashes>>

OnceKey == 0        \* the occurrence key "once"; other keys are the origin

Keys == {OnceKey} \cup Minutes

RunKeys == Policies \X Minutes \X Servers

JobStatus == {"none", "active", "succeeded", "failed", "interrupted"}

NoOccurrence == [origin |-> 0, batches |-> << >>, block |-> "", rank |-> 0,
                 dark |-> {}, closed |-> TRUE]

Accepted(p, key) == occ[p][key].origin # 0

\* enrichOnceConsumption: whatever its cadence is now.
Consumed == {p \in Policies : Accepted(p, OnceKey)}

\* A tick: pc, the minute it processes, the checkpoint it loaded, the
\* configuration it captured (snap) and whether that is the checkpoint's
\* (known), the blocked minutes it found, the minutes it has processed; and
\* for the slot in progress the minute, whether it is a blocked one, the
\* configuration and consumption it reads, the policies still to accept, the
\* manifests it must not plan (hidden), the rows still to write and whether
\* one failed.
Idle == [pc |-> "idle"]

Cfg == [pol : [Policies -> Policy(Servers, Minutes)], off : SUBSET Servers,
        since : [Policies -> 0..MaxTime], rev : Nat]

Mark == [found : BOOLEAN, at : 0..MaxTime, rev : Nat, base : 0..MaxTime]

Batch == [servers : SUBSET Servers, delay : Nat]

Manifest == [origin : 0..MaxTime, batches : Seq(Batch),
             block : {"", "no_match", "canary_unavailable", "scheduler_missed"},
             rank : Nat, dark : SUBSET Minutes, closed : BOOLEAN]

Tick == [pc : {"next", "accept", "recover", "plan", "skip", "start", "save"},
         now : Minutes, mark : Mark, snap : Cfg, consumed : SUBSET Policies,
         known : BOOLEAN, pending : SUBSET Minutes, done : SUBSET (0..MaxTime),
         slot : 0..MaxTime, blocked : BOOLEAN, view : Cfg, used : SUBSET Policies,
         accept : SUBSET Policies, skips : SUBSET RunKeys, launches : SUBSET RunKeys,
         err : BOOLEAN, hidden : SUBSET (Policies \X Keys), next : {"next", "save"}]

TypeOK ==
  /\ now \in Minutes /\ up \in BOOLEAN /\ maint \in BOOLEAN
  /\ cfg \in Cfg
  /\ occ \in [Policies -> [Keys -> Manifest]]
  /\ runs \in [RunKeys -> Row] /\ jobs \in [RunKeys -> JobStatus]
  /\ at \in [RunKeys -> 0..MaxTime]
  /\ scopes \subseteq Policies \X Minutes
  /\ mark \in Mark /\ missed \subseteq Minutes /\ last \in 0..MaxTime
  /\ tick \in Tick \cup {Idle}
  /\ budget \in Nat /\ crashes \in Nat

Init ==
  /\ now = 1 /\ up = TRUE /\ maint = FALSE
  /\ \E i \in Instances :
       /\ cfg = [pol |-> i.pol, off |-> {}, since |-> [p \in Policies |-> 0], rev |-> 0]
       /\ budget = i.budget /\ crashes = i.crashes
       /\ mark = [found |-> i.found, at |-> 0, rev |-> 0, base |-> 0]
  /\ occ = [p \in Policies |-> [key \in Keys |-> NoOccurrence]]
  /\ runs = [k \in RunKeys |-> NoRow]
  /\ jobs = [k \in RunKeys |-> "none"]
  /\ at = [k \in RunKeys |-> 0]
  /\ scopes = {} /\ missed = {} /\ last = 0 /\ tick = Idle

Goto(pc) == tick' = [tick EXCEPT !.pc = pc]

\* n is the first of some numbers.
First(n, S) == \A m \in S : n <= m

Trouble == budget > 0 /\ budget' = budget - 1

-----------------------------------------------------------------------------
(* ProcessDueWithRecovery.  The maintenance lease is held from here to the *)
(* end of the tick; a tick that does not get it is remembered.             *)

\* One tick per minute and process.  The last minute stands for all later
\* ones: no policy is due in it, and it ticks again and again.
Fires == last < now \/ now = MaxTime

RememberMissedTick ==
  /\ up /\ tick = Idle /\ maint /\ Fires
  /\ missed' = missed \cup {now} /\ last' = now
  /\ UNCHANGED <<now, up, maint, cfg, occ, runs, jobs, at, scopes, mark, tick, budget, crashes>>

\* Load the checkpoint, capture the configuration between two equal reads of
\* its revision, and compare its fingerprint with the checkpoint's.
Capture ==
  /\ up /\ tick = Idle /\ ~maint /\ Fires
  /\ last' = now
  /\ tick' = [pc |-> "next", now |-> now, mark |-> mark,
              snap |-> cfg, consumed |-> Consumed,
              known |-> mark.found => mark.rev = cfg.rev,
              pending |-> missed, done |-> {},
              slot |-> 0, blocked |-> FALSE, view |-> cfg, used |-> {},
              accept |-> {}, skips |-> {}, launches |-> {}, err |-> FALSE,
              hidden |-> {}, next |-> "next"]
  /\ UNCHANGED <<now, up, maint, cfg, occ, runs, jobs, at, scopes, mark, missed, budget, crashes>>

\* Mutant: only the cadence decides, not whether the policy is consumed.
EnabledAgain(view, used) == {p \in Policies : view.pol[p].on}

Enabled(view, used) == {p \in Policies : view.pol[p].on /\ p \notin used}

\* The policies whose occurrence the slot must accept: due exactly then.
ToAccept(view, used, t) ==
  {p \in Enabled(view, used) : Managed(view.pol[p]) /\ t \in view.pol[p].due}

\* ProcessDueSlot begins: what it reads of policies, overrides and servers.
BeginSlot(t, blocked, view, used, next) ==
  LET accept == ToAccept(view, used, t)
  IN  tick' = [tick EXCEPT !.pc = IF accept = {} THEN "plan" ELSE "accept",
                           !.slot = t, !.blocked = blocked, !.accept = accept,
                           !.view = view, !.used = used, !.next = next]

\* latestMissedScheduledSlots: one slot per policy, after the watermark and
\* after the policy was last saved, before the current minute.
LatestMissedScheduledSlots ==
  LET In(p) == {d \in tick.snap.pol[p].due :
                  /\ d > tick.snap.since[p]
                  /\ d > tick.mark.at /\ d < tick.now}
  IN  {ps \in Enabled(tick.snap, tick.consumed) \X Minutes :
         ps[2] \in In(ps[1]) /\ \A d \in In(ps[1]) : d <= ps[2]}

\* The next slot of a tick: the blocked minutes, oldest first, as minutes
\* under maintenance and with the captured configuration; then the missed
\* slots, oldest first; then the current minute, for which the configuration
\* is read again.
NextSlot ==
  /\ tick.pc = "next"
  /\ LET blocked == {t \in tick.pending : t <= tick.now /\ tick.known} \ tick.done
         missing == {ps \in LatestMissedScheduledSlots :
                       tick.mark.found /\ tick.known /\ ps[2] \notin tick.done}
         times   == {ps[2] : ps \in missing}
     IN  \/ \E t \in blocked :
              First(t, blocked) /\ BeginSlot(t, TRUE, tick.snap, tick.consumed, "next")
         \/ /\ blocked = {}
            /\ \E t \in times :
                 /\ First(t, times)
                 /\ tick' = [tick EXCEPT !.pc = "recover", !.slot = t, !.next = "next",
                               !.accept = {ps[1] : ps \in {q \in missing : q[2] = t}}]
         \/ /\ blocked = {} /\ missing = {}
            /\ BeginSlot(tick.now, FALSE, cfg, Consumed, "save")
  /\ UNCHANGED <<now, up, maint, cfg, occ, runs, jobs, at, scopes, mark, missed, last, budget, crashes>>

-----------------------------------------------------------------------------
(* Occurrences.                                                            *)

OccurrenceKey(policy, origin) == IF policy.once THEN OnceKey ELSE origin

\* AcceptOccurrence: INSERT ... ON CONFLICT DO NOTHING.
AcceptOccurrence(p, o) ==
  LET key == OccurrenceKey(tick.view.pol[p], o.origin)
  IN  occ' = [occ EXCEPT ![p][key] = IF Accepted(p, key) THEN @ ELSE o]

\* schedulePlans accepts the occurrence of a policy due at the slot; a new
\* manifest for a time that an open one already has is not planned.
Accept(p) ==
  LET key  == OccurrenceKey(tick.view.pol[p], tick.slot)
      seen == \E other \in Keys \ {key} :
                ~occ[p][other].closed /\ occ[p][other].origin = tick.slot
  IN  /\ AcceptOccurrence(p, NewOccurrence(tick.view.pol[p], tick.slot, tick.view.off))
      /\ tick' = [tick EXCEPT !.accept = @ \ {p},
                    !.pc = IF tick.accept = {p} THEN "plan" ELSE @,
                    !.hidden = IF seen THEN @ \cup {<<p, key>>} ELSE @]

\* ... policy by policy.
AcceptNext ==
  /\ tick.pc = "accept"
  /\ \E p \in tick.accept : First(p, tick.accept) /\ Accept(p)
  /\ UNCHANGED <<now, up, maint, cfg, runs, jobs, at, scopes, mark, missed, last, budget, crashes>>

\* processMissedDueSlotWithStore, for one selected policy: accept the
\* occurrence as missed, claim the scope of a rollout that has no rows yet,
\* and record a skip for every matched server without a row.  The claim is
\* in one step with the acceptance: nothing reads it in between.
Recover(p) ==
  LET policy  == tick.snap.pol[p]
      o       == NewOccurrence(policy, tick.slot, tick.snap.off)
      key     == OccurrenceKey(policy, tick.slot)
      held    == IF Accepted(p, key) THEN occ[p][key] ELSE o
      stale   == Managed(policy) /\ (held.origin # tick.slot \/ held.closed)
      rows    == {s \in Servers : runs[<<p, tick.slot, s>>] # NoRow}
      scope   == <<p, tick.slot>>
      owned   == ~policy.waves \/ rows = {} \/ scope \in scopes
      targets == Matched(policy, tick.snap.off) \ rows
  IN  /\ occ' = IF Managed(policy) /\ ~Accepted(p, key)
                THEN [occ EXCEPT ![p][key] =
                        [o EXCEPT !.block = IF @ = "" THEN "scheduler_missed" ELSE @]]
                ELSE occ
      /\ scopes' = IF policy.waves /\ ~stale /\ owned THEN scopes \cup {scope} ELSE scopes
      /\ tick' = [tick EXCEPT !.accept = @ \ {p},
                    !.pc = IF tick.accept = {p} THEN "skip" ELSE @,
                    !.skips = IF ~stale /\ owned
                              THEN @ \cup {<<p, tick.slot, s>> : s \in targets} ELSE @]

RecoverNext ==
  /\ tick.pc = "recover"
  /\ \E p \in tick.accept : First(p, tick.accept) /\ Recover(p)
  /\ UNCHANGED <<now, up, maint, cfg, runs, jobs, at, mark, missed, last, budget, crashes>>

-----------------------------------------------------------------------------
(* Plans, gates and rows.                                                  *)

\* ReconcileRun: an open row with a job follows the job.
Reconciled(k) ==
  IF runs[k].job /\ Open(runs[k]) /\ jobs[k] # "active"
  THEN [runs[k] EXCEPT !.status = jobs[k], !.reason = "job"] ELSE runs[k]

\* The plans of a slot: open occurrences up to it, and immediate policies
\* due at it, which have no manifest.
Plans ==
  {[policy |-> pk[1], key |-> pk[2], o |-> occ[pk[1]][pk[2]]] :
     pk \in {q \in (Policies \X Keys) \ tick.hidden :
               ~occ[q[1]][q[2]].closed /\ occ[q[1]][q[2]].origin <= tick.slot}}
  \cup
  {[policy |-> p, key |-> -1,
    o |-> NewOccurrence(tick.view.pol[p], tick.slot, tick.view.off)] :
     p \in {q \in Enabled(tick.view, tick.used) :
              ~Managed(tick.view.pol[q]) /\ tick.slot \in tick.view.pol[q].due}}

\* Mutant: a canary that its own minute did not launch is launched late.
NoLateness(plan, i) == FALSE

\* The canary batch of an accepted occurrence whose minute has passed.
Late(plan, i) == plan.key # -1 /\ i = 1 /\ plan.o.origin < tick.slot

\* Mutant: a failed gate leaves the members undecided.
DecidedWhenReady(plan, i, row) ==
  {s \in plan.o.batches[i].servers :
     /\ row[s] = NoRow
     /\ tick.slot - plan.o.origin >= plan.o.batches[i].delay
     /\ BatchGate(plan.o.batches, i, row) = "ready"}

\* Members of batch i that a plan decides now, and whether they are skipped.
Decided(plan, i, row) ==
  {s \in plan.o.batches[i].servers :
     /\ row[s] = NoRow
     /\ tick.slot - plan.o.origin >= plan.o.batches[i].delay
     /\ BatchGate(plan.o.batches, i, row) # "waiting"}

Skips(plan, i, s, row) ==
  \/ s \in tick.view.off \/ plan.o.block # ""
  \/ BatchGate(plan.o.batches, i, row) = "failed"
  \/ Late(plan, i)
  \/ tick.blocked
  \/ tick.slot \in plan.o.dark

\* ProcessDueSlot's loop over the plans: reconcile the rows the gates look
\* at, decide each member, close the occurrences whose rows have all ended,
\* and let the policies compete for each server.
Dispatch ==
  /\ tick.pc = "plan"
  /\ LET RowOf(plan) == [s \in Servers |-> Reconciled(<<plan.policy, plan.o.origin, s>>)]
         Key(d)   == <<d.plan.policy, d.plan.o.origin, d.server>>
         decided  == {d \in [plan : Plans, batch : 1..Cardinality(Servers), server : Servers] :
                        /\ d.batch \in DOMAIN d.plan.o.batches
                        /\ d.server \in Decided(d.plan, d.batch, RowOf(d.plan))}
         skipped  == {d \in decided : Skips(d.plan, d.batch, d.server, RowOf(d.plan))}
         Bid(d)   == [policy |-> d.plan.policy, rank |-> d.plan.o.rank, origin |-> d.plan.o.origin]
         beaten   == {d \in decided \ skipped :
                        \E e \in decided \ skipped :
                           e.server = d.server /\ Beats(Bid(e), Bid(d))}
         scanned  == {<<plan.policy, plan.o.origin>> : plan \in Plans}
         complete == {plan \in Plans : plan.key # -1 /\
                        \A s \in Members(plan.o.batches) :
                           RowOf(plan)[s].status \in TerminalRun}
     IN  /\ runs' = [k \in RunKeys |-> IF <<k[1], k[2]>> \in scanned THEN Reconciled(k) ELSE runs[k]]
         /\ occ' = [p \in Policies |-> [key \in Keys |->
                      IF \E plan \in complete : plan.policy = p /\ plan.key = key
                      THEN [occ[p][key] EXCEPT !.closed = TRUE] ELSE occ[p][key]]]
         /\ tick' = [tick EXCEPT !.pc = "skip",
                       !.skips = {Key(d) : d \in skipped \cup beaten},
                       !.launches = {Key(d) : d \in (decided \ skipped) \ beaten}]
  /\ UNCHANGED <<now, up, maint, cfg, jobs, at, scopes, mark, missed, last, budget, crashes>>

\* k is the first of some keys: by server, policy and origin.
Least(k, keys) ==
  \A l \in keys : \/ k[3] < l[3]
                  \/ k[3] = l[3] /\ (k[1] < l[1] \/ (k[1] = l[1] /\ k[2] <= l[2]))

\* HandleScheduledRun with an outcome: insert the skipped row, unless the
\* key has one.  A failing write is collected and fails the slot at its end.
RecordSkipped ==
  /\ tick.pc = "skip"
  /\ \E k \in tick.skips :
       /\ Least(k, tick.skips)
       /\ \/ /\ runs' = [runs EXCEPT ![k] = IF @ = NoRow THEN [@ EXCEPT !.status = "skipped",
                                                                !.reason = "not_admitted"] ELSE @]
             /\ tick' = [tick EXCEPT !.skips = @ \ {k}]
             /\ UNCHANGED budget
          \/ /\ Trouble
             /\ tick' = [tick EXCEPT !.skips = @ \ {k}, !.err = TRUE]
             /\ UNCHANGED runs
  /\ UNCHANGED <<now, up, maint, cfg, occ, jobs, at, scopes, mark, missed, last, crashes>>

\* HandleScheduledRun of the winner of a server: insert the queued row ...
Launch ==
  /\ tick.pc = "skip" /\ tick.skips = {}
  /\ \E k \in tick.launches :
       /\ Least(k, tick.launches)
       /\ \/ /\ runs[k] = NoRow
             /\ runs' = [runs EXCEPT ![k].status = "queued"]
             /\ Goto("start") /\ UNCHANGED budget
          \/ /\ runs[k] # NoRow
             /\ tick' = [tick EXCEPT !.launches = @ \ {k}]
             /\ UNCHANGED <<runs, budget>>
          \/ /\ Trouble
             /\ tick' = [tick EXCEPT !.launches = @ \ {k}, !.err = TRUE]
             /\ UNCHANGED runs
  /\ UNCHANGED <<now, up, maint, cfg, occ, jobs, at, scopes, mark, missed, last, crashes>>

\* ... and start its job, or end the row because the server is busy or not
\* ready (skipped) or its job could not be created (failed, which every
\* reader here treats alike).
Start ==
  /\ tick.pc = "start"
  /\ \E k \in tick.launches :
       /\ Least(k, tick.launches)
       /\ \/ /\ jobs' = [jobs EXCEPT ![k] = "active"]
             /\ runs' = [runs EXCEPT ![k].status = "running", ![k].job = TRUE]
             /\ at' = [at EXCEPT ![k] = tick.now]
          \/ /\ runs' = [runs EXCEPT ![k].status = "skipped", ![k].reason = "not_admitted"]
             /\ UNCHANGED <<jobs, at>>
       /\ tick' = [tick EXCEPT !.pc = "skip", !.launches = @ \ {k}]
  /\ UNCHANGED <<now, up, maint, cfg, occ, scopes, mark, missed, last, budget, crashes>>

\* The slot is done; an error in it ends the tick before its checkpoint.
EndSlot ==
  /\ tick.pc = "skip" /\ tick.skips = {} /\ tick.launches = {}
  /\ tick' = IF tick.err THEN Idle
             ELSE [tick EXCEPT !.pc = tick.next, !.view = tick.snap, !.used = {}, !.hidden = {},
                               !.done = @ \cup {tick.slot}]
  /\ UNCHANGED <<now, up, maint, cfg, occ, runs, jobs, at, scopes, mark, missed, last, budget, crashes>>

\* SaveSchedulerCheckpoint: watermark and fingerprint in one transaction.
\* Then the replayed minutes are forgotten, or, when the configuration was
\* not the checkpoint's, all of them.
Save ==
  /\ tick.pc = "save"
  /\ \/ /\ mark' = [found |-> TRUE,
                    at    |-> IF tick.mark.found THEN Max({tick.mark.at, tick.now}) ELSE tick.now,
                    rev   |-> tick.snap.rev,
                    base  |-> IF tick.mark.found THEN mark.base ELSE tick.now - 1]
        /\ missed' = missed \ (IF tick.known THEN tick.done \cap tick.pending
                               ELSE {t \in tick.pending : t <= tick.now})
        /\ UNCHANGED budget
     \/ /\ Trouble
        /\ UNCHANGED <<mark, missed>>
  /\ tick' = Idle
  /\ UNCHANGED <<now, up, maint, cfg, occ, runs, jobs, at, scopes, last, crashes>>

-----------------------------------------------------------------------------
(* Jobs, the operator, maintenance, time and the process.                  *)

\* A job ends.  Its watcher projects it on the row before anyone looks, or
\* the row lags until a gate reconciles it or a restart interrupts it.
JobEnds(k) ==
  /\ up /\ jobs[k] = "active"
  /\ \E end \in {"succeeded", "failed"} :
       /\ jobs' = [jobs EXCEPT ![k] = end]
       /\ \/ runs' = [runs EXCEPT ![k].status = end, ![k].reason = "job"]
          \/ UNCHANGED runs
  /\ UNCHANGED <<now, up, maint, cfg, occ, at, scopes, mark, missed, last, tick, budget, crashes>>

\* UpdatePolicy and DeletePolicy (a draft that is off); triggers bump the
\* state revision in the same transaction.
UpdatePolicy(p) ==
  /\ up /\ Trouble
  /\ \E d \in Drafts : d[1] = p /\
       cfg' = [cfg EXCEPT !.pol[p] = d[2], !.since[p] = now, !.rev = @ + 1]
  /\ UNCHANGED <<now, up, maint, occ, runs, jobs, at, scopes, mark, missed, last, tick, crashes>>

\* A server leaves or rejoins: removed, disabled, overridden, or back.
UpdateServer(s) ==
  /\ up /\ Trouble
  /\ cfg' = [cfg EXCEPT !.off = IF s \in @ THEN @ \ {s} ELSE @ \cup {s}, !.rev = @ + 1]
  /\ UNCHANGED <<now, up, maint, occ, runs, jobs, at, scopes, mark, missed, last, tick, crashes>>

MaintenanceBegins ==
  /\ up /\ ~maint /\ tick = Idle /\ Trouble
  /\ maint' = TRUE
  /\ UNCHANGED <<now, up, cfg, occ, runs, jobs, at, scopes, mark, missed, last, tick, crashes>>

MaintenanceEnds ==
  /\ maint /\ maint' = FALSE
  /\ UNCHANGED <<now, up, cfg, occ, runs, jobs, at, scopes, mark, missed, last, tick, budget, crashes>>

Advance ==
  /\ now < MaxTime /\ now' = now + 1
  /\ UNCHANGED <<up, maint, cfg, occ, runs, jobs, at, scopes, mark, missed, last, tick, budget, crashes>>

Crash ==
  /\ up /\ crashes > 0 /\ crashes' = crashes - 1
  /\ up' = FALSE /\ tick' = Idle /\ missed' = {} /\ last' = 0 /\ maint' = FALSE
  /\ UNCHANGED <<now, cfg, occ, runs, jobs, at, scopes, mark, budget>>

\* Jobs are recovered first, then MarkInterruptedRuns, then the first tick.
Restart ==
  /\ ~up /\ up' = TRUE
  /\ jobs' = [k \in RunKeys |-> IF jobs[k] = "active" THEN "interrupted" ELSE jobs[k]]
  /\ runs' = [k \in RunKeys |-> Interrupted(runs[k])]
  /\ UNCHANGED <<now, maint, cfg, occ, at, scopes, mark, missed, last, tick, budget, crashes>>

Step == \/ NextSlot \/ AcceptNext \/ RecoverNext \/ Dispatch
        \/ RecordSkipped \/ Launch \/ Start \/ EndSlot \/ Save

Next ==
  \/ RememberMissedTick \/ Capture \/ Step
  \/ \E k \in RunKeys : JobEnds(k)
  \/ \E p \in Policies : UpdatePolicy(p)
  \/ \E s \in Leavers : UpdateServer(s)
  \/ MaintenanceBegins \/ MaintenanceEnds \/ Advance \/ Crash \/ Restart

Spec == Init /\ [][Next]_vars

\* The ticker fires and the tick's steps return; time passes, jobs end (they
\* run under timeouts), an exclusive operation ends and the process is
\* restarted.  Each of the latter happens finitely often here, so that one
\* condition is enough for all of them.
FairSpec ==
  /\ Spec
  /\ WF_vars(Capture \/ Step)
  /\ WF_vars(Advance \/ MaintenanceEnds \/ Restart \/ \E k \in RunKeys : JobEnds(k))

-----------------------------------------------------------------------------
(* Properties.                                                             *)

Launched(k) == at[k] # 0

\* The occurrence a row belongs to, when it has a manifest.
ManifestOf(k) ==
  {o \in {occ[k[1]][key] : key \in Keys} : o.origin = k[2]}

\* No missed or interrupted minute is made up for: a run that opens an
\* occurrence (its canary batch, or a policy without waves) was launched by
\* the tick of the very minute it was scheduled for (ProcessDueWithRecovery:
\* "only the current tick is eligible to launch scheduled work").
HistoryIsNeverLaunched ==
  \A k \in RunKeys : Launched(k) =>
    \/ at[k] = k[2]
    \/ \E o \in ManifestOf(k) : \E i \in 2..Len(o.batches) : k[3] \in o.batches[i].servers

\* The rollout gate holds through edits, crashes and replays: when a member
\* of a wave was launched, every member of every earlier batch of the
\* accepted manifest has a run that succeeded (rolloutGateState).
WavesWaitForSuccess ==
  \A k \in RunKeys : Launched(k) =>
    \A o \in ManifestOf(k) : \A i \in 2..Len(o.batches) :
      k[3] \in o.batches[i].servers =>
        \A j \in 1..(i-1) : \A s \in o.batches[j].servers :
          runs[<<k[1], k[2], s>>].status = "succeeded"

\* Once a one-time occurrence is accepted, its policy accepts nothing and
\* launches nothing new, whatever it is edited into (enrichOnceConsumption,
\* AcceptOccurrence): later rows belong to manifests accepted before.
ConsumedForGood ==
  [][\A p \in Consumed :
       /\ \A key \in Keys : Accepted(p, key)' => Accepted(p, key)
       /\ \A k \in RunKeys : (k[1] = p /\ at'[k] # at[k]) =>
            \E key \in Keys : occ[p][key].origin = k[2]]_vars

\* The watermark leaves no silent gap: as long as nobody edits, the latest
\* minute at or before it that a policy was due is on record, as a manifest
\* over all matched servers or as a row of each of them, whatever crashed,
\* failed or was blocked meanwhile (latestMissedScheduledSlots).
NoSilentGap ==
  (mark.found /\ cfg.rev = 0) =>
    \A p \in Policies :
      LET policy == cfg.pol[p]
          past   == {d \in policy.due : mark.base < d /\ d <= mark.at}
          latest == Max(past)
      IN  past # {} /\ policy.on =>
            IF policy.once THEN p \in Consumed
            ELSE IF policy.waves
                 THEN /\ Accepted(p, latest)
                      /\ Members(occ[p][latest].batches) = Matched(policy, cfg.off)
                 ELSE \A s \in Matched(policy, cfg.off) : runs[<<p, latest, s>>] # NoRow

\* No occurrence is lost and no one-time occurrence is repeated, whatever crashes
\* between a dispatch and its checkpoint (ProcessDueWithRecovery).
NeitherLostNorRepeated == []NoSilentGap /\ ConsumedForGood

Horizon(o) == IF o.batches = << >> THEN o.origin ELSE o.origin + o.batches[Len(o.batches)].delay

\* Accepted occurrences are eventually closed, also those accepted last:
\* every member gets a row and every row ends, if only as a skip behind a
\* failed gate (ProcessDueSlot).
OccurrencesClose ==
  []<>(\A p \in Policies : \A key \in Keys :
         Accepted(p, key) /\ Horizon(occ[p][key]) <= MaxTime => occ[p][key].closed)

=============================================================================
