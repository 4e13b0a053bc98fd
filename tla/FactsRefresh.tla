---------------------------- MODULE FactsRefresh ----------------------------
(***************************************************************************)
(* The automatic host-facts refresh (internal/health/refresh_worker.go and *)
(* automatic_host_facts_refresh.go): a worker sweeps over the servers and  *)
(* collects, over SSH, the facts that are missing, incomplete or old.  An  *)
(* attempt gives way to a scheduled run being admitted (the per-server     *)
(* gate), to exclusive maintenance (the shared lease) and to whatever      *)
(* action runs on the server (BeginTransientAction); an attempt that did   *)
(* not succeed is repeated after a delay that doubles up to RetryMax.      *)
(*                                                                         *)
(* One server is modelled: a sweep treats its servers one after the other  *)
(* and shares nothing between them but the time it began at.  Times are    *)
(* kept relative (the age of the facts, the wait until the next attempt),  *)
(* so that no clock has to be bounded.                                     *)
(***************************************************************************)
EXTENDS Integers, FiniteSets, FiniteSetsExt

CONSTANTS Endpoints,      \* the addresses the server can be given
          RefreshAfter,   \* age at which complete facts are due, jitter included
          RetryBase, RetryMax

VARIABLES
  srv,     \* its row and runtime status: [exists, disabled, ep, status]; the
           \* status "facts_refresh" is "auto" or "manual" by who set it
  facts,   \* its latest facts: "none", "incomplete" or the age of complete ones
  retry,   \* RefreshWorker.retries: [ep, failures, wait], or NoRetry
  w,       \* the sweep: [pc, facts, ep, elapsed, outcome]
  gate,    \* hostFactsRefreshAdmission: "free", "worker" or "scheduled"
  maint,   \* exclusive maintenance is active
  host,    \* the connection is ready and the host gives complete facts
  seen     \* ghost: the last attempt: [quiet, failures, since]

vars == <<srv, facts, retry, w, gate, maint, host, seen>>

None == -1
Incomplete == -2
NoRetry == [ep |-> "none", failures |-> 0, wait |-> 0]
Idle == [pc |-> "idle", facts |-> None, ep |-> "none", elapsed |-> 0, outcome |-> "none"]
Unseen == [quiet |-> FALSE, failures |-> 0, since |-> 0]

Init ==
  /\ srv \in [exists : {TRUE}, disabled : BOOLEAN, ep : Endpoints, status : {"idle"}]
  /\ facts \in {None, Incomplete} \cup 0..RefreshAfter
  /\ retry = NoRetry /\ w = Idle /\ gate = "free" /\ maint = FALSE
  /\ host = TRUE /\ seen = Unseen

\* ActionRunning, or a status that counts as an action in progress.
Busy == srv.status # "idle"

(***************************************************************************)
(* The worker.  delay is recordRetry's loop: RetryBase doubled once per    *)
(* further failure, cut at RetryMax.                                       *)
(***************************************************************************)
\* FactsHealthComplete, and the age against RefreshAfter plus the jitter.
RefreshDue(f) == f \in {None, Incomplete} \/ f >= RefreshAfter

delay[n \in 1..RetryMax] ==
  IF n = 1 THEN RetryBase ELSE Min({2 * delay[n - 1], RetryMax})

\* The failures counted are cut where the delay no longer grows.
Failures(n) == Min({n + 1, RetryMax})

\* Mutant: the endpoint the attempt was made for is not recorded.
RecordRetryUnbound(state) ==
  IF state = "succeeded" THEN NoRetry
  ELSE LET n == Failures(retry.failures)
       IN [ep |-> "none", failures |-> n, wait |-> Max({0, delay[n] - w.elapsed})]

\* retry.nextAttempt counts from the time the sweep began at.
RecordRetry(state) ==
  IF state = "succeeded" THEN NoRetry
  ELSE LET n == Failures(retry.failures)
       IN [ep |-> w.ep, failures |-> n, wait |-> Max({0, delay[n] - w.elapsed})]

\* The end of an attempt in RunOnce: the retry state is recorded.
Ends(state) ==
  /\ retry' = RecordRetry(state)
  /\ w' = Idle
  /\ seen' = IF state = "succeeded" \/ ~RefreshDue(facts) \/ ~srv.exists \/ srv.ep # w.ep
             THEN Unseen
             ELSE [quiet |-> TRUE, failures |-> Failures(seen.failures), since |-> w.elapsed]

\* LatestFacts; a failed load ends the sweep and changes nothing.
SweepLoad ==
  /\ w.pc = "idle"
  /\ w' = [Idle EXCEPT !.pc = "select", !.facts = facts]
  /\ UNCHANGED <<srv, facts, retry, gate, maint, host, seen>>

\* CloneServers, pruneRetries and the loop body up to the attempt.
SweepSelect ==
  LET kept == IF retry.ep = srv.ep THEN retry ELSE NoRetry
      skips == ~srv.exists \/ srv.disabled \/ ~RefreshDue(w.facts)
      pending == kept # NoRetry /\ kept.wait > 0
  IN /\ w.pc = "select"
     /\ retry' = IF skips THEN NoRetry ELSE kept
     /\ w' = IF skips \/ pending THEN Idle
             ELSE [w EXCEPT !.pc = "gate", !.ep = srv.ep, !.elapsed = 0]
     /\ UNCHANGED <<srv, facts, gate, maint, host, seen>>

\* automaticHostFactsRefreshAttempt: never waits for the gate.
TryRefresh ==
  /\ w.pc = "gate"
  /\ \/ /\ gate = "free"
        /\ gate' = "worker" /\ w' = [w EXCEPT !.pc = "lease"]
        /\ UNCHANGED <<retry, seen>>
     \/ /\ gate # "free"
        /\ Ends("deferred") /\ UNCHANGED gate
  /\ UNCHANGED <<srv, facts, maint, host>>

\* The shared lease for scheduled work; the deferred release runs on return.
TryShared ==
  /\ w.pc = "lease"
  /\ \/ /\ ~maint
        /\ w' = [w EXCEPT !.pc = "begin"] /\ UNCHANGED <<gate, retry, seen>>
     \/ /\ maint
        /\ Ends("deferred") /\ gate' = "free"
  /\ UNCHANGED <<srv, facts, maint, host>>

\* FindByName, the readiness check and BeginTransientAction; a server that is
\* gone, disabled, not ready or busy defers the attempt.
BeginTransientAction ==
  /\ w.pc = "begin"
  /\ \/ /\ srv.exists /\ ~srv.disabled /\ ~Busy
        /\ srv' = [srv EXCEPT !.status = "auto"]
        /\ w' = [w EXCEPT !.pc = "collect"]
        /\ UNCHANGED <<gate, retry, seen>>
     \/ /\ ~srv.exists \/ srv.disabled \/ Busy \/ ~host
        /\ Ends("deferred") /\ gate' = "free" /\ UNCHANGED srv
  /\ UNCHANGED <<facts, maint, host>>

\* RefreshServerFacts: whatever was collected is stored, complete or not.
Collect ==
  /\ w.pc = "collect"
  /\ \/ /\ host
        /\ facts' = 0 /\ w' = [w EXCEPT !.pc = "finish", !.outcome = "succeeded"]
     \/ /\ ~host
        /\ facts' = Incomplete /\ w' = [w EXCEPT !.pc = "finish", !.outcome = "incomplete"]
     \/ /\ ~host
        /\ w' = [w EXCEPT !.pc = "finish", !.outcome = "failed"] /\ UNCHANGED facts
  /\ UNCHANGED <<srv, retry, gate, maint, host, seen>>

\* Mutant: the gate is released only after a success.
FinishHolding ==
  /\ w.pc = "finish"
  /\ srv' = [srv EXCEPT !.status = "idle"]
  /\ gate' = IF w.outcome = "succeeded" THEN "free" ELSE gate
  /\ Ends(w.outcome)
  /\ UNCHANGED <<facts, maint, host>>

\* The deferred RestoreStatusSnapshot, lease.Close and release, then RunOnce.
Finish ==
  /\ w.pc = "finish"
  /\ srv' = [srv EXCEPT !.status = "idle"]
  /\ gate' = "free"
  /\ Ends(w.outcome)
  /\ UNCHANGED <<facts, maint, host>>

(***************************************************************************)
(* Everyone else: the operator's commands (each refused while the server   *)
(* is busy), manual refreshes, other actions, scheduled runs, exclusive    *)
(* maintenance, the host, time and a restart.  What changes the server or  *)
(* its facts from outside makes the ghost forget the last attempt.         *)
(***************************************************************************)
Create(ep) ==
  /\ ~maint /\ ~srv.exists
  /\ srv' = [exists |-> TRUE, disabled |-> FALSE, ep |-> ep, status |-> "idle"]
  /\ seen' = Unseen
  /\ UNCHANGED <<facts, retry, w, gate, maint, host>>

\* A change of host or port drops the facts (InvalidateEndpointTx).
Edit(ep) ==
  /\ ~maint /\ srv.exists /\ ~Busy /\ srv.ep # ep
  /\ srv' = [srv EXCEPT !.ep = ep] /\ facts' = None /\ seen' = Unseen
  /\ UNCHANGED <<retry, w, gate, maint, host>>

SetDisabled ==
  /\ ~maint /\ srv.exists /\ ~Busy
  /\ srv' = [srv EXCEPT !.disabled = ~@] /\ seen' = Unseen
  /\ UNCHANGED <<facts, retry, w, gate, maint, host>>

Delete ==
  /\ ~maint /\ srv.exists /\ ~Busy
  /\ srv' = [srv EXCEPT !.exists = FALSE] /\ facts' = None /\ seen' = Unseen
  /\ UNCHANGED <<retry, w, gate, maint, host>>

\* handleServerFactsRefresh: the same transient status, without the gate.
ManualBegin ==
  /\ ~maint /\ srv.exists /\ ~srv.disabled /\ ~Busy /\ host
  /\ srv' = [srv EXCEPT !.status = "manual"]
  /\ UNCHANGED <<facts, retry, w, gate, maint, host, seen>>

ManualEnd ==
  /\ srv.status = "manual"
  /\ \/ facts' = 0 /\ seen' = Unseen
     \/ ~host /\ facts' = Incomplete /\ seen' = Unseen
     \/ ~host /\ UNCHANGED <<facts, seen>>
  /\ srv' = [srv EXCEPT !.status = "idle"]
  /\ UNCHANGED <<retry, w, gate, maint, host>>

\* Any other action (BeginAction), with the gate (a scheduled run) or without.
ActionBegin ==
  /\ ~maint /\ srv.exists /\ ~srv.disabled /\ ~Busy
  /\ srv' = [srv EXCEPT !.status = "action"]
  /\ UNCHANGED <<facts, retry, w, gate, maint, host, seen>>

ActionEnd ==
  /\ srv.status = "action"
  /\ srv' = [srv EXCEPT !.status = "idle"]
  /\ UNCHANGED <<facts, retry, w, gate, maint, host, seen>>

\* executeByMode: a scheduled run waits for the gate and holds it while it is
\* being admitted.
AcquireScheduled ==
  /\ ~maint /\ gate = "free" /\ gate' = "scheduled"
  /\ UNCHANGED <<srv, facts, retry, w, maint, host, seen>>

ReleaseScheduled ==
  /\ gate = "scheduled" /\ gate' = "free"
  /\ UNCHANGED <<srv, facts, retry, w, maint, host, seen>>

\* Exclusive maintenance is admitted when nothing holds a shared lease.
Leased == w.pc \in {"begin", "collect", "finish"} \/ gate = "scheduled" \/ Busy

Maintenance ==
  /\ maint \/ ~Leased
  /\ maint' = ~maint
  /\ UNCHANGED <<srv, facts, retry, w, gate, host, seen>>

HostChanges ==
  /\ host' = ~host
  /\ UNCHANGED <<srv, facts, retry, w, gate, maint, seen>>

Aged(f) == IF f \in {None, Incomplete} THEN f ELSE Min({f + 1, RefreshAfter})

Tick ==
  /\ facts' = Aged(facts)
  /\ retry' = [retry EXCEPT !.wait = Max({0, @ - 1})]
  /\ w' = [w EXCEPT !.facts = Aged(@), !.elapsed = IF w.pc = "idle" THEN 0 ELSE Min({@ + 1, RetryMax})]
  /\ seen' = [seen EXCEPT !.since = IF seen.quiet THEN Min({@ + 1, RetryMax}) ELSE @]
  /\ UNCHANGED <<srv, gate, maint, host>>

\* The process stops and starts again: only the rows and the facts are kept.
Restart ==
  /\ srv' = [srv EXCEPT !.status = "idle"]
  /\ retry' = NoRetry /\ w' = Idle /\ gate' = "free" /\ maint' = FALSE /\ seen' = Unseen
  /\ UNCHANGED <<facts, host>>

Sweep == SweepLoad \/ SweepSelect \/ TryRefresh \/ TryShared \/ BeginTransientAction \/ Collect \/ Finish

Others ==
  \/ \E ep \in Endpoints : Create(ep) \/ Edit(ep)
  \/ SetDisabled \/ Delete \/ ManualBegin \/ ManualEnd \/ ActionBegin \/ ActionEnd
  \/ AcquireScheduled \/ ReleaseScheduled \/ Maintenance \/ HostChanges \/ Restart

Next == Sweep \/ Others \/ Tick

Spec == Init /\ [][Next]_vars

\* The ticker calls RunOnce for ever (every step of a sweep is bounded by the
\* SSH timeouts) and time passes.
FairSpec == Spec /\ WF_vars(Sweep) /\ WF_vars(Tick)

(***************************************************************************)
(* Properties.                                                             *)
(***************************************************************************)
\* A collection has the server to itself: from BeginTransientAction to the
\* restored status nobody edits, disables, deletes or works on the server, no
\* scheduled run is being admitted, no exclusive maintenance runs, and the
\* address the facts come from stays the server's.
CollectsAlone ==
  w.pc \in {"collect", "finish"} =>
    srv.exists /\ ~srv.disabled /\ srv.status = "auto" /\ gate = "worker" /\ ~maint

\* The delay after n attempts in a row that did not succeed.
Backoff(n) == Min({RetryBase * 2^(n - 1), RetryMax})

\* A server whose n last attempts did not succeed, and which nobody touched
\* since, is left alone for RetryBase * 2^(n-1), at most RetryMax, counted from
\* the sweep of the last attempt, whatever deferred or failed it.
RetriesBackOff ==
  [][w.pc = "select" /\ w'.pc = "gate" /\ seen.quiet => seen.since >= Backoff(seen.failures)]_vars

\* The worker never intrudes on a server in use and never insists on one that
\* keeps failing (RefreshWorker.sweep, recordRetry).
RefreshIsSafe == []CollectsAlone /\ RetriesBackOff

Calm == srv.exists /\ ~srv.disabled /\ srv.status \in {"idle", "auto"} /\ gate # "scheduled" /\ ~maint /\ host

Fresh == facts >= 0 /\ facts < RefreshAfter

\* A server that stays enabled, reachable and undisturbed keeps getting fresh
\* facts: neither an old retry state, nor the one of an address or a server
\* that is gone, nor a gate left locked keeps the worker away for ever.
FreshInTheEnd == (<>[]Calm /\ <>[][~Restart]_vars) => []<>Fresh
=============================================================================
