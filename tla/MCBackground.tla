---------------------------- MODULE MCBackground ----------------------------
(***************************************************************************)
(* The background workers, for TLC: a behaviour is one of FactsRefresh and *)
(* NotificationOutbox, chosen by part at the start; the variables of the   *)
(* other stay as they begin.                                               *)
(***************************************************************************)
EXTENDS FactsRefresh

VARIABLES part, db, archive, accept, outboxGate, worker, wake, restore, test, ledger, spent

outboxVars == <<db, archive, accept, outboxGate, worker, wake, restore, test, ledger, spent>>
allVars == <<part, vars, outboxVars>>

Outbox == INSTANCE NotificationOutbox WITH
  Events <- {"e1"}, MaxAttempts <- 2, MaxFaults <- 1, MaxOutside <- 1,
  gate <- outboxGate

MCInit ==
  /\ part \in {"facts", "outbox"}
  /\ Outbox!Init /\ (part = "facts" => db.conf.url = "A")
  /\ Init /\ (part = "outbox" => ~srv.disabled /\ srv.ep = "a" /\ facts = 0)

InOutbox(A) == part = "outbox" /\ A /\ UNCHANGED <<part, vars>>
InFacts(A) == part = "facts" /\ A /\ UNCHANGED <<part, outboxVars>>

NextOutbox == InOutbox(Outbox!Next)
NextFacts == InFacts(Next)

MCNext == NextFacts \/ NextOutbox

\* The fairness of the two workers (FairSpec of their modules); a fair action of
\* one and a fair action of the other are stated as one, since only one runs.
MCFairSpec ==
  /\ MCInit /\ [][MCNext]_allVars
  /\ WF_allVars(InOutbox(Outbox!WorkerStep) \/ InFacts(Sweep))
  /\ WF_allVars(InOutbox(Outbox!Elapse) \/ InFacts(Tick))
  /\ WF_allVars(InOutbox(Outbox!RestoreStep /\ ~Outbox!BeginRestore))
  /\ WF_allVars(InOutbox(Outbox!AcceptStep))
  /\ WF_allVars(InOutbox(Outbox!CloseTimesOut))
  /\ WF_allVars(InOutbox(Outbox!Exit /\ outboxGate.closing))
  /\ WF_allVars(InOutbox(Outbox!Start))

-----------------------------------------------------------------------------
(* Properties of the other part; those of FactsRefresh are RefreshIsSafe   *)
(* and, since only a part that runs can be fair, KeepsFresh.               *)

\* NotificationOutbox: an admitted event is kept until its outcome is recorded
\* and not delivered after it, and no delivery undoes a saved setting.
OutboxIsSafe == Outbox!OutboxIsSafe

\* NotificationOutbox: every row is settled in the end, without the pruning tick.
OutboxDrains == part = "outbox" => Outbox!OutboxDrains

\* FactsRefresh: a server that stays reachable and undisturbed keeps getting
\* fresh facts.
KeepsFresh == part = "facts" => FreshInTheEnd
=============================================================================
