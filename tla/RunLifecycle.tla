---------------------------- MODULE RunLifecycle ----------------------------
(***************************************************************************)
(* What the rows of update_policy_runs promise, whoever writes them: a row *)
(* is created queued or skipped, moves between its active statuses, ends   *)
(* once and keeps its job.  A restart ends the active rows as interrupted; *)
(* only such a row may still be corrected, once, to the end its job had.   *)
(***************************************************************************)
EXTENDS RunRecords

CONSTANT Runs      \* (policy, server, scheduled time) triples

VARIABLE runs      \* Runs -> Row

Init == runs = [r \in Runs |-> NoRow]

Create(r) ==
  /\ runs[r] = NoRow
  /\ \E row \in Row : /\ row.status \in {"queued", "skipped"}
                      /\ ~row.job
                      /\ runs' = [runs EXCEPT ![r] = row]

Progress(r) ==
  /\ runs[r].status \in ActiveRun
  /\ \E row \in Row : /\ row.status \in ActiveRun
                      /\ runs[r].job => row.job
                      /\ runs' = [runs EXCEPT ![r] = row]

End(r) ==
  /\ Open(runs[r])
  /\ \E row \in Row : /\ row.status \in TerminalRun
                      /\ row.reason # "restart"
                      /\ runs[r].job => row.job
                      /\ runs' = [runs EXCEPT ![r] = row]

Restart == runs' = [r \in Runs |-> Interrupted(runs[r])]

Next == Restart \/ \E r \in Runs : Create(r) \/ Progress(r) \/ End(r)

Spec == Init /\ [][Next]_runs

=============================================================================
