----------------------------- MODULE RunRecords -----------------------------
(***************************************************************************)
(* Rows of update_policy_runs: one per policy, server and scheduled time.  *)
(* Summaries, results and timestamps are left out; of the job only whether *)
(* the row names one.                                                      *)
(***************************************************************************)

ActiveRun == {"queued", "running", "waiting_approval"}

TerminalRun == {"succeeded", "failed", "skipped", "cancelled", "interrupted"}

\* reason: "" of a row that needs none, "job" of a row that ended as its job
\* did, otherwise why the run ended without following a job.
Reasons == {"", "job", "restart", "persistence", "not_admitted"}

Row == [status : {"absent"} \cup ActiveRun \cup TerminalRun,
        reason : Reasons,
        job    : BOOLEAN]          \* is job_id set?

NoRow == [status |-> "absent", reason |-> "", job |-> FALSE]

RestartInterrupted(row) == row.status = "interrupted" /\ row.reason = "restart"

Open(row) == row.status \in ActiveRun \/ RestartInterrupted(row)

\* Mutant: a row a restart interrupts looks like one whose job was.
InterruptedForGood(row) ==
  IF row.status \in ActiveRun
  THEN [row EXCEPT !.status = "interrupted", !.reason = "job"] ELSE row

\* MarkInterruptedRuns, for one row.
Interrupted(row) ==
  IF row.status \in ActiveRun
  THEN [row EXCEPT !.status = "interrupted", !.reason = "restart"] ELSE row

=============================================================================
