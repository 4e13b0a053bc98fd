----------------------------- MODULE JobRecords -----------------------------
(***************************************************************************)
(* Persisted jobs of one server (internal/jobs) and their projection on    *)
(* the server's runtime status (internal/runtime).  A job is its kind, its *)
(* status, its phase, its error class and its revision; identifiers,       *)
(* summaries, logs, actors and timestamps are left out.  The jobs of a     *)
(* server are a sequence in creation order, which stands for created_at.   *)
(*                                                                         *)
(* Phases: "prepare" stands for dial, prechecks, apt_update, apply, reboot *)
(* and verify, which no code tells apart; "mutation" stands for the phase  *)
(* in which a kind changes packages: apt_upgrade of an update, autoremove  *)
(* of an autoremove, reconcile of an apt_repair.  Error classes other than *)
(* reconciliation_required are one class.  The two sudoers kinds are one.  *)
(***************************************************************************)
EXTENDS Integers, Sequences

PackageKinds == {"update", "autoremove", "apt_repair"}

JobKinds == PackageKinds \cup {"reboot", "sudoers"}

ActiveStatuses == {"queued", "running", "waiting_approval"}

TerminalStatuses == {"succeeded", "failed", "cancelled", "interrupted"}

Phases ==
  {"", "prepare", "approval_wait", "mutation", "postchecks", "complete"}

ErrorClasses == {"", "reconciliation_required", "other"}

Job == [kind   : JobKinds,
        status : ActiveStatuses \cup TerminalStatuses,
        phase  : Phases,
        class  : ErrorClasses,
        rev    : Nat]

QueuedJob(kind) ==
  [kind |-> kind, status |-> "queued", phase |-> "", class |-> "", rev |-> 0]

IsActive(job) == job.status \in ActiveStatuses

IsTerminal(job) == job.status \in TerminalStatuses

-----------------------------------------------------------------------------
(* Transitions.  An intent names the status, phase and class to install;    *)
(* "keep" is an unset field of the intent.                                  *)

Keep == "keep"

Intent == [status : ActiveStatuses \cup TerminalStatuses \cup {Keep},
           phase  : Phases \cup {Keep},
           class  : ErrorClasses \cup {Keep}]

Intend(status, phase, class) ==
  [status |-> status, phase |-> phase, class |-> class]

Or(value, current) == IF value = Keep THEN current ELSE value

ValidTransition(from, to) ==
  \/ from = to
  \/ from \in {"queued", "waiting_approval"} /\ to = "running"
  \/ from = "running" /\ to = "waiting_approval"
  \/ from \in ActiveStatuses /\ to \in TerminalStatuses

\* The record applyIntent computes from an active job; the revision counts
\* the writes.
ApplyIntent(job, intent) ==
  LET target == Or(intent.status, job.status)
  IN [job EXCEPT
        !.status = target,
        !.phase  = CASE target = "waiting_approval"   -> "approval_wait"
                     [] target \in TerminalStatuses   -> "complete"
                     [] OTHER                         -> Or(intent.phase, job.phase),
        !.class  = Or(intent.class, job.class),
        !.rev    = job.rev + 1]

-----------------------------------------------------------------------------
(* Restart recovery.                                                        *)

\* Also the mutant of InterruptedByRestart.
InterruptedAsUsual(job) ==
  IF IsActive(job) THEN ApplyIntent(job, Intend("interrupted", Keep, "other"))
                   ELSE job

\* The two UPDATE statements of MarkUnfinishedInterrupted, in one transaction.
InterruptedByRestart(job) ==
  IF job.status = "running" /\ job.phase = "mutation" /\ job.kind \in PackageKinds
  THEN ApplyIntent(job, Intend("failed", Keep, "reconciliation_required"))
  ELSE InterruptedAsUsual(job)

MarkUnfinishedInterrupted(jobs) ==
  [id \in DOMAIN jobs |-> InterruptedByRestart(jobs[id])]

NeedsRepair(job) ==
  /\ job.kind \in PackageKinds
  /\ job.status = "failed"
  /\ job.class = "reconciliation_required"

\* The jobs whose unknown outcome no later package job settled: none later
\* succeeded, and none later is itself of unknown outcome.
ReconciliationRequired(jobs) ==
  {id \in DOMAIN jobs :
     /\ NeedsRepair(jobs[id])
     /\ \A later \in id + 1 .. Len(jobs) :
          /\ ~ (jobs[later].kind \in PackageKinds /\ jobs[later].status = "succeeded")
          /\ ~ NeedsRepair(jobs[later])}

-----------------------------------------------------------------------------
(* Runtime status of a server and its relation to the server's job.         *)

ProgressStatuses ==
  {"updating", "pending_approval", "approved", "upgrading",
   "autoremove", "repairing", "rebooting", "sudoers"}

RestStatuses == {"idle", "done", "error", "cancelled", "needs_reconciliation"}

StartedStatus(kind) ==
  CASE kind = "update"     -> "updating"
    [] kind = "autoremove" -> "autoremove"
    [] kind = "apt_repair" -> "repairing"
    [] kind = "reboot"     -> "rebooting"
    [] kind = "sudoers"    -> "sudoers"

RuntimeStatusFromJob(job) ==
  CASE job.status = "waiting_approval" -> "pending_approval"
    [] job.status = "succeeded"        -> "done"
    [] job.status = "failed"           ->
         IF job.class = "reconciliation_required" THEN "needs_reconciliation"
                                                  ELSE "error"
    [] job.status = "cancelled"        -> "cancelled"
    [] job.status = "interrupted"      -> "idle"
    [] job.kind = "update" /\ job.phase = "approval_wait" -> "pending_approval"
    [] job.kind = "update" /\ job.phase \in {"mutation", "postchecks", "complete"} ->
         "upgrading"
    [] OTHER -> StartedStatus(job.kind)

\* What a runner asks of its job after it published a status other than
\* pending_approval; phase is the runner's current phase.
IntentFromStatus(status, phase) ==
  CASE status = "done"                 -> Intend("succeeded", "complete", Keep)
    [] status = "error"                -> Intend("failed", "complete", "other")
    [] status = "needs_reconciliation" ->
         Intend("failed", "complete", "reconciliation_required")
    [] status = "cancelled"            -> Intend("cancelled", "complete", Keep)
    [] status = "approved"             -> Intend("running", "mutation", Keep)
    [] OTHER -> Intend("running", IF phase = "" THEN Keep ELSE phase, Keep)

=============================================================================
