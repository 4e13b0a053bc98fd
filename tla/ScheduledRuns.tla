--------------------------- MODULE ScheduledRuns ---------------------------
(***************************************************************************)
(* Scheduled runs on one server (internal/scheduledruns/lifecycle.go): the *)
(* row of a run, its admission on the server, the job it creates, the      *)
(* worker that executes the job and the three reconcilers that project the *)
(* job on the row: the watcher, the worker on its way out and the rollout  *)
(* gate of a scheduler tick.  An operator's actions compete for the        *)
(* server; storage may fail; the process may stop, crash and restart.      *)
(*                                                                         *)
(* A step is one call on the database or one critical section of the       *)
(* server state.  Of the job only its status is kept (see JobRecords for   *)
(* the rest), of the server only what decides admissions.  Retries of      *)
(* transient errors are within a step: a failing step failed for good.     *)
(***************************************************************************)
EXTENDS RunRecords, Integers

CONSTANTS
  Runs,         \* the scheduled runs of the server
  Modes,        \* execution modes: "scan" and "mutation"
  Ends,         \* ends of a job that the instance tells apart
  MaxFaults,    \* bound on database calls that fail
  MaxOutside,   \* bound on operator actions plus reconciliations by gates
  MaxStops      \* bound on shutdowns and crashes

\* No run is called like the owners that are not runs.
ASSUME RunsAssumption ==
  /\ "none" \notin Runs /\ "operator" \notin Runs
  /\ Modes # {} /\ Modes \subseteq {"scan", "mutation"}
  /\ Ends \subseteq {"succeeded", "failed", "cancelled", "interrupted"}
  /\ MaxFaults \in Nat /\ MaxOutside \in Nat /\ MaxStops \in Nat

VARIABLES
  runs,     \* Runs -> row of update_policy_runs
  proc,     \* "up", "stopping" (contexts cancelled, workers drained), "down"
  server,   \* runtime status of the server
  jobs,     \* Runs -> status of the run's job, "none" before it exists
  lc,       \* Runs -> the call of HandleScheduledRun
  worker,   \* Runs -> the job's worker
  rec,      \* Runs -> Reconcilers -> reconciliation in progress
  op,       \* the operator's action: 0 or the generation it was admitted with
  audits,   \* observation: terminal audits per run
  faults, outside, stops

vars == <<runs, proc, server, jobs, lc, worker, rec, op, audits,
          faults, outside, stops>>

ActiveJob == {"queued", "running", "waiting_approval"}

TerminalJob == {"succeeded", "failed", "cancelled", "interrupted"}

Reconcilers == {"watch", "worker", "gate"}

\* status: "busy" is any status in progress; owner is JobID (the
\* run whose job it is); running is ActionRunning.
Server == [status  : {"idle", "busy", "needs_reconciliation"},
           running : BOOLEAN,
           gen     : Nat,
           owner   : Runs \cup {"none", "operator"}]

IdleServer == [status |-> "idle", running |-> FALSE, gen |-> 0, owner |-> "none"]

Call == [pc   : {"idle", "execute", "snapshot", "begin", "create", "undo",
                 "fail_row", "start", "fail_job", "fail_start", "skip"},
         mode : Modes,
         pre  : Server]           \* preStartStatus

NoCall == [pc |-> "idle", mode |-> CHOOSE m \in Modes : TRUE, pre |-> IdleServer]

Reconciliation ==
  [pc      : {"off", "read_job", "read_run", "transition", "reread", "accept", "fail"},
   job     : ActiveJob \cup TerminalJob \cup {"none"},
   claimed : BOOLEAN]

Off == [pc |-> "off", job |-> "none", claimed |-> FALSE]

Workers == {"none", "start", "rejected", "work", "restore", "panic_restore",
            "reconcile", "panicked"}

\* Every variable keeps its type; in particular no reconciler holds a job
\* status that the store never had.
TypeOK ==
  /\ runs \in [Runs -> Row]
  /\ proc \in {"up", "stopping", "down"}
  /\ server \in Server
  /\ jobs \in [Runs -> ActiveJob \cup TerminalJob \cup {"none"}]
  /\ lc \in [Runs -> Call]
  /\ worker \in [Runs -> Workers]
  /\ rec \in [Runs -> [Reconcilers -> Reconciliation]]
  /\ op \in Nat /\ audits \in [Runs -> Nat]
  /\ faults \in 0 .. MaxFaults /\ outside \in 0 .. MaxOutside /\ stops \in 0 .. MaxStops

Init ==
  /\ runs = [r \in Runs |-> NoRow]
  /\ proc = "up"
  /\ server = IdleServer
  /\ jobs = [r \in Runs |-> "none"]
  /\ lc = [r \in Runs |-> NoCall]
  /\ worker = [r \in Runs |-> "none"]
  /\ rec = [r \in Runs |-> [w \in Reconcilers |-> Off]]
  /\ op = 0
  /\ audits = [r \in Runs |-> 0]
  /\ faults = 0 /\ outside = 0 /\ stops = 0

-----------------------------------------------------------------------------
(* Helpers                                                                  *)

\* A database call may fail while faults remain.
Fault == faults < MaxFaults /\ faults' = faults + 1

NoFault == UNCHANGED faults

Goto(r, pc) == lc' = [lc EXCEPT ![r].pc = pc]

Done(r) == lc' = [lc EXCEPT ![r] = NoCall]

SetRow(r, status, reason, job) ==
  runs' = [runs EXCEPT ![r] = [status |-> status, reason |-> reason, job |-> job]]

\* UpdateRun of one row; on a fault the row keeps its contents.
UpdateRun(r, status, reason, job) ==
  \/ SetRow(r, status, reason, job) /\ NoFault
  \/ UNCHANGED runs /\ Fault

Busy == server.running \/ server.status = "busy"

\* beginAction: the next generation of the server, without a job yet.
Begun(owner) ==
  [status |-> "busy", running |-> FALSE, gen |-> server.gen + 1, owner |-> owner]

Admits(mutation) == ~Busy /\ (mutation => server.status # "needs_reconciliation")

\* RestoreStatusSnapshot(server, preStartStatus): a plain overwrite.
RestoreStatusSnapshot(r) == server' = lc[r].pre

-----------------------------------------------------------------------------
(* HandleScheduledRun.  The scheduler makes one call at a time.             *)

\* The request: a skip is recorded as such, otherwise the row is queued.  If
\* reading the inserted row back fails, the row stays and nothing runs it.
HandleScheduledRun(r) ==
  /\ proc = "up" /\ runs[r] = NoRow
  /\ \A q \in Runs : lc[q].pc = "idle"
  /\ \E mode \in Modes :
       \/ /\ SetRow(r, "skipped", "not_admitted", FALSE)
          /\ NoFault /\ UNCHANGED lc
       \/ /\ SetRow(r, "queued", "", FALSE)
          /\ \/ NoFault /\ lc' = [lc EXCEPT ![r] = [NoCall EXCEPT !.pc = "execute", !.mode = mode]]
             \/ Fault /\ UNCHANGED lc
  /\ UNCHANGED <<proc, server, jobs, worker, rec, op, audits, outside, stops>>

\* executeRun and executeAdmitted: a denied maintenance lease or a server that
\* is free but not ready skips the run.
ExecuteAdmitted(r) ==
  /\ lc[r].pc = "execute"
  /\ \/ Goto(r, "snapshot") \/ Goto(r, "skip")
  /\ UNCHANGED <<runs, proc, server, jobs, worker, rec, op, audits, faults, outside, stops>>

TakeSnapshot(r) ==
  /\ lc[r].pc = "snapshot"
  /\ lc' = [lc EXCEPT ![r].pc = "begin", ![r].pre = server]
  /\ UNCHANGED <<runs, proc, server, jobs, worker, rec, op, audits, faults, outside, stops>>

\* BeginPackageMutation or BeginAction; a busy, disabled or missing server
\* ends the run.
Begin(r) ==
  /\ lc[r].pc = "begin"
  /\ \/ /\ Admits(lc[r].mode = "mutation")
        /\ server' = Begun("none") /\ Goto(r, "create")
     \/ Goto(r, "skip") /\ UNCHANGED server
  /\ UNCHANGED <<runs, proc, jobs, worker, rec, op, audits, faults, outside, stops>>

\* CreateJob and, of a mutation, BindActionJob.
CreateJob(r) ==
  /\ lc[r].pc = "create"
  /\ \/ /\ jobs' = [jobs EXCEPT ![r] = "queued"]
        /\ server' = IF lc[r].mode = "mutation" THEN [server EXCEPT !.owner = r] ELSE server
        /\ NoFault /\ Goto(r, "start")
     \/ Fault /\ Goto(r, "undo") /\ UNCHANGED <<jobs, server>>
  /\ UNCHANGED <<runs, proc, worker, rec, op, audits, outside, stops>>

\* A job that could not be created: the server is given back and the row
\* fails.  (A scan fails the row first; nothing reads both.)
UndoBegin(r) ==
  /\ lc[r].pc = "undo"
  /\ RestoreStatusSnapshot(r) /\ Goto(r, "fail_row")
  /\ UNCHANGED <<runs, proc, jobs, worker, rec, op, audits, faults, outside, stops>>

FailRow(r) ==
  /\ lc[r].pc = "fail_row"
  /\ UpdateRun(r, "failed", "persistence", FALSE) /\ Done(r)
  /\ UNCHANGED <<proc, server, jobs, worker, rec, op, audits, outside, stops>>

SkipRow(r) ==
  /\ lc[r].pc = "skip"
  /\ \E status \in {"skipped", "failed"} : UpdateRun(r, status, "not_admitted", FALSE)
  /\ Done(r)
  /\ UNCHANGED <<proc, server, jobs, worker, rec, op, audits, outside, stops>>

\* The row is running; worker and watcher start.
StartRun(r) ==
  /\ lc[r].pc = "start"
  /\ \/ /\ SetRow(r, "running", "", TRUE) /\ NoFault /\ Goto(r, "idle")
        /\ worker' = [worker EXCEPT ![r] = "start"]
        /\ rec' = [rec EXCEPT ![r]["watch"] = [Off EXCEPT !.pc = "read_job"]]
     \/ Fault /\ Goto(r, "fail_job") /\ UNCHANGED <<runs, worker, rec>>
  /\ UNCHANGED <<proc, server, jobs, op, audits, outside, stops>>

\* handleRunStartPersistenceFailure: fail the job, give the server back, fail
\* the row; a step that fails does not stop the next.
FailJob(r) ==
  /\ lc[r].pc = "fail_job"
  /\ \/ jobs' = [jobs EXCEPT ![r] = "failed"] /\ NoFault
     \/ UNCHANGED jobs /\ Fault
  /\ RestoreStatusSnapshot(r) /\ Goto(r, "fail_start")
  /\ UNCHANGED <<runs, proc, worker, rec, op, audits, outside, stops>>

FailStart(r) ==
  /\ lc[r].pc = "fail_start"
  /\ UpdateRun(r, "failed", "persistence", TRUE) /\ Done(r)
  /\ UNCHANGED <<proc, server, jobs, worker, rec, op, audits, outside, stops>>

-----------------------------------------------------------------------------
(* The worker (startJobRunnerWithManager and the runner it is given).       *)

Become(r, point) == worker' = [worker EXCEPT ![r] = point]

\* reconcileCurrentJob, deferred by the worker.
BeginReconcile(r, point) ==
  /\ Become(r, point)
  /\ rec' = [rec EXCEPT ![r]["worker"] = [Off EXCEPT !.pc = "read_job"]]

\* The job starts to run; the runner of a mutation claims the server.
StartWorker(r) ==
  /\ worker[r] = "start"
  /\ \/ /\ jobs' = [jobs EXCEPT ![r] = "running"] /\ NoFault
        /\ server' = IF server.owner = r THEN [server EXCEPT !.running = TRUE] ELSE server
        /\ Become(r, "work")
     \/ /\ Fault /\ Become(r, "rejected")
        /\ jobs' \in {jobs, [jobs EXCEPT ![r] = "failed"]}
        /\ UNCHANGED server
  /\ UNCHANGED <<runs, proc, lc, rec, op, audits, outside, stops>>

\* The callback of a rejected runner.
RejectWorker(r) ==
  /\ worker[r] = "rejected"
  /\ RestoreStatusSnapshot(r) /\ BeginReconcile(r, "reconcile")
  /\ UNCHANGED <<runs, proc, jobs, lc, op, audits, faults, outside, stops>>

\* A published plan waits for its approval, and an approval resumes the job.
WaitOrResume(r) ==
  /\ worker[r] = "work" /\ lc[r].mode = "mutation"
  /\ \E pair \in {<<"running", "waiting_approval">>, <<"waiting_approval", "running">>} :
       jobs[r] = pair[1] /\ jobs' = [jobs EXCEPT ![r] = pair[2]]
  /\ UNCHANGED <<runs, proc, server, lc, worker, rec, op, audits, faults, outside, stops>>

\* The job of a mutation ends, and its end is published on the server if the
\* server is still bound to it.  A failing write leaves the job active.
EndMutation(r) ==
  /\ worker[r] = "work" /\ lc[r].mode = "mutation"
  /\ \E status \in Ends, rest \in {"idle", "needs_reconciliation"} :
       /\ rest = "idle" \/ status = "failed"
       /\ \/ jobs' = [jobs EXCEPT ![r] = status] /\ NoFault
          \/ UNCHANGED jobs /\ Fault
       /\ server' = IF server.owner = r
                    THEN [server EXCEPT !.status = rest, !.running = FALSE] ELSE server
  /\ BeginReconcile(r, "reconcile")
  /\ UNCHANGED <<runs, proc, lc, op, audits, outside, stops>>

\* Mutant: the end of a scan is published like that of a mutation.
EndScanPublished(r) ==
  /\ worker[r] = "work" /\ lc[r].mode = "scan"
  /\ jobs' = [jobs EXCEPT ![r] = "succeeded"] /\ NoFault
  /\ server' = [server EXCEPT !.status = "idle"]
  /\ Become(r, "restore")
  /\ UNCHANGED <<runs, proc, lc, rec, op, audits, outside, stops>>

\* The job of a scan ends; it was never bound to the server, so the status
\* stays busy until the snapshot is restored.
EndScan(r) ==
  /\ worker[r] = "work" /\ lc[r].mode = "scan"
  /\ \E status \in Ends \ {"cancelled"} :
       \/ jobs' = [jobs EXCEPT ![r] = status] /\ NoFault
       \/ UNCHANGED jobs /\ Fault
  /\ Become(r, "restore")
  /\ UNCHANGED <<runs, proc, server, lc, rec, op, audits, outside, stops>>

Panic(r) ==
  /\ worker[r] = "work"
  /\ Become(r, "panic_restore")
  /\ UNCHANGED <<runs, proc, server, jobs, lc, rec, op, audits, faults, outside, stops>>

\* Deferred by the runner: a scan restores the snapshot; either reconciles.
RestoreAfterWork(r) ==
  /\ worker[r] \in {"restore", "panic_restore"}
  /\ IF lc[r].mode = "scan" THEN RestoreStatusSnapshot(r)
     ELSE server' = IF server.owner = r THEN [server EXCEPT !.running = FALSE] ELSE server
  /\ BeginReconcile(r, IF worker[r] = "restore" THEN "reconcile" ELSE "panicked")
  /\ UNCHANGED <<runs, proc, jobs, lc, op, audits, faults, outside, stops>>

\* The worker returns; after a panic the outermost handler fails the job and
\* publishes that on the server the job is bound to.
WorkerExit(r) ==
  /\ rec[r]["worker"].pc = "off"
  /\ \/ worker[r] = "reconcile" /\ NoFault /\ UNCHANGED <<jobs, server>>
     \/ /\ worker[r] = "panicked"
        /\ \/ /\ jobs' = [jobs EXCEPT ![r] = "failed"] /\ NoFault
              /\ server' = IF server.owner = r THEN [server EXCEPT !.status = "idle"] ELSE server
           \/ Fault /\ UNCHANGED <<jobs, server>>
  /\ Become(r, "none") /\ Done(r)
  /\ UNCHANGED <<runs, proc, rec, op, audits, outside, stops>>

-----------------------------------------------------------------------------
(* reconcileJob, run by reconciler w on run r.                              *)

At(r, w, pc) == rec[r][w].pc = pc

Step(r, w, pc) == rec' = [rec EXCEPT ![r][w].pc = pc]

\* A reconciliation is over: the watcher polls again until it saw the job end.
Return(r, w) ==
  IF w = "watch" /\ rec[r][w].job \notin TerminalJob THEN Step(r, w, "read_job")
  ELSE rec' = [rec EXCEPT ![r][w] = Off]

\* It failed: only the watcher records that, unless it was cancelled.
ReturnError(r, w) ==
  IF w = "watch" /\ proc = "up" THEN Step(r, w, "fail")
  ELSE rec' = [rec EXCEPT ![r][w] = Off]

\* ReconcileRun, called by a rollout gate on a row whose job is not settled.
GateReconciles(r) ==
  /\ proc = "up" /\ At(r, "gate", "off")
  /\ outside < MaxOutside /\ outside' = outside + 1
  /\ runs[r].job /\ Open(runs[r])
  /\ Step(r, "gate", "read_job")
  /\ UNCHANGED <<runs, proc, server, jobs, lc, worker, op, audits, faults, stops>>

ReadJob(r, w) ==
  /\ At(r, w, "read_job")
  /\ w = "watch" => proc = "up"
  /\ \/ rec' = [rec EXCEPT ![r][w] = [pc |-> "read_run", job |-> jobs[r], claimed |-> FALSE]] /\ NoFault
     \/ ReturnError(r, w) /\ Fault
  /\ UNCHANGED <<runs, proc, server, jobs, lc, worker, op, audits, outside, stops>>

ReadRun(r, w) ==
  /\ At(r, w, "read_run")
  /\ \/ /\ IF \/ runs[r].status \in ActiveRun
              \/ RestartInterrupted(runs[r]) /\ rec[r][w].job \in TerminalJob
           THEN Step(r, w, "transition") ELSE Return(r, w)
        /\ NoFault
     \/ ReturnError(r, w) /\ Fault
  /\ UNCHANGED <<runs, proc, server, jobs, lc, worker, op, audits, outside, stops>>

Projected(job) ==
  [status |-> job, reason |-> IF job \in {"failed", "cancelled", "interrupted"} THEN "job" ELSE "",
   job |-> TRUE]

\* Mutant: the write is not conditional on the row being open.
AcceptsAnyway(row, job) == TRUE

\* The conditions of TransitionRunTerminal and TransitionRunActive.
AcceptsTransition(row, job) ==
  IF job \in TerminalJob THEN Open(row) ELSE row.status \in ActiveRun

TransitionRun(r, w) ==
  LET job == rec[r][w].job
  IN /\ At(r, w, "transition")
     /\ \/ /\ NoFault
           /\ IF AcceptsTransition(runs[r], job)
              THEN /\ runs' = [runs EXCEPT ![r] = Projected(job)]
                   /\ rec' = [rec EXCEPT ![r][w].pc = "accept", ![r][w].claimed = job \in TerminalJob]
              ELSE Step(r, w, "reread") /\ UNCHANGED runs
        \/ ReturnError(r, w) /\ Fault /\ UNCHANGED runs
     /\ UNCHANGED <<proc, server, jobs, lc, worker, op, audits, outside, stops>>

\* The transition was refused: a row that ended is left alone, another is
\* overwritten.
Reread(r, w) ==
  /\ At(r, w, "reread")
  /\ \/ /\ NoFault
        /\ IF runs[r].status \in TerminalRun THEN Return(r, w) /\ UNCHANGED runs
           ELSE Step(r, w, "accept") /\ runs' = [runs EXCEPT ![r] = Projected(rec[r][w].job)]
     \/ ReturnError(r, w) /\ Fault /\ UNCHANGED runs
  /\ UNCHANGED <<proc, server, jobs, lc, worker, op, audits, outside, stops>>

\* The row is read back: it must show the job as this reconciler read it.
Accept(r, w) ==
  /\ At(r, w, "accept")
  /\ \/ /\ runs[r].status = rec[r][w].job /\ NoFault
        /\ audits' = [audits EXCEPT ![r] = @ + (IF rec[r][w].claimed THEN 1 ELSE 0)]
        /\ Return(r, w)
     \/ /\ IF runs[r].status # rec[r][w].job THEN NoFault ELSE Fault
        /\ ReturnError(r, w) /\ UNCHANGED audits
  /\ UNCHANGED <<runs, proc, server, jobs, lc, worker, op, outside, stops>>

\* persistReconciliationFailure, through TransitionRunTerminal.
PersistReconciliationFailure(r) ==
  /\ At(r, "watch", "fail")
  /\ IF Open(runs[r]) THEN UpdateRun(r, "interrupted", "persistence", TRUE)
     ELSE UNCHANGED runs /\ NoFault
  /\ rec' = [rec EXCEPT ![r]["watch"] = Off]
  /\ UNCHANGED <<proc, server, jobs, lc, worker, op, audits, outside, stops>>

\* The watcher's context is cancelled between two polls.
WatchCancelled(r) ==
  /\ proc = "stopping" /\ At(r, "watch", "read_job")
  /\ rec' = [rec EXCEPT ![r]["watch"] = Off]
  /\ UNCHANGED <<runs, proc, server, jobs, lc, worker, op, audits, faults, outside, stops>>

-----------------------------------------------------------------------------
(* The operator's actions, and the process.                                 *)

OperatorBegins ==
  /\ proc = "up" /\ op = 0 /\ outside < MaxOutside
  /\ \E mutation \in BOOLEAN : Admits(mutation)
  /\ server' = Begun("operator") /\ op' = server.gen + 1
  /\ outside' = outside + 1
  /\ UNCHANGED <<runs, proc, jobs, lc, worker, rec, audits, faults, stops>>

OperatorEnds ==
  /\ op # 0
  /\ \E rest \in {"idle", "needs_reconciliation"} :
       server' = IF server.owner = "operator" /\ server.gen = op
                 THEN [server EXCEPT !.status = rest] ELSE server
  /\ op' = 0
  /\ UNCHANGED <<runs, proc, jobs, lc, worker, rec, audits, faults, outside, stops>>

Shutdown ==
  /\ proc = "up" /\ stops < MaxStops
  /\ proc' = "stopping" /\ stops' = stops + 1
  /\ UNCHANGED <<runs, server, jobs, lc, worker, rec, op, audits, faults, outside>>

\* The process ends: all that lived in memory is gone.
Exit ==
  /\ proc' = "down"
  /\ server' = IdleServer /\ op' = 0
  /\ lc' = [r \in Runs |-> NoCall] /\ worker' = [r \in Runs |-> "none"]
  /\ rec' = [r \in Runs |-> [w \in Reconcilers |-> Off]]
  /\ UNCHANGED <<runs, jobs, audits, faults, outside>>

Drained ==
  /\ proc = "stopping" /\ op = 0
  /\ \A r \in Runs : lc[r].pc = "idle" /\ worker[r] = "none"
  /\ Exit /\ UNCHANGED stops

Crash == proc # "down" /\ stops < MaxStops /\ stops' = stops + 1 /\ Exit

\* Mutant: only the jobs are recovered.
RestartJobsOnly ==
  /\ proc = "down" /\ proc' = "up"
  /\ jobs' = [r \in Runs |-> IF jobs[r] \in ActiveJob THEN "interrupted" ELSE jobs[r]]
  /\ NoFault
  /\ UNCHANGED <<runs, server, lc, worker, rec, op, audits, outside, stops>>

\* Jobs are recovered first; a failing MarkInterruptedRuns is only logged.
Restart ==
  /\ proc = "down" /\ proc' = "up"
  /\ \E rest \in {"interrupted", "failed"} :
       jobs' = [r \in Runs |-> IF jobs[r] \in ActiveJob THEN rest ELSE jobs[r]]
  /\ \/ runs' = [r \in Runs |-> Interrupted(runs[r])] /\ NoFault
     \/ UNCHANGED runs /\ Fault
  /\ UNCHANGED <<server, lc, worker, rec, op, audits, outside, stops>>

-----------------------------------------------------------------------------
CallStep(r) ==
  \/ ExecuteAdmitted(r) \/ TakeSnapshot(r) \/ Begin(r) \/ CreateJob(r) \/ UndoBegin(r)
  \/ FailRow(r) \/ SkipRow(r) \/ StartRun(r) \/ FailJob(r) \/ FailStart(r)

WorkerStep(r) ==
  \/ StartWorker(r) \/ RejectWorker(r) \/ EndMutation(r) \/ EndScan(r)
  \/ Panic(r) \/ RestoreAfterWork(r) \/ WorkerExit(r)

ReconcileStep(r, w) ==
  ReadJob(r, w) \/ ReadRun(r, w) \/ TransitionRun(r, w) \/ Reread(r, w) \/ Accept(r, w)

WatchStep(r) ==
  ReconcileStep(r, "watch") \/ PersistReconciliationFailure(r) \/ WatchCancelled(r)

Next ==
  \/ \E r \in Runs : \/ HandleScheduledRun(r) \/ CallStep(r) \/ WorkerStep(r)
                     \/ WaitOrResume(r) \/ GateReconciles(r) \/ WatchStep(r)
                     \/ \E w \in {"worker", "gate"} : ReconcileStep(r, w)
  \/ OperatorBegins \/ OperatorEnds
  \/ Shutdown \/ Drained \/ Crash \/ Restart

Spec == Init /\ [][Next]_vars

\* Goroutines are scheduled fairly, a worker ends (its session and its
\* approval time out) and a stopped process is started again.
FairSpec ==
  /\ Spec
  /\ \A r \in Runs : /\ WF_vars(CallStep(r)) /\ WF_vars(WorkerStep(r)) /\ WF_vars(WatchStep(r))
                     /\ WF_vars(ReconcileStep(r, "worker")) /\ WF_vars(ReconcileStep(r, "gate"))
  /\ WF_vars(OperatorEnds) /\ WF_vars(Drained) /\ WF_vars(Restart)

-----------------------------------------------------------------------------
(* Properties                                                               *)

Lifecycle == INSTANCE RunLifecycle

\* The rows implement RunLifecycle: no stale job snapshot of a racing
\* reconciler, no late failure handler and no undone start reopens a row that
\* ended, ends it twice or takes its job away.
RowsAdvance == Lifecycle!Spec

\* A row that ended because its job ended shows that job's end: racing
\* projections of older snapshots never win (reconcileJob).
EndedAsItsJob ==
  \A r \in Runs : runs[r].job /\ runs[r].status \in TerminalRun /\ runs[r].reason \in {"", "job"}
                 => jobs[r] = runs[r].status

\* The terminal audit of a run is recorded at most once, although watcher,
\* worker and gate may all see its job end, before and after a restart.
AuditedOnce == \A r \in Runs : audits[r] <= 1

\* A run ends once, as its job does (reconcileJob, auditTerminal).
EndsOnceAsItsJob == EndedAsItsJob /\ AuditedOnce

\* Giving the server back to its state before a run (RestoreStatusSnapshot is
\* a plain overwrite) never takes it from an operator's action admitted since.
AdmissionIsKept ==
  op # 0 => server.owner = "operator" /\ server.gen = op /\ server.status = "busy"

\* With a working database every accepted run ends: a lost watcher is made up
\* for by the worker or by the next start of the process.
RunsEnd ==
  \A r \in Runs : (runs[r].status \in ActiveRun) ~> (runs[r].status \in TerminalRun \/ faults > 0)

\* WatchJobContext "keeps Scheduled Run state converged with its authoritative
\* job": without storage faults no row with a job ends before the job does.
ConvergesWithJob ==
  \A r \in Runs : runs[r].job /\ runs[r].status \in TerminalRun /\ faults = 0
                 => jobs[r] \in TerminalJob

\* A server nobody works on is not in progress: a run gives back the state it
\* replaced (executeByMode, RestoreStatusSnapshot).
ServerIsGivenBack ==
  (op = 0 /\ \A r \in Runs : lc[r].pc = "idle" /\ worker[r] = "none") => ~Busy

=============================================================================
