------------------------ MODULE ScheduledRuns_proofs ------------------------
(***************************************************************************)
(* Proofs about ScheduledRuns, for any number of runs, faults, operator's  *)
(* actions, reconciliations, shutdowns and crashes: a row ends once and as *)
(* its job did, its end is audited at most once, an operator's admission   *)
(* is never overwritten, and the rows implement RunLifecycle.              *)
(***************************************************************************)
EXTENDS ScheduledRuns, TLAPS

-----------------------------------------------------------------------------
(* The inductive invariant                                                  *)

\* Before a job exists, and before the row names it.
Jobless == {"execute", "snapshot", "begin", "create", "undo", "fail_row", "skip"}

\* While the scheduler's call runs, the row is its own: queued and without a
\* job, so that no reconciler looks at it.  A worker whose job may still be
\* written runs a job that is active.
RunInv(r) ==
  /\ runs[r].status = "absent" => ~runs[r].job
  /\ lc[r].pc # "idle" => runs[r].status = "queued" /\ ~runs[r].job
  /\ lc[r].pc \in Jobless \/ runs[r] = NoRow => jobs[r] = "none"
  /\ lc[r].pc \in {"start", "fail_job"} => jobs[r] \in ActiveJob
  /\ lc[r].pc = "fail_start" \/ runs[r].job => jobs[r] # "none"
  /\ ~runs[r].job => worker[r] = "none" /\ \A w \in Reconcilers : rec[r][w] = Off
  /\ worker[r] \in {"start", "work", "panic_restore", "panicked"} => jobs[r] \in ActiveJob

\* A row that ended as its job did shows the job's end (EndedAsItsJob), and a
\* reconciler that read the end of a job read its only end.
ReadInv(r) ==
  /\ runs[r].job /\ runs[r].status \in TerminalRun /\ runs[r].reason \in {"", "job"}
       => jobs[r] = runs[r].status
  /\ \A w \in Reconcilers :
       /\ rec[r][w].job \in TerminalJob => jobs[r] = rec[r][w].job
       /\ rec[r][w].pc \in {"read_run", "transition", "reread", "accept"} => rec[r][w].job # "none"
       /\ rec[r][w].pc = "reread" => runs[r].status \in TerminalRun

Closed(row) == row.status \in TerminalRun /\ ~RestartInterrupted(row)

\* Reconciler w ended the row and is about to audit that.
Claims(r, w) == rec[r][w].pc = "accept" /\ rec[r][w].claimed

\* One reconciler at most claims the end of a row, and none after the audit.
AuditInv(r) ==
  /\ audits[r] \in {0, 1}
  /\ audits[r] # 0 => Closed(runs[r])
  /\ \A w \in Reconcilers : Claims(r, w) =>
       Closed(runs[r]) /\ audits[r] = 0 /\ \A v \in Reconcilers : Claims(r, v) => v = w

\* The run has the server: admitted and not yet given back.  These are the
\* points from which its snapshot may be restored.
Holds(r) ==
  \/ lc[r].pc \in {"create", "undo", "start", "fail_job"}
  \/ worker[r] \in {"start", "rejected", "work", "restore", "panic_restore"}
  \/ worker[r] = "panicked" /\ lc[r].mode = "mutation"

\* The owner recorded with the server while r has it: a scan is never bound.
OwnerFor(r) == IF lc[r].mode = "mutation" /\ lc[r].pc \notin {"create", "undo"} THEN r ELSE "none"

\* Whoever has the server has it alone.
HoldInv ==
  \A r \in Runs : Holds(r) =>
    /\ op = 0 /\ server.status = "busy" /\ server.owner = OwnerFor(r)
    /\ \A q \in Runs : Holds(q) => q = r

\* A process that is down has nothing in memory.
DownInv ==
  proc = "down" =>
    /\ op = 0
    /\ \A r \in Runs : /\ lc[r].pc = "idle" /\ worker[r] = "none"
                       /\ \A w \in Reconcilers : rec[r][w].pc = "off"

RowsInv == \A r \in Runs : RunInv(r) /\ ReadInv(r) /\ AuditInv(r)

IInv == TypeOK /\ RowsInv /\ HoldInv /\ DownInv /\ AdmissionIsKept

-----------------------------------------------------------------------------
(* What a step leaves alone                                                 *)

\* Nothing of run q changes.
Same(q) ==
  /\ runs'[q] = runs[q] /\ jobs'[q] = jobs[q] /\ lc'[q] = lc[q]
  /\ worker'[q] = worker[q] /\ rec'[q] = rec[q] /\ audits'[q] = audits[q]

\* How a step of run r may treat the server: take it when it is free, give it
\* back, keep it, or not have it at all; then it writes at most a server that is
\* still bound to the run.
ServerStep(r) ==
  \/ ~Busy /\ Holds(r)' /\ server'.status = "busy" /\ server'.owner = OwnerFor(r)'
  \/ Holds(r) /\ ~Holds(r)'
  \/ Holds(r) /\ Holds(r)' /\ server'.status = "busy" /\ server'.owner = OwnerFor(r)'
  \/ ~Holds(r) /\ ~Holds(r)' /\ (server' = server \/ server.owner = r)

\* A step of one run keeps the invariant if it keeps that run's part of it.
LEMMA StepIInv ==
  ASSUME IInv, NEW r \in Runs, TypeOK', proc' # "down", op' = op,
         \A q \in Runs : q # r => Same(q),
         RunInv(r)', ReadInv(r)', AuditInv(r)', ServerStep(r)
  PROVE  IInv'
  <1>1. RowsInv'
    <2>1. ASSUME NEW q \in Runs, q # r PROVE RunInv(q)' /\ ReadInv(q)' /\ AuditInv(q)'
      <3>1. RunInv(q) /\ ReadInv(q) /\ AuditInv(q) /\ Same(q)
        BY <2>1, Zenon DEF IInv, RowsInv
      <3>2. RunInv(q)'
        BY <3>1, Zenon DEF RunInv, Same
      <3>3. ReadInv(q)'
        BY <3>1, ZenonT(40) DEF ReadInv, Same
      <3>4. AuditInv(q)'
        BY <3>1 DEF AuditInv, Claims, Same
      <3> QED BY <3>2, <3>3, <3>4, Zenon
    <2> QED BY <2>1, Zenon DEF RowsInv
  <1>2. DownInv'
    BY Zenon DEF DownInv
  <1>3. HoldInv /\ AdmissionIsKept
    BY Zenon DEF IInv
  <1>4. \A q \in Runs : q # r => (Holds(q)' <=> Holds(q)) /\ OwnerFor(q)' = OwnerFor(q)
    BY Zenon DEF Holds, OwnerFor, Same
  <1>5. CASE Holds(r) /\ ~Holds(r)'
    <2>1. op = 0 /\ \A q \in Runs : ~Holds(q)'
      BY <1>3, <1>4, <1>5, Zenon DEF HoldInv
    <2> QED BY <1>1, <1>2, <2>1, Zenon DEF IInv, HoldInv, AdmissionIsKept
  <1>6. CASE Holds(r) /\ Holds(r)' /\ server'.status = "busy" /\ server'.owner = OwnerFor(r)'
    <2>1. op = 0 /\ \A q \in Runs : Holds(q)' => q = r
      BY <1>3, <1>4, <1>6, Zenon DEF HoldInv
    <2>2. HoldInv'
      BY <1>6, <2>1, Zenon DEF HoldInv
    <2> QED BY <1>1, <1>2, <2>1, <2>2, Zenon DEF IInv, AdmissionIsKept
  <1>7. CASE ~Holds(r) /\ ~Holds(r)' /\ (server' = server \/ server.owner = r)
    <2>1. CASE server' = server
      <3>1. HoldInv'
        BY <1>3, <1>4, <1>7, <2>1, Zenon DEF HoldInv
      <3> QED BY <1>1, <1>2, <1>3, <2>1, <3>1, Zenon DEF IInv, AdmissionIsKept
    <2>2. CASE server.owner = r
      <3>1. op = 0
        BY <1>3, <2>2, RunsAssumption, Zenon DEF AdmissionIsKept
      <3>2. ASSUME NEW q \in Runs, Holds(q) PROVE FALSE
        <4>1. server.owner = OwnerFor(q) /\ q # r
          BY <1>3, <1>7, <3>2, Zenon DEF HoldInv
        <4> QED BY <2>2, <4>1, RunsAssumption, Zenon DEF OwnerFor
      <3>3. \A q \in Runs : ~Holds(q)'
        BY <1>4, <1>7, <3>2, Zenon
      <3> QED BY <1>1, <1>2, <3>1, <3>3, Zenon DEF IInv, HoldInv, AdmissionIsKept
    <2> QED BY <1>7, <2>1, <2>2, Zenon
  <1>8. CASE ~Busy /\ Holds(r)' /\ server'.status = "busy" /\ server'.owner = OwnerFor(r)'
    <2>1. op = 0 /\ \A q \in Runs : ~Holds(q)
      BY <1>3, <1>8, Zenon DEF HoldInv, AdmissionIsKept, Busy
    <2>2. HoldInv'
      BY <1>4, <1>8, <2>1, Zenon DEF HoldInv
    <2> QED BY <1>1, <1>2, <2>1, <2>2, Zenon DEF IInv, AdmissionIsKept
  <1> QED BY <1>5, <1>6, <1>7, <1>8, Zenon DEF ServerStep

\* What is in memory is in a process that is not down.
LEMMA InMemory ==
  ASSUME IInv, NEW r \in Runs,
         \/ lc[r].pc # "idle" \/ worker[r] # "none" \/ \E w \in Reconcilers : rec[r][w].pc # "off"
  PROVE  proc # "down"
  BY Zenon DEF IInv, DownInv

\* The rows' part of the invariant is about these variables only.
LEMMA RowsKept ==
  ASSUME RowsInv, UNCHANGED <<runs, jobs, lc, worker, rec, audits>>
  PROVE  RowsInv'
  <1> SUFFICES ASSUME NEW r \in Runs PROVE RunInv(r)' /\ ReadInv(r)' /\ AuditInv(r)'
    BY Zenon DEF RowsInv
  <1>1. RunInv(r) /\ ReadInv(r) /\ AuditInv(r)
    BY Zenon DEF RowsInv
  <1>2. RunInv(r)'
    BY <1>1, Zenon DEF RunInv
  <1>3. ReadInv(r)'
    BY <1>1, Zenon DEF ReadInv
  <1>4. AuditInv(r)'
    BY <1>1, Zenon DEF AuditInv, Claims
  <1> QED BY <1>2, <1>3, <1>4, Zenon

LEMMA OffFacts == Off \in Reconciliation /\ Off.pc = "off" /\ Off.job = "none" /\ ~Off.claimed
  BY Zenon DEF Off, Reconciliation

\* Nobody reconciles run r, and no reconciler of it has read anything.
LEMMA Unobserved ==
  ASSUME NEW r \in Runs, \A w \in Reconcilers : rec'[r][w] = Off, audits'[r] = 0,
         ~(runs'[r].job /\ runs'[r].status \in TerminalRun /\ runs'[r].reason \in {"", "job"})
  PROVE  ReadInv(r)' /\ AuditInv(r)'
  <1>1. \A w \in Reconcilers : rec'[r][w].pc = "off" /\ rec'[r][w].job = "none"
    BY OffFacts, Zenon
  <1>2. ReadInv(r)'
    BY <1>1, Zenon DEF ReadInv, TerminalJob
  <1>3. \A w \in Reconcilers : ~Claims(r, w)'
    BY <1>1, Zenon DEF Claims
  <1>4. AuditInv(r)'
    BY <1>3, Zenon DEF AuditInv
  <1> QED BY <1>2, <1>4, Zenon

-----------------------------------------------------------------------------
(* The scheduler's call                                                     *)

\* What a step of the call of run r finds.
LEMMA Calling ==
  ASSUME IInv, NEW r \in Runs, lc[r].pc # "idle"
  PROVE  /\ proc # "down" /\ runs[r].status = "queued" /\ ~runs[r].job /\ runs[r] # NoRow
         /\ worker[r] = "none" /\ \A w \in Reconcilers : rec[r][w] = Off
         /\ RunInv(r) /\ ReadInv(r) /\ AuditInv(r)
         /\ audits[r] = 0 /\ lc[r] \in Call /\ lc \in [Runs -> Call]
  <1>1. RunInv(r) /\ ReadInv(r) /\ AuditInv(r) /\ TypeOK
    BY Zenon DEF IInv, RowsInv
  <1>2. /\ runs[r].status = "queued" /\ ~runs[r].job
        /\ worker[r] = "none" /\ \A w \in Reconcilers : rec[r][w] = Off
    BY <1>1, Zenon DEF RunInv
  <1>3. proc # "down"
    BY InMemory, Zenon
  <1>4. audits[r] = 0
    BY <1>1, <1>2, Zenon DEF AuditInv, Closed, TerminalRun
  <1>5. runs[r] # NoRow
    <2>1. NoRow.status = "absent"
      BY Zenon DEF NoRow
    <2>2. runs[r].status # "absent"
      BY <1>2, Zenon
    <2> QED BY <2>1, <2>2, Zenon
  <1> QED BY <1>1, <1>2, <1>3, <1>4, <1>5, Zenon DEF TypeOK

\* A step of the call that leaves row and job alone.
LEMMA CallMoves ==
  ASSUME IInv, NEW r \in Runs, lc[r].pc # "idle", NEW call \in Call,
         lc' = [lc EXCEPT ![r] = call],
         lc[r].pc \in Jobless => call.pc \in Jobless, call.pc # "idle",
         call.pc \in {"start", "fail_job"} => lc[r].pc \in {"start", "fail_job"},
         call.pc = "fail_start" => lc[r].pc \in {"start", "fail_job"},
         call.pc \in Jobless => lc[r].pc \in Jobless,
         server' \in Server, faults' \in 0 .. MaxFaults, ServerStep(r),
         UNCHANGED <<runs, proc, jobs, worker, rec, op, audits, outside, stops>>
  PROVE  IInv'
  <1>1. /\ proc # "down" /\ runs[r].status = "queued" /\ ~runs[r].job /\ runs[r] # NoRow
        /\ worker[r] = "none" /\ \A w \in Reconcilers : rec[r][w] = Off
        /\ RunInv(r) /\ ReadInv(r) /\ AuditInv(r)
        /\ lc[r] \in Call /\ lc \in [Runs -> Call]
    BY Calling, Zenon
  <1>2. lc'[r] = call /\ lc' \in [Runs -> Call] /\ \A q \in Runs : q # r => Same(q)
    BY <1>1, Zenon DEF Same
  <1>3. TypeOK'
    BY <1>2, Zenon DEF IInv, TypeOK
  <1>4. RunInv(r)'
    BY <1>1, <1>2, Zenon DEF RunInv, ActiveJob
  <1>5. ReadInv(r)' /\ AuditInv(r)'
    BY <1>1, Zenon DEF ReadInv, AuditInv, Claims
  <1> QED BY <1>1, <1>2, <1>3, <1>4, <1>5, StepIInv, Zenon

LEMMA ExecuteAdmittedIInv ==
  ASSUME IInv, NEW r \in Runs, ExecuteAdmitted(r)
  PROVE  IInv'
  <1>1. PICK pc \in {"snapshot", "skip"} : lc' = [lc EXCEPT ![r] = [lc[r] EXCEPT !.pc = pc]]
    BY Zenon DEF ExecuteAdmitted, Goto
  <1>2. /\ lc[r].pc = "execute" /\ lc \in [Runs -> Call] /\ worker[r] = "none"
    BY Calling, Zenon DEF ExecuteAdmitted
  <1>3. [lc[r] EXCEPT !.pc = pc] \in Call /\ [lc[r] EXCEPT !.pc = pc].pc = pc
    BY <1>2, Zenon DEF Call
  <1>4. lc'[r] = [lc[r] EXCEPT !.pc = pc]
    BY <1>1, <1>2, Zenon
  <1>5. ServerStep(r)
    BY <1>2, <1>3, <1>4, Zenon DEF ServerStep, Holds, ExecuteAdmitted
  <1>6. server' \in Server /\ faults' \in 0 .. MaxFaults
    BY Zenon DEF ExecuteAdmitted, IInv, TypeOK
  <1> QED BY <1>1, <1>2, <1>3, <1>5, <1>6, CallMoves, Zenon DEF ExecuteAdmitted, Jobless

LEMMA TakeSnapshotIInv ==
  ASSUME IInv, NEW r \in Runs, TakeSnapshot(r)
  PROVE  IInv'
  <1> DEFINE call == [lc[r] EXCEPT !.pc = "begin", !.pre = server]
  <1>1. /\ lc[r].pc = "snapshot" /\ lc[r] \in Call /\ lc \in [Runs -> Call] /\ worker[r] = "none"
    BY Calling, Zenon DEF TakeSnapshot
  <1>2. server \in Server /\ faults \in 0 .. MaxFaults
    BY Zenon DEF IInv, TypeOK
  <1>3. call \in Call /\ call.pc = "begin"
    BY <1>1, <1>2, Zenon DEF Call
  <1>4. lc' = [lc EXCEPT ![r] = call] /\ lc'[r] = call
    BY <1>1, Zenon DEF TakeSnapshot
  <1>5. ServerStep(r)
    BY <1>1, <1>3, <1>4, Zenon DEF ServerStep, Holds, TakeSnapshot
  <1> HIDE DEF call
  <1> QED BY <1>1, <1>2, <1>3, <1>4, <1>5, CallMoves, Zenon DEF TakeSnapshot, Jobless

LEMMA BeginIInv ==
  ASSUME IInv, NEW r \in Runs, Begin(r)
  PROVE  IInv'
  <1>1. /\ lc[r].pc = "begin" /\ lc[r] \in Call /\ lc \in [Runs -> Call] /\ worker[r] = "none"
    BY Calling, Zenon DEF Begin
  <1>2. server \in Server /\ faults \in 0 .. MaxFaults
    BY Zenon DEF IInv, TypeOK
  <1>3. CASE Admits(lc[r].mode = "mutation") /\ server' = Begun("none") /\ Goto(r, "create")
    <2> DEFINE call == [lc[r] EXCEPT !.pc = "create"]
    <2>1. call \in Call /\ call.pc = "create"
      BY <1>1, Zenon DEF Call
    <2>2. lc' = [lc EXCEPT ![r] = call] /\ lc'[r] = call
      BY <1>1, <1>3, Zenon DEF Goto
    <2>3. server' \in Server /\ server'.status = "busy" /\ server'.owner = "none"
      BY <1>2, <1>3 DEF Begun, Server
    <2>4. ServerStep(r)
      BY <1>3, <2>1, <2>2, <2>3, Zenon DEF ServerStep, Holds, OwnerFor, Admits
    <2> HIDE DEF call
    <2> QED BY <1>1, <1>2, <2>1, <2>2, <2>3, <2>4, CallMoves, Zenon DEF Begin, Jobless
  <1>4. CASE Goto(r, "skip") /\ UNCHANGED server
    <2> DEFINE call == [lc[r] EXCEPT !.pc = "skip"]
    <2>1. call \in Call /\ call.pc = "skip"
      BY <1>1, Zenon DEF Call
    <2>2. lc' = [lc EXCEPT ![r] = call] /\ lc'[r] = call
      BY <1>1, <1>4, Zenon DEF Goto
    <2>3. ServerStep(r)
      BY <1>1, <1>4, <2>1, <2>2, Zenon DEF ServerStep, Holds, Begin
    <2> HIDE DEF call
    <2> QED BY <1>1, <1>2, <1>4, <2>1, <2>2, <2>3, CallMoves, Zenon DEF Begin, Jobless
  <1> QED BY <1>3, <1>4, Zenon DEF Begin

LEMMA CreateJobIInv ==
  ASSUME IInv, NEW r \in Runs, CreateJob(r)
  PROVE  IInv'
  <1>1. /\ lc[r].pc = "create" /\ lc[r] \in Call /\ lc \in [Runs -> Call] /\ worker[r] = "none"
        /\ proc # "down" /\ runs[r].status = "queued" /\ ~runs[r].job /\ runs[r] # NoRow
        /\ \A w \in Reconcilers : rec[r][w] = Off
        /\ RunInv(r) /\ ReadInv(r) /\ AuditInv(r) /\ audits[r] = 0
    BY Calling, Zenon DEF CreateJob
  <1>2. /\ server \in Server /\ faults \in 0 .. MaxFaults
        /\ jobs \in [Runs -> ActiveJob \cup TerminalJob \cup {"none"}]
    BY Zenon DEF IInv, TypeOK
  <1>3. Holds(r) /\ server.status = "busy" /\ server.owner = "none"
    BY <1>1, Zenon DEF IInv, HoldInv, Holds, OwnerFor
  <1>4. CASE /\ jobs' = [jobs EXCEPT ![r] = "queued"]
             /\ server' = IF lc[r].mode = "mutation" THEN [server EXCEPT !.owner = r] ELSE server
             /\ NoFault /\ Goto(r, "start")
    <2> DEFINE call == [lc[r] EXCEPT !.pc = "start"]
    <2>1. call \in Call /\ call.pc = "start" /\ call.mode = lc[r].mode
      BY <1>1, Zenon DEF Call
    <2>2. lc' = [lc EXCEPT ![r] = call] /\ lc'[r] = call /\ lc' \in [Runs -> Call]
      BY <1>1, <1>4, <2>1, Zenon DEF Goto
    <2>3. /\ jobs'[r] = "queued" /\ jobs' \in [Runs -> ActiveJob \cup TerminalJob \cup {"none"}]
          /\ \A q \in Runs : q # r => jobs'[q] = jobs[q]
      BY <1>2, <1>4, Zenon DEF ActiveJob
    <2>4. /\ server' \in Server /\ server'.status = "busy"
          /\ server'.owner = IF lc[r].mode = "mutation" THEN r ELSE "none"
      BY <1>2, <1>3, <1>4, Zenon DEF Server
    <2> HIDE DEF call
    <2>5. ServerStep(r)
      BY <1>3, <2>1, <2>2, <2>4, Zenon DEF ServerStep, Holds, OwnerFor
    <2>6. \A q \in Runs : q # r => Same(q)
      BY <1>1, <2>2, <2>3, Zenon DEF CreateJob, Same
    <2>7. TypeOK'
      BY <1>4, <2>2, <2>3, <2>4, Zenon DEF IInv, TypeOK, CreateJob, NoFault
    <2>8. RunInv(r)'
      BY <1>1, <2>1, <2>2, <2>3, Zenon DEF RunInv, CreateJob, Jobless, ActiveJob
    <2>9. ReadInv(r)' /\ AuditInv(r)'
      BY <1>1, Unobserved, Zenon DEF CreateJob
    <2> QED BY <1>1, <2>5, <2>6, <2>7, <2>8, <2>9, StepIInv, Zenon DEF CreateJob
  <1>5. CASE Fault /\ Goto(r, "undo") /\ UNCHANGED <<jobs, server>>
    <2> DEFINE call == [lc[r] EXCEPT !.pc = "undo"]
    <2>1. call \in Call /\ call.pc = "undo"
      BY <1>1, Zenon DEF Call
    <2>2. lc' = [lc EXCEPT ![r] = call] /\ lc'[r] = call
      BY <1>1, <1>5, Zenon DEF Goto
    <2>3. ServerStep(r)
      BY <1>3, <1>5, <2>1, <2>2, Zenon DEF ServerStep, Holds, OwnerFor
    <2>4. faults' \in 0 .. MaxFaults
      BY <1>2, <1>5, RunsAssumption DEF Fault
    <2> HIDE DEF call
    <2> QED BY <1>1, <1>2, <1>5, <2>1, <2>2, <2>3, <2>4, CallMoves, Zenon DEF CreateJob, Jobless
  <1> QED BY <1>4, <1>5, Zenon DEF CreateJob

\* The snapshot is restored, and the run no longer has the server.
LEMMA UndoBeginIInv ==
  ASSUME IInv, NEW r \in Runs, UndoBegin(r)
  PROVE  IInv'
  <1> DEFINE call == [lc[r] EXCEPT !.pc = "fail_row"]
  <1>1. /\ lc[r].pc = "undo" /\ lc[r] \in Call /\ lc \in [Runs -> Call] /\ worker[r] = "none"
    BY Calling, Zenon DEF UndoBegin
  <1>2. call \in Call /\ call.pc = "fail_row"
    BY <1>1, Zenon DEF Call
  <1>3. lc' = [lc EXCEPT ![r] = call] /\ lc'[r] = call
    BY <1>1, Zenon DEF UndoBegin, Goto
  <1>4. server' \in Server /\ faults' \in 0 .. MaxFaults
    BY <1>1, Zenon DEF UndoBegin, RestoreStatusSnapshot, Call, IInv, TypeOK
  <1>5. ServerStep(r)
    BY <1>1, <1>2, <1>3, Zenon DEF ServerStep, Holds, UndoBegin
  <1> HIDE DEF call
  <1> QED BY <1>1, <1>2, <1>3, <1>4, <1>5, CallMoves, Zenon DEF UndoBegin, Jobless

\* The call is over and its row either keeps its contents or ends, without a job
\* or, after a failed start, with the job that was created for it.
LEMMA CallEnds ==
  ASSUME IInv, NEW r \in Runs, lc[r].pc \in {"fail_row", "skip", "fail_start"}, Done(r),
         NEW row \in Row, runs' = [runs EXCEPT ![r] = row],
         \/ row = runs[r]
         \/ /\ row.status \in {"skipped", "failed"} /\ row.reason \in {"persistence", "not_admitted"}
            /\ row.job => lc[r].pc = "fail_start",
         faults' \in 0 .. MaxFaults,
         UNCHANGED <<proc, server, jobs, worker, rec, op, audits, outside, stops>>
  PROVE  IInv'
  <1>1. /\ lc[r] \in Call /\ lc \in [Runs -> Call] /\ worker[r] = "none"
        /\ proc # "down" /\ runs[r].status = "queued" /\ ~runs[r].job /\ runs[r] # NoRow
        /\ \A w \in Reconcilers : rec[r][w] = Off
        /\ RunInv(r) /\ ReadInv(r) /\ AuditInv(r) /\ audits[r] = 0
    BY Calling, Zenon
  <1>2. NoCall \in Call /\ NoCall.pc = "idle"
    BY RunsAssumption, Zenon DEF NoCall, Call, IdleServer, Server
  <1>3. lc'[r] = NoCall /\ lc' \in [Runs -> Call] /\ \A q \in Runs : q # r => lc'[q] = lc[q]
    BY <1>1, <1>2, Zenon DEF Done
  <1>4. runs'[r] = row /\ runs' \in [Runs -> Row] /\ \A q \in Runs : q # r => runs'[q] = runs[q]
    BY Zenon DEF IInv, TypeOK
  <1>5. TypeOK'
    BY <1>3, <1>4, Zenon DEF IInv, TypeOK
  <1>6. \A q \in Runs : q # r => Same(q)
    BY <1>3, <1>4, Zenon DEF Same
  <1>7. ServerStep(r)
    BY <1>1, <1>2, <1>3, Zenon DEF ServerStep, Holds
  <1>8. runs'[r] # NoRow
    <2>1. NoRow.status = "absent"
      BY Zenon DEF NoRow
    <2>2. row.status # "absent"
      BY <1>1, Zenon
    <2> QED BY <1>4, <2>1, <2>2, Zenon
  <1>9. RunInv(r)'
    BY <1>1, <1>2, <1>3, <1>4, <1>8, Zenon DEF RunInv, Jobless
  <1>10. ReadInv(r)' /\ AuditInv(r)'
    BY <1>1, <1>4, Unobserved, Zenon
  <1> QED BY <1>1, <1>5, <1>6, <1>7, <1>9, <1>10, StepIInv, Zenon

LEMMA CallEndIInv ==
  ASSUME IInv, NEW r \in Runs, FailRow(r) \/ SkipRow(r) \/ FailStart(r)
  PROVE  IInv'
  <1>1. PICK status \in {"skipped", "failed"}, reason \in {"persistence", "not_admitted"}, job \in BOOLEAN :
          UpdateRun(r, status, reason, job) /\ (job => lc[r].pc = "fail_start")
    BY Zenon DEF FailRow, SkipRow, FailStart
  <1>2. /\ lc[r].pc \in {"fail_row", "skip", "fail_start"} /\ Done(r)
        /\ UNCHANGED <<proc, server, jobs, worker, rec, op, audits, outside, stops>>
    BY Zenon DEF FailRow, SkipRow, FailStart
  <1>3. runs \in [Runs -> Row] /\ runs[r] \in Row /\ faults \in 0 .. MaxFaults
    BY Zenon DEF IInv, TypeOK
  <1>4. CASE SetRow(r, status, reason, job) /\ NoFault
    <2> DEFINE row == [status |-> status, reason |-> reason, job |-> job]
    <2>1. row \in Row /\ row.status = status /\ row.reason = reason /\ row.job = job
      BY Zenon DEF Row, Reasons, TerminalRun
    <2>2. runs' = [runs EXCEPT ![r] = row] /\ faults' \in 0 .. MaxFaults
      BY <1>3, <1>4, Zenon DEF SetRow, NoFault
    <2> HIDE DEF row
    <2> QED BY <1>1, <1>2, <2>1, <2>2, CallEnds, Zenon
  <1>5. CASE UNCHANGED runs /\ Fault
    <2>1. runs' = [runs EXCEPT ![r] = runs[r]]
      BY <1>3, <1>5, Zenon
    <2>2. faults' \in 0 .. MaxFaults
      BY <1>3, <1>5, RunsAssumption DEF Fault
    <2> QED BY <1>2, <1>3, <2>1, <2>2, CallEnds, Zenon
  <1> QED BY <1>1, <1>4, <1>5, Zenon DEF UpdateRun

LEMMA FailJobIInv ==
  ASSUME IInv, NEW r \in Runs, FailJob(r)
  PROVE  IInv'
  <1> DEFINE call == [lc[r] EXCEPT !.pc = "fail_start"]
  <1>1. /\ lc[r].pc = "fail_job" /\ lc[r] \in Call /\ lc \in [Runs -> Call] /\ worker[r] = "none"
        /\ proc # "down" /\ runs[r].status = "queued" /\ ~runs[r].job /\ runs[r] # NoRow
        /\ \A w \in Reconcilers : rec[r][w] = Off
        /\ RunInv(r) /\ ReadInv(r) /\ AuditInv(r) /\ audits[r] = 0
    BY Calling, Zenon DEF FailJob
  <1>2. call \in Call /\ call.pc = "fail_start"
    BY <1>1, Zenon DEF Call
  <1>3. lc'[r] = call /\ lc' \in [Runs -> Call] /\ \A q \in Runs : q # r => lc'[q] = lc[q]
    BY <1>1, <1>2, Zenon DEF FailJob, Goto
  <1>4. server' \in Server
    BY <1>1, Zenon DEF FailJob, RestoreStatusSnapshot, Call
  <1>5. faults' \in 0 .. MaxFaults
    BY RunsAssumption DEF FailJob, NoFault, Fault, IInv, TypeOK
  <1>6. /\ jobs'[r] # "none" /\ jobs' \in [Runs -> ActiveJob \cup TerminalJob \cup {"none"}]
        /\ \A q \in Runs : q # r => jobs'[q] = jobs[q]
    BY <1>1, Zenon DEF FailJob, RunInv, ActiveJob, TerminalJob, IInv, TypeOK
  <1> HIDE DEF call
  <1>7. TypeOK'
    BY <1>3, <1>4, <1>5, <1>6, Zenon DEF IInv, TypeOK, FailJob
  <1>8. \A q \in Runs : q # r => Same(q)
    BY <1>3, <1>6, Zenon DEF Same, FailJob
  <1>9. ServerStep(r)
    BY <1>1, <1>2, <1>3, Zenon DEF ServerStep, Holds, FailJob
  <1>10. RunInv(r)'
    BY <1>1, <1>2, <1>3, <1>6, Zenon DEF RunInv, FailJob, Jobless
  <1>11. ReadInv(r)' /\ AuditInv(r)'
    BY <1>1, Unobserved, Zenon DEF FailJob
  <1> QED BY <1>1, <1>7, <1>8, <1>9, <1>10, <1>11, StepIInv, Zenon DEF FailJob

LEMMA StartRunIInv ==
  ASSUME IInv, NEW r \in Runs, StartRun(r)
  PROVE  IInv'
  <1>1. /\ lc[r].pc = "start" /\ lc[r] \in Call /\ lc \in [Runs -> Call] /\ worker[r] = "none"
        /\ proc # "down" /\ runs[r].status = "queued" /\ ~runs[r].job /\ runs[r] # NoRow
        /\ \A w \in Reconcilers : rec[r][w] = Off
        /\ RunInv(r) /\ ReadInv(r) /\ AuditInv(r) /\ audits[r] = 0 /\ jobs[r] \in ActiveJob
    <2>1. lc[r].pc = "start"
      BY Zenon DEF StartRun
    <2> QED BY <2>1, Calling, Zenon DEF RunInv
  <1>2. /\ server \in Server /\ faults \in 0 .. MaxFaults /\ runs \in [Runs -> Row]
        /\ worker \in [Runs -> Workers] /\ rec \in [Runs -> [Reconcilers -> Reconciliation]]
    BY Zenon DEF IInv, TypeOK
  <1>3. Holds(r) /\ server.status = "busy" /\ server.owner = OwnerFor(r)
    BY <1>1, Zenon DEF IInv, HoldInv, Holds
  <1>4. CASE /\ SetRow(r, "running", "", TRUE) /\ NoFault /\ Goto(r, "idle")
             /\ worker' = [worker EXCEPT ![r] = "start"]
             /\ rec' = [rec EXCEPT ![r]["watch"] = [Off EXCEPT !.pc = "read_job"]]
    <2> DEFINE call == [lc[r] EXCEPT !.pc = "idle"]
               row == [status |-> "running", reason |-> "", job |-> TRUE]
    <2>1. call \in Call /\ call.pc = "idle" /\ call.mode = lc[r].mode
      BY <1>1, Zenon DEF Call
    <2>2. row \in Row /\ row.status = "running" /\ row.job
      BY Zenon DEF Row, Reasons, ActiveRun
    <2>3. lc'[r] = call /\ lc' \in [Runs -> Call] /\ \A q \in Runs : q # r => lc'[q] = lc[q]
      BY <1>1, <1>4, <2>1, Zenon DEF Goto
    <2>4. runs'[r] = row /\ runs' \in [Runs -> Row] /\ \A q \in Runs : q # r => runs'[q] = runs[q]
      BY <1>2, <1>4, <2>2, Zenon DEF SetRow
    <2>5. /\ worker'[r] = "start" /\ worker' \in [Runs -> Workers]
          /\ \A q \in Runs : q # r => worker'[q] = worker[q]
      BY <1>2, <1>4, Zenon DEF Workers
    <2>6. /\ rec' \in [Runs -> [Reconcilers -> Reconciliation]]
          /\ \A q \in Runs : q # r => rec'[q] = rec[q]
          /\ \A w \in Reconcilers : rec'[r][w].pc \in {"off", "read_job"} /\ rec'[r][w].job = "none"
      <3> DEFINE first == [Off EXCEPT !.pc = "read_job"]
      <3>1. first \in Reconciliation /\ first.pc = "read_job" /\ first.job = "none"
        BY Zenon DEF Off, Reconciliation
      <3> HIDE DEF first
      <3>3. rec' = [rec EXCEPT ![r] = [rec[r] EXCEPT !["watch"] = first]]
        BY <1>4, Zenon DEF first
      <3>4. \A w \in Reconcilers : rec'[r][w] = IF w = "watch" THEN first ELSE rec[r][w]
        BY <1>2, <3>3, Zenon
      <3>5. \A w \in Reconcilers : rec'[r][w].pc \in {"off", "read_job"} /\ rec'[r][w].job = "none"
        BY <1>1, <3>1, <3>4, OffFacts, Zenon
      <3> QED BY <1>2, <3>1, <3>3, <3>5, Zenon
    <2> HIDE DEF call, row
    <2>7. ServerStep(r)
      BY <1>1, <1>3, <2>1, <2>3, <2>5, Zenon DEF ServerStep, Holds, OwnerFor, StartRun
    <2>8. \A q \in Runs : q # r => Same(q)
      BY <2>3, <2>4, <2>5, <2>6, Zenon DEF Same, StartRun
    <2>9. TypeOK'
      BY <1>4, <2>3, <2>4, <2>5, <2>6, Zenon DEF IInv, TypeOK, StartRun, NoFault
    <2>10. runs'[r] # NoRow
      <3>1. NoRow.status = "absent"
        BY Zenon DEF NoRow
      <3> QED BY <2>2, <2>4, <3>1, Zenon
    <2>11. RunInv(r)'
      BY <1>1, <2>1, <2>2, <2>3, <2>4, <2>5, <2>10, Zenon DEF RunInv, StartRun, Jobless, ActiveJob
    <2>12. ReadInv(r)'
      BY <1>1, <2>2, <2>4, <2>6, Zenon DEF ReadInv, TerminalRun, TerminalJob
    <2>13. AuditInv(r)'
      <3>1. \A w \in Reconcilers : ~Claims(r, w)'
        BY <2>6, Zenon DEF Claims
      <3>2. audits'[r] = 0
        BY <1>1, Zenon DEF StartRun
      <3> QED BY <3>1, <3>2, Zenon DEF AuditInv
    <2> QED BY <1>1, <2>7, <2>8, <2>9, <2>11, <2>12, <2>13, StepIInv, Zenon DEF StartRun
  <1>5. CASE Fault /\ Goto(r, "fail_job") /\ UNCHANGED <<runs, worker, rec>>
    <2> DEFINE call == [lc[r] EXCEPT !.pc = "fail_job"]
    <2>1. call \in Call /\ call.pc = "fail_job" /\ call.mode = lc[r].mode
      BY <1>1, Zenon DEF Call
    <2>2. lc' = [lc EXCEPT ![r] = call] /\ lc'[r] = call
      BY <1>1, <1>5, Zenon DEF Goto
    <2> HIDE DEF call
    <2>3. ServerStep(r)
      BY <1>1, <1>3, <1>5, <2>1, <2>2, Zenon DEF ServerStep, Holds, OwnerFor, StartRun
    <2>4. faults' \in 0 .. MaxFaults
      BY <1>2, <1>5, RunsAssumption DEF Fault
    <2> QED BY <1>1, <1>2, <1>5, <2>1, <2>2, <2>3, <2>4, CallMoves, Zenon DEF StartRun, Jobless
  <1> QED BY <1>4, <1>5, Zenon DEF StartRun

LEMMA NoCallFacts == NoCall \in Call /\ NoCall.pc = "idle"
  BY RunsAssumption, Zenon DEF NoCall, Call, IdleServer, Server

\* A run that the scheduler asks for: nothing is known of it.
LEMMA HandleScheduledRunIInv ==
  ASSUME IInv, NEW r \in Runs, HandleScheduledRun(r)
  PROVE  IInv'
  <1>1. /\ proc = "up" /\ runs[r] = NoRow /\ lc[r].pc = "idle"
        /\ RunInv(r) /\ AuditInv(r) /\ TypeOK
    BY Zenon DEF HandleScheduledRun, IInv, RowsInv
  <1>2. NoRow.status = "absent" /\ ~NoRow.job
    BY Zenon DEF NoRow
  <1>3. /\ jobs[r] = "none" /\ worker[r] = "none" /\ audits[r] = 0
        /\ \A w \in Reconcilers : rec[r][w] = Off
    BY <1>1, <1>2, Zenon DEF RunInv, AuditInv, Closed, TerminalRun
  <1>4. PICK row \in Row : /\ row.status \in {"skipped", "queued"} /\ ~row.job
                           /\ runs' = [runs EXCEPT ![r] = row]
                           /\ lc' # lc => row.status = "queued"
    <2> DEFINE skipped == [status |-> "skipped", reason |-> "not_admitted", job |-> FALSE]
               queued == [status |-> "queued", reason |-> "", job |-> FALSE]
    <2>1. skipped \in Row /\ skipped.status = "skipped" /\ ~skipped.job
      BY Zenon DEF Row, TerminalRun, Reasons
    <2>2. queued \in Row /\ queued.status = "queued" /\ ~queued.job
      BY Zenon DEF Row, ActiveRun, Reasons
    <2>3. \/ runs' = [runs EXCEPT ![r] = skipped] /\ lc' = lc
          \/ runs' = [runs EXCEPT ![r] = queued]
      BY Zenon DEF HandleScheduledRun, SetRow
    <2> HIDE DEF skipped, queued
    <2> QED BY <2>1, <2>2, <2>3, Zenon
  <1>5. PICK call \in Call : /\ call.pc \in {"idle", "execute"} /\ lc' = [lc EXCEPT ![r] = call]
                             /\ call.pc = "execute" => row.status = "queued"
    <2>1. CASE lc' = lc
      <3>1. lc[r] \in Call /\ lc' = [lc EXCEPT ![r] = lc[r]]
        BY <1>1, <2>1, Zenon DEF TypeOK
      <3> QED BY <1>1, <3>1, Zenon
    <2>2. CASE lc' # lc
      <3>1. PICK mode \in Modes : lc' = [lc EXCEPT ![r] = [NoCall EXCEPT !.pc = "execute", !.mode = mode]]
        BY <2>2, Zenon DEF HandleScheduledRun
      <3>2. /\ [NoCall EXCEPT !.pc = "execute", !.mode = mode] \in Call
            /\ [NoCall EXCEPT !.pc = "execute", !.mode = mode].pc = "execute"
        BY NoCallFacts, Zenon DEF Call
      <3> QED BY <1>4, <2>2, <3>1, <3>2, Zenon
    <2> QED BY <2>1, <2>2, Zenon
  <1>6. runs'[r] = row /\ runs' \in [Runs -> Row] /\ \A q \in Runs : q # r => runs'[q] = runs[q]
    BY <1>1, <1>4, Zenon DEF TypeOK
  <1>7. lc'[r] = call /\ lc' \in [Runs -> Call] /\ \A q \in Runs : q # r => lc'[q] = lc[q]
    BY <1>1, <1>5, Zenon DEF TypeOK
  <1>8. faults' \in 0 .. MaxFaults
    <2>1. faults \in 0 .. MaxFaults /\ (NoFault \/ Fault)
      BY <1>1, Zenon DEF HandleScheduledRun, TypeOK
    <2> QED BY <2>1, RunsAssumption DEF NoFault, Fault
  <1>9. TypeOK'
    BY <1>1, <1>6, <1>7, <1>8, Zenon DEF TypeOK, HandleScheduledRun
  <1>10. \A q \in Runs : q # r => Same(q)
    BY <1>6, <1>7, Zenon DEF Same, HandleScheduledRun
  <1>11. ServerStep(r)
    BY <1>1, <1>3, <1>5, <1>7, Zenon DEF ServerStep, Holds, HandleScheduledRun
  <1>12. RunInv(r)'
    <2>1. lc'[r].pc \in {"idle", "execute"} /\ (lc'[r].pc # "idle" => runs'[r].status = "queued")
      BY <1>5, <1>6, <1>7, Zenon
    <2>2. /\ jobs' = jobs /\ worker' = worker /\ rec' = rec
      BY Zenon DEF HandleScheduledRun
    <2> QED BY <1>3, <1>4, <1>6, <2>1, <2>2, Zenon DEF RunInv, Jobless
  <1>13. ReadInv(r)' /\ AuditInv(r)'
    BY <1>3, <1>4, <1>6, Unobserved, Zenon DEF HandleScheduledRun
  <1> QED BY <1>1, <1>9, <1>10, <1>11, <1>12, <1>13, StepIInv, Zenon DEF HandleScheduledRun

-----------------------------------------------------------------------------
(* The worker                                                               *)

\* What a worker finds.
LEMMA Working ==
  ASSUME IInv, NEW r \in Runs, worker[r] # "none"
  PROVE  /\ proc # "down" /\ runs[r].job /\ runs[r] # NoRow /\ lc[r].pc = "idle" /\ jobs[r] # "none"
         /\ jobs[r] \in ActiveJob \cup TerminalJob
         /\ RunInv(r) /\ ReadInv(r) /\ AuditInv(r) /\ TypeOK /\ lc[r] \in Call
  <1>1. RunInv(r) /\ ReadInv(r) /\ AuditInv(r) /\ TypeOK
    BY Zenon DEF IInv, RowsInv
  <1>2. runs[r].job /\ lc[r].pc = "idle" /\ jobs[r] # "none"
    BY <1>1, Zenon DEF RunInv
  <1>3. ~NoRow.job
    BY Zenon DEF NoRow
  <1> QED BY <1>1, <1>2, <1>3, InMemory, Zenon DEF TypeOK

\* A write of one reconciler's record.
SetRec(r, w, x) == rec' = [rec EXCEPT ![r][w] = x]

LEMMA RecWrite ==
  ASSUME TypeOK, NEW r \in Runs, NEW w \in Reconcilers, NEW x \in Reconciliation, SetRec(r, w, x)
  PROVE  /\ rec' \in [Runs -> [Reconcilers -> Reconciliation]]
         /\ \A q \in Runs : q # r => rec'[q] = rec[q]
         /\ rec'[r][w] = x
         /\ \A v \in Reconcilers : v # w => rec'[r][v] = rec[r][v]
  <1>1. rec \in [Runs -> [Reconcilers -> Reconciliation]] /\ rec[r] \in [Reconcilers -> Reconciliation]
    BY Zenon DEF TypeOK
  <1> DEFINE records == [rec[r] EXCEPT ![w] = x]
  <1>2. /\ records \in [Reconcilers -> Reconciliation] /\ records[w] = x
        /\ \A v \in Reconcilers : v # w => records[v] = rec[r][v]
    BY <1>1, Zenon
  <1>3. rec' = [rec EXCEPT ![r] = records]
    BY Zenon DEF SetRec
  <1> HIDE DEF records
  <1> QED BY <1>1, <1>2, <1>3, Zenon

\* A step of the worker: it writes the job while that is active, and it may
\* leave its reconciliation to do.
LEMMA WorkerMoves ==
  ASSUME IInv, NEW r \in Runs, worker[r] # "none",
         NEW job \in ActiveJob \cup TerminalJob, jobs' = [jobs EXCEPT ![r] = job],
         job = jobs[r] \/ jobs[r] \in ActiveJob,
         NEW point \in Workers, worker' = [worker EXCEPT ![r] = point],
         point \in {"start", "work", "panic_restore", "panicked"} => job \in ActiveJob,
         rec' = rec \/ rec' = [rec EXCEPT ![r]["worker"] = [Off EXCEPT !.pc = "read_job"]],
         NEW call \in Call, lc' = [lc EXCEPT ![r] = call], call.pc = "idle",
         server' \in Server, faults' \in 0 .. MaxFaults, ServerStep(r),
         UNCHANGED <<runs, proc, op, audits, outside, stops>>
  PROVE  IInv'
  <1>1. /\ proc # "down" /\ runs[r].job /\ runs[r] # NoRow /\ lc[r].pc = "idle"
        /\ RunInv(r) /\ ReadInv(r) /\ AuditInv(r) /\ TypeOK
    BY Working, Zenon
  <1>2. /\ jobs'[r] = job /\ jobs' \in [Runs -> ActiveJob \cup TerminalJob \cup {"none"}]
        /\ \A q \in Runs : q # r => jobs'[q] = jobs[q]
    BY <1>1, Zenon DEF TypeOK
  <1>3. /\ worker'[r] = point /\ worker' \in [Runs -> Workers]
        /\ \A q \in Runs : q # r => worker'[q] = worker[q]
    BY <1>1, Zenon DEF TypeOK
  <1>4. lc'[r] = call /\ lc' \in [Runs -> Call] /\ \A q \in Runs : q # r => lc'[q] = lc[q]
    BY <1>1, Zenon DEF TypeOK
  <1>5. /\ rec' \in [Runs -> [Reconcilers -> Reconciliation]]
        /\ \A q \in Runs : q # r => rec'[q] = rec[q]
        /\ \A w \in Reconcilers : \/ rec'[r][w] = rec[r][w]
                                  \/ rec'[r][w].pc = "read_job" /\ rec'[r][w].job = "none"
    <2> DEFINE first == [Off EXCEPT !.pc = "read_job"]
    <2>1. first \in Reconciliation /\ first.pc = "read_job" /\ first.job = "none"
      BY OffFacts, Zenon DEF Reconciliation
    <2>2. rec' = rec \/ SetRec(r, "worker", first)
      BY Zenon DEF SetRec
    <2> HIDE DEF first
    <2>3. CASE rec' = rec
      BY <1>1, <2>3, Zenon DEF TypeOK
    <2>4. CASE SetRec(r, "worker", first)
      <3>1. "worker" \in Reconcilers
        BY Zenon DEF Reconcilers
      <3>2. /\ rec' \in [Runs -> [Reconcilers -> Reconciliation]]
            /\ \A q \in Runs : q # r => rec'[q] = rec[q]
            /\ rec'[r]["worker"] = first
            /\ \A v \in Reconcilers : v # "worker" => rec'[r][v] = rec[r][v]
        BY <1>1, <2>1, <2>4, <3>1, RecWrite, Zenon
      <3> QED BY <2>1, <3>2, Zenon
    <2> QED BY <2>2, <2>3, <2>4, Zenon
  <1>6. TypeOK'
    BY <1>1, <1>2, <1>3, <1>4, <1>5, Zenon DEF TypeOK
  <1>7. \A q \in Runs : q # r => Same(q)
    BY <1>2, <1>3, <1>4, <1>5, Zenon DEF Same
  <1>8. "none" \notin ActiveJob \cup TerminalJob /\ \A j \in ActiveJob : j \notin TerminalJob \cup TerminalRun
    BY Zenon DEF ActiveJob, TerminalJob, TerminalRun
  <1>9. RunInv(r)'
    BY <1>1, <1>2, <1>3, <1>4, <1>8, Zenon DEF RunInv, Jobless
  <1>10. ReadInv(r)'
    <2>1. runs'[r].job /\ runs'[r].status \in TerminalRun /\ runs'[r].reason \in {"", "job"}
            => jobs'[r] = runs'[r].status
      BY <1>1, <1>2, <1>8, Zenon DEF ReadInv
    <2>2. ASSUME NEW w \in Reconcilers
          PROVE  /\ rec'[r][w].job \in TerminalJob => jobs'[r] = rec'[r][w].job
                 /\ rec'[r][w].pc \in {"read_run", "transition", "reread", "accept"} => rec'[r][w].job # "none"
                 /\ rec'[r][w].pc = "reread" => runs'[r].status \in TerminalRun
      <3>1. CASE rec'[r][w] = rec[r][w]
        BY <1>1, <1>2, <1>8, <3>1, Zenon DEF ReadInv
      <3>2. CASE rec'[r][w].pc = "read_job" /\ rec'[r][w].job = "none"
        BY <1>8, <3>2, Zenon
      <3> QED BY <1>5, <3>1, <3>2, Zenon
    <2> QED BY <2>1, <2>2, Zenon DEF ReadInv
  <1>11. AuditInv(r)'
    <2>1. \A w \in Reconcilers : Claims(r, w)' => Claims(r, w)
      BY <1>5, Zenon DEF Claims
    <2> QED BY <1>1, <2>1, Zenon DEF AuditInv
  <1> QED BY <1>1, <1>6, <1>7, <1>9, <1>10, <1>11, StepIInv, Zenon

\* The server while a worker has it or not.
LEMMA WorkerHolds ==
  ASSUME IInv, NEW r \in Runs, Holds(r), lc[r].pc = "idle"
  PROVE  /\ server.status = "busy" /\ server \in Server
         /\ server.owner = IF lc[r].mode = "mutation" THEN r ELSE "none"
  BY Zenon DEF IInv, TypeOK, HoldInv, OwnerFor

LEMMA StartWorkerIInv ==
  ASSUME IInv, NEW r \in Runs, StartWorker(r)
  PROVE  IInv'
  <1>1. /\ worker[r] = "start" /\ lc[r].pc = "idle" /\ jobs[r] \in ActiveJob
        /\ lc[r] \in Call /\ TypeOK /\ Holds(r)
    <2>1. worker[r] = "start"
      BY Zenon DEF StartWorker
    <2> QED BY <2>1, Working, Zenon DEF RunInv, Holds
  <1>2. /\ server.status = "busy" /\ server \in Server
        /\ server.owner = IF lc[r].mode = "mutation" THEN r ELSE "none"
    BY <1>1, WorkerHolds, Zenon
  <1>3. lc' = [lc EXCEPT ![r] = lc[r]]
    BY <1>1, Zenon DEF TypeOK, StartWorker
  <1>4. PICK job \in ActiveJob \cup TerminalJob, point \in {"work", "rejected"} :
          /\ jobs' = [jobs EXCEPT ![r] = job] /\ worker' = [worker EXCEPT ![r] = point]
          /\ point = "work" => job \in ActiveJob
    <2>1. jobs = [jobs EXCEPT ![r] = jobs[r]]
      BY <1>1, Zenon DEF TypeOK
    <2>2. "running" \in ActiveJob /\ "failed" \in TerminalJob
      BY Zenon DEF ActiveJob, TerminalJob
    <2>3. \/ Become(r, "work") /\ jobs' = [jobs EXCEPT ![r] = "running"]
          \/ Become(r, "rejected") /\ (jobs' = jobs \/ jobs' = [jobs EXCEPT ![r] = "failed"])
      BY Zenon DEF StartWorker
    <2> QED BY <1>1, <2>1, <2>2, <2>3, Zenon DEF Become
  <1>5. server' \in Server /\ server'.status = "busy" /\ server'.owner = server.owner
    BY <1>2, Zenon DEF StartWorker, Server
  <1>6. faults' \in 0 .. MaxFaults
    <2>1. faults \in 0 .. MaxFaults /\ (NoFault \/ Fault)
      BY <1>1, Zenon DEF StartWorker, TypeOK
    <2> QED BY <2>1, RunsAssumption DEF NoFault, Fault
  <1>7. worker'[r] \in {"work", "rejected"} /\ lc' = lc
    BY <1>1, <1>4, Zenon DEF TypeOK, StartWorker
  <1>8. ServerStep(r)
    BY <1>1, <1>2, <1>5, <1>7, Zenon DEF ServerStep, Holds, OwnerFor
  <1> QED BY <1>1, <1>3, <1>4, <1>5, <1>6, <1>8, WorkerMoves, Zenon DEF StartWorker, Workers

\* The server is given back, or is not the worker's any more: the worker
\* reconciles, or fails the job after a panic.
LEMMA RejectWorkerIInv ==
  ASSUME IInv, NEW r \in Runs, RejectWorker(r)
  PROVE  IInv'
  <1>1. /\ worker[r] = "rejected" /\ lc[r].pc = "idle" /\ jobs[r] \in ActiveJob \cup TerminalJob
        /\ lc[r] \in Call /\ TypeOK
    <2>1. worker[r] = "rejected"
      BY Zenon DEF RejectWorker
    <2> QED BY <2>1, Working, Zenon
  <1>2. lc' = [lc EXCEPT ![r] = lc[r]] /\ jobs' = [jobs EXCEPT ![r] = jobs[r]] /\ lc' = lc
    BY <1>1, Zenon DEF TypeOK, RejectWorker
  <1>3. server' \in Server /\ faults' \in 0 .. MaxFaults
    BY <1>1, Zenon DEF RejectWorker, RestoreStatusSnapshot, Call, TypeOK
  <1>4. /\ worker' = [worker EXCEPT ![r] = "reconcile"] /\ worker'[r] = "reconcile"
        /\ rec' = [rec EXCEPT ![r]["worker"] = [Off EXCEPT !.pc = "read_job"]]
    BY <1>1, Zenon DEF RejectWorker, BeginReconcile, Become, TypeOK
  <1>5. ServerStep(r)
    BY <1>1, <1>2, <1>4, Zenon DEF ServerStep, Holds
  <1>6. "reconcile" \in Workers
    BY Zenon DEF Workers
  <1>7. UNCHANGED <<runs, proc, op, audits, outside, stops>>
    BY Zenon DEF RejectWorker
  <1> QED BY <1>1, <1>2, <1>3, <1>4, <1>5, <1>6, <1>7, WorkerMoves, Zenon

LEMMA WaitOrResumeIInv ==
  ASSUME IInv, NEW r \in Runs, WaitOrResume(r)
  PROVE  IInv'
  <1>1. /\ worker[r] = "work" /\ lc[r].pc = "idle" /\ jobs[r] \in ActiveJob
        /\ lc[r] \in Call /\ TypeOK /\ Holds(r)
    <2>1. worker[r] = "work"
      BY Zenon DEF WaitOrResume
    <2> QED BY <2>1, Working, Zenon DEF RunInv, Holds
  <1>2. PICK job \in {"running", "waiting_approval"} : jobs' = [jobs EXCEPT ![r] = job]
    <2>1. PICK pair \in {<<"running", "waiting_approval">>, <<"waiting_approval", "running">>} :
            jobs' = [jobs EXCEPT ![r] = pair[2]]
      BY Zenon DEF WaitOrResume
    <2>2. pair[2] \in {"running", "waiting_approval"}
      OBVIOUS
    <2> QED BY <2>1, <2>2, Zenon
  <1>3. job \in ActiveJob /\ "work" \in Workers
    BY Zenon DEF ActiveJob, Workers
  <1>4. /\ lc' = [lc EXCEPT ![r] = lc[r]] /\ worker' = [worker EXCEPT ![r] = "work"]
        /\ lc' = lc /\ worker' = worker /\ server' = server
    BY <1>1, Zenon DEF TypeOK, WaitOrResume
  <1>5. ServerStep(r)
    BY <1>1, <1>4, WorkerHolds, Zenon DEF ServerStep, Holds, OwnerFor
  <1>6. /\ UNCHANGED <<runs, proc, op, audits, outside, stops>> /\ rec' = rec
        /\ server' \in Server /\ faults' \in 0 .. MaxFaults
    BY <1>1, Zenon DEF WaitOrResume, TypeOK
  <1> QED BY <1>1, <1>2, <1>3, <1>4, <1>5, <1>6, WorkerMoves, Zenon

LEMMA PanicIInv ==
  ASSUME IInv, NEW r \in Runs, Panic(r)
  PROVE  IInv'
  <1>1. /\ worker[r] = "work" /\ lc[r].pc = "idle" /\ jobs[r] \in ActiveJob
        /\ lc[r] \in Call /\ TypeOK /\ Holds(r)
    <2>1. worker[r] = "work"
      BY Zenon DEF Panic
    <2> QED BY <2>1, Working, Zenon DEF RunInv, Holds
  <1>2. /\ lc' = [lc EXCEPT ![r] = lc[r]] /\ jobs' = [jobs EXCEPT ![r] = jobs[r]]
        /\ worker' = [worker EXCEPT ![r] = "panic_restore"] /\ worker'[r] = "panic_restore"
        /\ lc' = lc /\ server' = server
    BY <1>1, Zenon DEF TypeOK, Panic, Become
  <1>3. ServerStep(r)
    BY <1>1, <1>2, WorkerHolds, Zenon DEF ServerStep, Holds, OwnerFor
  <1>4. /\ UNCHANGED <<runs, proc, op, audits, outside, stops>> /\ rec' = rec
        /\ server' \in Server /\ faults' \in 0 .. MaxFaults
    BY <1>1, Zenon DEF Panic, TypeOK
  <1>5. "panic_restore" \in Workers
    BY Zenon DEF Workers
  <1> QED BY <1>1, <1>2, <1>3, <1>4, <1>5, WorkerMoves, Zenon

LEMMA EndScanIInv ==
  ASSUME IInv, NEW r \in Runs, EndScan(r)
  PROVE  IInv'
  <1>1. /\ worker[r] = "work" /\ lc[r].pc = "idle" /\ jobs[r] \in ActiveJob
        /\ lc[r] \in Call /\ TypeOK /\ Holds(r)
    <2>1. worker[r] = "work"
      BY Zenon DEF EndScan
    <2> QED BY <2>1, Working, Zenon DEF RunInv, Holds
  <1>2. PICK job \in ActiveJob \cup TerminalJob : jobs' = [jobs EXCEPT ![r] = job]
    <2>1. jobs = [jobs EXCEPT ![r] = jobs[r]]
      BY <1>1, Zenon DEF TypeOK
    <2>2. Ends \subseteq TerminalJob
      BY RunsAssumption, Zenon DEF TerminalJob
    <2> QED BY <1>1, <2>1, <2>2, Zenon DEF EndScan
  <1>3. /\ lc' = [lc EXCEPT ![r] = lc[r]] /\ worker' = [worker EXCEPT ![r] = "restore"]
        /\ worker'[r] = "restore" /\ lc' = lc /\ server' = server
    BY <1>1, Zenon DEF TypeOK, EndScan, Become
  <1>4. ServerStep(r)
    BY <1>1, <1>3, WorkerHolds, Zenon DEF ServerStep, Holds, OwnerFor
  <1>5. faults' \in 0 .. MaxFaults
    <2>1. faults \in 0 .. MaxFaults /\ (NoFault \/ Fault)
      BY <1>1, Zenon DEF EndScan, TypeOK
    <2> QED BY <2>1, RunsAssumption DEF NoFault, Fault
  <1>6. UNCHANGED <<runs, proc, op, audits, outside, stops>> /\ rec' = rec /\ server' \in Server
    BY <1>1, Zenon DEF EndScan, TypeOK
  <1>7. "restore" \in Workers
    BY Zenon DEF Workers
  <1> QED BY <1>1, <1>2, <1>3, <1>4, <1>5, <1>6, <1>7, WorkerMoves, Zenon

LEMMA EndMutationIInv ==
  ASSUME IInv, NEW r \in Runs, EndMutation(r)
  PROVE  IInv'
  <1>1. /\ worker[r] = "work" /\ lc[r].pc = "idle" /\ jobs[r] \in ActiveJob
        /\ lc[r] \in Call /\ TypeOK /\ Holds(r)
    <2>1. worker[r] = "work"
      BY Zenon DEF EndMutation
    <2> QED BY <2>1, Working, Zenon DEF RunInv, Holds
  <1>2. PICK status \in Ends, rest \in {"idle", "needs_reconciliation"} :
          /\ \/ jobs' = [jobs EXCEPT ![r] = status] /\ NoFault
             \/ UNCHANGED jobs /\ Fault
          /\ server' = IF server.owner = r
                       THEN [server EXCEPT !.status = rest, !.running = FALSE] ELSE server
    BY Zenon DEF EndMutation
  <1>3. PICK job \in ActiveJob \cup TerminalJob : jobs' = [jobs EXCEPT ![r] = job]
    <2>1. jobs = [jobs EXCEPT ![r] = jobs[r]]
      BY <1>1, Zenon DEF TypeOK
    <2>2. Ends \subseteq TerminalJob
      BY RunsAssumption, Zenon DEF TerminalJob
    <2> QED BY <1>1, <1>2, <2>1, <2>2, Zenon
  <1>4. server' \in Server
    <2>1. server \in Server
      BY <1>1, Zenon DEF TypeOK
    <2> QED BY <1>2, <2>1, Zenon DEF Server
  <1>5. faults' \in 0 .. MaxFaults
    <2>1. faults \in 0 .. MaxFaults /\ (NoFault \/ Fault)
      BY <1>1, <1>2, Zenon DEF TypeOK
    <2> QED BY <2>1, RunsAssumption DEF NoFault, Fault
  <1>6. /\ worker' = [worker EXCEPT ![r] = "reconcile"] /\ worker'[r] = "reconcile"
        /\ rec' = [rec EXCEPT ![r]["worker"] = [Off EXCEPT !.pc = "read_job"]]
        /\ lc' = [lc EXCEPT ![r] = lc[r]] /\ lc' = lc
    BY <1>1, Zenon DEF EndMutation, BeginReconcile, Become, TypeOK
  <1>7. ServerStep(r)
    BY <1>1, <1>6, Zenon DEF ServerStep, Holds
  <1>8. "reconcile" \in Workers /\ UNCHANGED <<runs, proc, op, audits, outside, stops>>
    BY Zenon DEF Workers, EndMutation
  <1> QED BY <1>1, <1>3, <1>4, <1>5, <1>6, <1>7, <1>8, WorkerMoves, Zenon

LEMMA RestoreAfterWorkIInv ==
  ASSUME IInv, NEW r \in Runs, RestoreAfterWork(r)
  PROVE  IInv'
  <1>1. /\ worker[r] \in {"restore", "panic_restore"} /\ lc[r].pc = "idle"
        /\ jobs[r] \in ActiveJob \cup TerminalJob
        /\ worker[r] = "panic_restore" => jobs[r] \in ActiveJob
        /\ lc[r] \in Call /\ TypeOK /\ Holds(r)
    <2>1. worker[r] \in {"restore", "panic_restore"}
      BY Zenon DEF RestoreAfterWork
    <2> QED BY <2>1, Working, Zenon DEF RunInv, Holds
  <1>2. /\ server.status = "busy" /\ server \in Server
        /\ server.owner = IF lc[r].mode = "mutation" THEN r ELSE "none"
    BY <1>1, WorkerHolds, Zenon
  <1>3. lc[r].mode \in {"scan", "mutation"} /\ lc[r].pre \in Server
    BY <1>1, RunsAssumption, Zenon DEF Call
  <1>4. /\ lc[r].mode = "scan" => server' = lc[r].pre
        /\ lc[r].mode = "mutation" => server' = [server EXCEPT !.running = FALSE]
    BY <1>2, <1>3, Zenon DEF RestoreAfterWork, RestoreStatusSnapshot
  <1>5. /\ server' \in Server
        /\ lc[r].mode = "mutation" => server'.status = "busy" /\ server'.owner = r
    BY <1>2, <1>3, <1>4, Zenon DEF Server
  <1>6. PICK point \in {"reconcile", "panicked"} :
          /\ worker' = [worker EXCEPT ![r] = point] /\ worker'[r] = point
          /\ point = "panicked" <=> worker[r] = "panic_restore"
    BY <1>1, Zenon DEF RestoreAfterWork, BeginReconcile, Become, TypeOK
  <1>7. /\ rec' = [rec EXCEPT ![r]["worker"] = [Off EXCEPT !.pc = "read_job"]]
        /\ lc' = [lc EXCEPT ![r] = lc[r]] /\ lc' = lc /\ jobs' = [jobs EXCEPT ![r] = jobs[r]]
    BY <1>1, Zenon DEF RestoreAfterWork, BeginReconcile, TypeOK
  <1>8. ServerStep(r)
    <2>1. CASE Holds(r)'
      <3>1. lc[r].mode = "mutation"
        BY <1>1, <1>6, <1>7, <2>1, Zenon DEF Holds
      <3> QED BY <1>1, <1>5, <1>7, <2>1, <3>1, Zenon DEF ServerStep, OwnerFor
    <2>2. CASE ~Holds(r)'
      BY <1>1, <2>2, Zenon DEF ServerStep
    <2> QED BY <2>1, <2>2, Zenon
  <1>9. /\ point \in Workers /\ UNCHANGED <<runs, proc, op, audits, outside, stops>>
        /\ faults' \in 0 .. MaxFaults
    BY <1>1, Zenon DEF Workers, RestoreAfterWork, TypeOK
  <1> QED BY <1>1, <1>5, <1>6, <1>7, <1>8, <1>9, WorkerMoves, Zenon

LEMMA WorkerExitIInv ==
  ASSUME IInv, NEW r \in Runs, WorkerExit(r)
  PROVE  IInv'
  <1>1. /\ worker[r] \in {"reconcile", "panicked"} /\ lc[r].pc = "idle"
        /\ jobs[r] \in ActiveJob \cup TerminalJob
        /\ worker[r] = "panicked" => jobs[r] \in ActiveJob
        /\ lc[r] \in Call /\ TypeOK
    <2>1. worker[r] \in {"reconcile", "panicked"}
      BY Zenon DEF WorkerExit
    <2> QED BY <2>1, Working, Zenon DEF RunInv
  <1>2. PICK job \in ActiveJob \cup TerminalJob : /\ jobs' = [jobs EXCEPT ![r] = job]
                                                  /\ job = jobs[r] \/ jobs[r] \in ActiveJob
    <2>1. jobs = [jobs EXCEPT ![r] = jobs[r]]
      BY <1>1, Zenon DEF TypeOK
    <2>2. "failed" \in TerminalJob
      BY Zenon DEF TerminalJob
    <2> QED BY <1>1, <2>1, <2>2, Zenon DEF WorkerExit
  <1>3. /\ server' \in Server
        /\ worker[r] = "reconcile" => server' = server
        /\ server' = server \/ server.owner = r
    <2>1. server \in Server
      BY <1>1, Zenon DEF TypeOK
    <2> QED BY <1>1, <2>1, Zenon DEF WorkerExit, Server
  <1>4. faults' \in 0 .. MaxFaults
    <2>1. faults \in 0 .. MaxFaults /\ (NoFault \/ Fault)
      BY <1>1, Zenon DEF WorkerExit, TypeOK
    <2> QED BY <2>1, RunsAssumption DEF NoFault, Fault
  <1>5. /\ worker' = [worker EXCEPT ![r] = "none"] /\ worker'[r] = "none"
        /\ lc' = [lc EXCEPT ![r] = NoCall] /\ lc'[r] = NoCall
    BY <1>1, Zenon DEF WorkerExit, Become, Done, TypeOK
  <1>6. ~Holds(r)'
    BY <1>5, NoCallFacts, Zenon DEF Holds
  <1>7. ServerStep(r)
    BY <1>3, <1>6, Zenon DEF ServerStep
  <1>8. "none" \in Workers /\ rec' = rec /\ UNCHANGED <<runs, proc, op, audits, outside, stops>>
    BY Zenon DEF Workers, WorkerExit
  <1> QED BY <1>1, <1>2, <1>3, <1>4, <1>5, <1>7, <1>8, NoCallFacts, WorkerMoves, Zenon

-----------------------------------------------------------------------------
(* The reconcilers                                                          *)

\* What a reconciler at work finds: the row has its job, so the scheduler's
\* call is over.
LEMMA Reconciling ==
  ASSUME IInv, NEW r \in Runs, NEW w \in Reconcilers, rec[r][w].pc # "off"
  PROVE  /\ proc # "down" /\ runs[r].job /\ runs[r].status # "absent" /\ rec[r][w] \in Reconciliation
         /\ RunInv(r) /\ ReadInv(r) /\ AuditInv(r) /\ TypeOK
  <1>1. RunInv(r) /\ ReadInv(r) /\ AuditInv(r) /\ TypeOK
    BY Zenon DEF IInv, RowsInv
  <1>2. runs[r].job /\ runs[r].status # "absent"
    BY <1>1, OffFacts, Zenon DEF RunInv
  <1>3. rec[r][w] \in Reconciliation
    BY <1>1, Zenon DEF TypeOK
  <1> QED BY <1>1, <1>2, <1>3, InMemory, ZenonT(40)

\* A step of reconciler w: it writes its record, the row and the audits.
LEMMA ReconcilerMoves ==
  ASSUME IInv, NEW r \in Runs, NEW w \in Reconcilers, runs[r].job, proc # "down",
         NEW x \in Reconciliation, SetRec(r, w, x),
         NEW row \in Row, runs' = [runs EXCEPT ![r] = row], row.job, row.status # "absent",
         audits' \in [Runs -> Nat], \A q \in Runs : q # r => audits'[q] = audits[q],
         ReadInv(r)', AuditInv(r)',
         faults' \in 0 .. MaxFaults, outside' \in 0 .. MaxOutside,
         UNCHANGED <<proc, server, jobs, lc, worker, op, stops>>
  PROVE  IInv'
  <1>1. RunInv(r) /\ TypeOK /\ lc[r].pc = "idle"
    BY Zenon DEF IInv, RowsInv, RunInv
  <1>2. runs'[r] = row /\ runs' \in [Runs -> Row] /\ \A q \in Runs : q # r => runs'[q] = runs[q]
    BY <1>1, Zenon DEF TypeOK
  <1>3. /\ rec' \in [Runs -> [Reconcilers -> Reconciliation]]
        /\ \A q \in Runs : q # r => rec'[q] = rec[q]
    BY <1>1, RecWrite, Zenon
  <1>4. TypeOK'
    BY <1>1, <1>2, <1>3, Zenon DEF TypeOK
  <1>5. \A q \in Runs : q # r => Same(q)
    BY <1>2, <1>3, Zenon DEF Same
  <1>6. runs'[r] # NoRow
    <2>1. ~NoRow.job
      BY Zenon DEF NoRow
    <2> QED BY <1>2, <2>1, Zenon
  <1>7. RunInv(r)'
    BY <1>1, <1>2, <1>6, Zenon DEF RunInv, Jobless
  <1>8. ServerStep(r)
    <2>1. CASE Holds(r)
      <3>1. server.status = "busy" /\ server.owner = OwnerFor(r)
        BY <2>1, Zenon DEF IInv, HoldInv
      <3> QED BY <2>1, <3>1, Zenon DEF ServerStep, Holds, OwnerFor
    <2>2. CASE ~Holds(r)
      BY <2>2, Zenon DEF ServerStep, Holds
    <2> QED BY <2>1, <2>2, Zenon
  <1> QED BY <1>4, <1>5, <1>7, <1>8, StepIInv, Zenon

\* A reconciler that has written nothing: it reads the job, or goes on with
\* what it read of it.
LEMMA ReconcilerReads ==
  ASSUME IInv, NEW r \in Runs, NEW w \in Reconcilers, runs[r].job, proc # "down",
         NEW x \in Reconciliation, SetRec(r, w, x),
         x.job \in {rec[r][w].job, jobs[r], "none"}, x.pc # "accept",
         x.pc \in {"read_run", "transition", "reread"} => x.job # "none",
         x.pc = "reread" => runs[r].status \in TerminalRun,
         faults' \in 0 .. MaxFaults, outside' \in 0 .. MaxOutside,
         UNCHANGED <<runs, audits, proc, server, jobs, lc, worker, op, stops>>
  PROVE  IInv'
  <1>1. ReadInv(r) /\ AuditInv(r) /\ TypeOK /\ runs[r] \in Row /\ runs[r].status # "absent"
    BY Zenon DEF IInv, RowsInv, TypeOK, RunInv
  <1>2. rec'[r][w] = x /\ \A v \in Reconcilers : v # w => rec'[r][v] = rec[r][v]
    BY <1>1, RecWrite, Zenon
  <1>3. runs' = [runs EXCEPT ![r] = runs[r]] /\ audits' \in [Runs -> Nat] /\ audits' = audits
    BY <1>1, Zenon DEF TypeOK
  <1>4. ReadInv(r)'
    <2>1. "none" \notin TerminalJob
      BY Zenon DEF TerminalJob
    <2>2. ASSUME NEW v \in Reconcilers
          PROVE  /\ rec'[r][v].job \in TerminalJob => jobs[r] = rec'[r][v].job
                 /\ rec'[r][v].pc \in {"read_run", "transition", "reread", "accept"} => rec'[r][v].job # "none"
                 /\ rec'[r][v].pc = "reread" => runs[r].status \in TerminalRun
      <3>1. CASE v = w
        <4>1. rec[r][w].job \in TerminalJob => jobs[r] = rec[r][w].job
          BY <1>1, Zenon DEF ReadInv
        <4> QED BY <1>2, <2>1, <3>1, <4>1, Zenon
      <3>2. CASE v # w
        BY <1>1, <1>2, <3>2, Zenon DEF ReadInv
      <3> QED BY <3>1, <3>2, Zenon
    <2> QED BY <1>1, <2>2, Zenon DEF ReadInv
  <1>5. AuditInv(r)'
    <2>1. \A v \in Reconcilers : Claims(r, v)' => Claims(r, v)
      BY <1>2, Zenon DEF Claims
    <2> QED BY <1>1, <2>1, Zenon DEF AuditInv
  <1> QED BY <1>1, <1>3, <1>4, <1>5, ReconcilerMoves, Zenon

\* Where Step, Return and ReturnError leave the reconciler's record.
LEMMA StepRecord ==
  ASSUME TypeOK, NEW r \in Runs, NEW w \in Reconcilers,
         NEW pc \in {"read_job", "read_run", "transition", "reread", "accept", "fail"}, Step(r, w, pc)
  PROVE  \E x \in Reconciliation : /\ SetRec(r, w, x) /\ x.pc = pc /\ x.job = rec[r][w].job
                                   /\ x.claimed = rec[r][w].claimed
  <1> DEFINE x == [rec[r][w] EXCEPT !.pc = pc]
  <1>1. rec[r][w] \in Reconciliation
    BY Zenon DEF TypeOK
  <1>2. x \in Reconciliation /\ x.pc = pc /\ x.job = rec[r][w].job /\ x.claimed = rec[r][w].claimed
    BY <1>1, Zenon DEF Reconciliation
  <1>3. SetRec(r, w, x)
    BY Zenon DEF Step, SetRec
  <1> QED BY <1>2, <1>3, Zenon

LEMMA ReturnRecord ==
  ASSUME TypeOK, NEW r \in Runs, NEW w \in Reconcilers, Return(r, w) \/ ReturnError(r, w)
  PROVE  \E x \in Reconciliation : /\ SetRec(r, w, x) /\ x.pc \in {"off", "read_job", "fail"}
                                   /\ x.job \in {rec[r][w].job, "none"}
  <1>1. SetRec(r, w, Off) \/ Step(r, w, "read_job") \/ Step(r, w, "fail")
    BY Zenon DEF Return, ReturnError, SetRec
  <1>2. CASE SetRec(r, w, Off)
    BY <1>2, OffFacts, Zenon
  <1>3. CASE Step(r, w, "read_job")
    BY <1>3, StepRecord
  <1>4. CASE Step(r, w, "fail")
    BY <1>4, StepRecord
  <1> QED BY <1>1, <1>2, <1>3, <1>4, Zenon

\* A reconciliation that is over, or that failed, and wrote nothing now.
LEMMA ReconcilerReturns ==
  ASSUME IInv, NEW r \in Runs, NEW w \in Reconcilers, rec[r][w].pc # "off",
         Return(r, w) \/ ReturnError(r, w), NoFault \/ Fault,
         UNCHANGED <<runs, audits, proc, server, jobs, lc, worker, op, outside, stops>>
  PROVE  IInv'
  <1>1. proc # "down" /\ runs[r].job /\ TypeOK
    BY Reconciling, Zenon
  <1>2. PICK x \in Reconciliation : /\ SetRec(r, w, x) /\ x.pc \in {"off", "read_job", "fail"}
                                    /\ x.job \in {rec[r][w].job, "none"}
    BY <1>1, ReturnRecord, Zenon
  <1>3. faults' \in 0 .. MaxFaults /\ outside' \in 0 .. MaxOutside
    <2>1. faults \in 0 .. MaxFaults /\ outside \in 0 .. MaxOutside
      BY <1>1, Zenon DEF TypeOK
    <2> QED BY <2>1, RunsAssumption DEF NoFault, Fault
  <1> QED BY <1>1, <1>2, <1>3, ReconcilerReads, Zenon

LEMMA GateReconcilesIInv ==
  ASSUME IInv, NEW r \in Runs, GateReconciles(r)
  PROVE  IInv'
  <1>1. /\ proc # "down" /\ runs[r].job /\ TypeOK /\ "gate" \in Reconcilers
        /\ Step(r, "gate", "read_job") /\ outside < MaxOutside /\ outside' = outside + 1
        /\ UNCHANGED <<runs, audits, proc, server, jobs, lc, worker, op, stops, faults>>
    BY Zenon DEF GateReconciles, IInv, Reconcilers
  <1>2. PICK x \in Reconciliation : SetRec(r, "gate", x) /\ x.pc = "read_job" /\ x.job = rec[r]["gate"].job
    BY <1>1, StepRecord
  <1>3. faults' \in 0 .. MaxFaults /\ outside' \in 0 .. MaxOutside
    BY <1>1, RunsAssumption DEF TypeOK
  <1> QED BY <1>1, <1>2, <1>3, ReconcilerReads, Zenon

LEMMA ReadJobIInv ==
  ASSUME IInv, NEW r \in Runs, NEW w \in Reconcilers, ReadJob(r, w)
  PROVE  IInv'
  <1>1. /\ rec[r][w].pc = "read_job" /\ (NoFault \/ Fault)
        /\ UNCHANGED <<runs, audits, proc, server, jobs, lc, worker, op, outside, stops>>
    BY Zenon DEF ReadJob, At
  <1>2. proc # "down" /\ runs[r].job /\ RunInv(r) /\ TypeOK
    BY <1>1, Reconciling, Zenon
  <1>3. CASE ReturnError(r, w)
    BY <1>1, <1>3, ReconcilerReturns, Zenon
  <1>4. CASE rec' = [rec EXCEPT ![r][w] = [pc |-> "read_run", job |-> jobs[r], claimed |-> FALSE]] /\ NoFault
    <2> DEFINE x == [pc |-> "read_run", job |-> jobs[r], claimed |-> FALSE]
    <2>1. jobs[r] \in ActiveJob \cup TerminalJob \cup {"none"} /\ jobs[r] # "none"
      BY <1>2, Zenon DEF TypeOK, RunInv
    <2>2. x \in Reconciliation /\ x.pc = "read_run" /\ x.job = jobs[r]
      BY <2>1, Zenon DEF Reconciliation
    <2>3. SetRec(r, w, x)
      BY <1>4, Zenon DEF SetRec
    <2>4. faults' \in 0 .. MaxFaults /\ outside' \in 0 .. MaxOutside
      BY <1>1, <1>2, <1>4, Zenon DEF TypeOK, NoFault
    <2> HIDE DEF x
    <2> QED BY <1>1, <1>2, <2>1, <2>2, <2>3, <2>4, ReconcilerReads, Zenon
  <1> QED BY <1>3, <1>4, Zenon DEF ReadJob

LEMMA ReadRunIInv ==
  ASSUME IInv, NEW r \in Runs, NEW w \in Reconcilers, ReadRun(r, w)
  PROVE  IInv'
  <1>1. /\ rec[r][w].pc = "read_run" /\ (NoFault \/ Fault)
        /\ UNCHANGED <<runs, audits, proc, server, jobs, lc, worker, op, outside, stops>>
    BY Zenon DEF ReadRun, At
  <1>2. proc # "down" /\ runs[r].job /\ ReadInv(r) /\ TypeOK
    BY <1>1, Reconciling, Zenon
  <1>3. CASE Return(r, w) \/ ReturnError(r, w)
    BY <1>1, <1>3, ReconcilerReturns, Zenon
  <1>4. CASE Step(r, w, "transition") /\ NoFault
    <2>1. PICK x \in Reconciliation : SetRec(r, w, x) /\ x.pc = "transition" /\ x.job = rec[r][w].job
      BY <1>2, <1>4, StepRecord
    <2>2. rec[r][w].job # "none"
      BY <1>1, <1>2, Zenon DEF ReadInv
    <2>3. faults' \in 0 .. MaxFaults /\ outside' \in 0 .. MaxOutside
      BY <1>1, <1>2, <1>4, Zenon DEF TypeOK, NoFault
    <2> QED BY <1>1, <1>2, <2>1, <2>2, <2>3, ReconcilerReads, Zenon
  <1> QED BY <1>3, <1>4, Zenon DEF ReadRun

\* A refused transition is read again only on a row that ended.
LEMMA RereadIInv ==
  ASSUME IInv, NEW r \in Runs, NEW w \in Reconcilers, Reread(r, w)
  PROVE  IInv' /\ UNCHANGED runs
  <1>1. /\ rec[r][w].pc = "reread" /\ (NoFault \/ Fault)
        /\ UNCHANGED <<audits, proc, server, jobs, lc, worker, op, outside, stops>>
    BY Zenon DEF Reread, At
  <1>2. runs[r].status \in TerminalRun
    BY <1>1, Reconciling, Zenon DEF ReadInv
  <1>3. (Return(r, w) \/ ReturnError(r, w)) /\ UNCHANGED runs
    BY <1>2, Zenon DEF Reread
  <1> QED BY <1>1, <1>3, ReconcilerReturns, Zenon

LEMMA WatchCancelledIInv ==
  ASSUME IInv, NEW r \in Runs, WatchCancelled(r)
  PROVE  IInv'
  <1>1. /\ rec[r]["watch"].pc = "read_job" /\ "watch" \in Reconcilers /\ SetRec(r, "watch", Off)
        /\ UNCHANGED <<runs, audits, proc, server, jobs, lc, worker, op, faults, outside, stops>>
    BY Zenon DEF WatchCancelled, At, SetRec, Reconcilers
  <1>2. proc # "down" /\ runs[r].job /\ TypeOK
    BY <1>1, Reconciling, Zenon
  <1>3. faults' \in 0 .. MaxFaults /\ outside' \in 0 .. MaxOutside
    BY <1>1, <1>2, Zenon DEF TypeOK
  <1> QED BY <1>1, <1>2, <1>3, OffFacts, ReconcilerReads, Zenon

\* An open row was not audited, and nobody is about to audit its end.
LEMMA OpenRow ==
  ASSUME NEW r \in Runs, AuditInv(r), Open(runs[r])
  PROVE  audits[r] = 0 /\ \A w \in Reconcilers : ~Claims(r, w)
  <1>1. ~Closed(runs[r])
    BY Zenon DEF Open, Closed, ActiveRun, TerminalRun
  <1> QED BY <1>1, Zenon DEF AuditInv

LEMMA ProjectedFacts ==
  ASSUME NEW job \in ActiveJob \cup TerminalJob
  PROVE  /\ Projected(job) \in Row /\ Projected(job).status = job /\ Projected(job).job
         /\ Projected(job).reason \in {"", "job"}
         /\ job \in TerminalJob => Closed(Projected(job)) /\ job \in TerminalRun
         /\ job \in ActiveJob => job \in ActiveRun /\ job \notin TerminalRun
  <1> DEFINE reason == IF job \in {"failed", "cancelled", "interrupted"} THEN "job" ELSE ""
  <1>1. reason \in {"", "job"} /\ Projected(job) = [status |-> job, reason |-> reason, job |-> TRUE]
    BY Zenon DEF Projected
  <1>2. job \in ActiveRun \cup TerminalRun
    BY Zenon DEF ActiveJob, TerminalJob, ActiveRun, TerminalRun
  <1> HIDE DEF reason
  <1> DEFINE row == [status |-> job, reason |-> reason, job |-> TRUE]
  <1>3. /\ Projected(job) \in Row /\ Projected(job).status = job /\ Projected(job).job
        /\ Projected(job).reason = reason
    <2>1. row \in Row /\ row.status = job /\ row.job /\ row.reason = reason
      BY <1>1, <1>2, Zenon DEF Row, Reasons
    <2>2. Projected(job) = row
      BY <1>1, Zenon
    <2> HIDE DEF row
    <2> QED BY <2>1, <2>2, Zenon
  <1>4. job \in TerminalJob => job \in TerminalRun
    BY Zenon DEF TerminalJob, TerminalRun
  <1>5. job \in TerminalJob => Closed(Projected(job))
    BY <1>1, <1>3, <1>4, Zenon DEF Closed, RestartInterrupted
  <1>6. job \in ActiveJob => job \in ActiveRun /\ job \notin TerminalRun
    BY Zenon DEF ActiveJob, ActiveRun, TerminalRun
  <1> QED BY <1>1, <1>3, <1>4, <1>5, <1>6, Zenon

\* Where an accepted transition leaves the reconciler's record.
LEMMA ClaimRecord ==
  ASSUME TypeOK, NEW r \in Runs, NEW w \in Reconcilers,
         rec' = [rec EXCEPT ![r][w].pc = "accept", ![r][w].claimed = rec[r][w].job \in TerminalJob]
  PROVE  \E x \in Reconciliation : /\ SetRec(r, w, x) /\ x.pc = "accept" /\ x.job = rec[r][w].job
                                   /\ x.claimed <=> rec[r][w].job \in TerminalJob
  <1> DEFINE ended == rec[r][w].job \in TerminalJob
             x == [rec[r][w] EXCEPT !.pc = "accept", !.claimed = ended]
  <1>1. SetRec(r, w, x)
    BY Zenon DEF SetRec, TypeOK
  <1>2. ended \in BOOLEAN /\ rec[r][w] \in Reconciliation
    BY DEF TypeOK
  <1> HIDE DEF ended
  <1>3. x \in Reconciliation /\ x.pc = "accept" /\ x.job = rec[r][w].job /\ x.claimed = ended
    BY <1>2, Zenon DEF Reconciliation
  <1> HIDE DEF x
  <1> QED BY <1>1, <1>2, <1>3, Zenon DEF ended

\* The row was open, so the reconciler that ends it is the only one to claim
\* its end; what it read of the job was the job's only end.
LEMMA ProjectIInv ==
  ASSUME IInv, NEW r \in Runs, NEW w \in Reconcilers, rec[r][w].pc = "transition",
         AcceptsTransition(runs[r], rec[r][w].job),
         runs' = [runs EXCEPT ![r] = Projected(rec[r][w].job)],
         NEW x \in Reconciliation, SetRec(r, w, x), x.pc = "accept",
         x.job = rec[r][w].job, x.claimed <=> rec[r][w].job \in TerminalJob,
         NoFault, UNCHANGED <<proc, server, jobs, lc, worker, op, audits, outside, stops>>
  PROVE  IInv'
  <1>1. /\ proc # "down" /\ runs[r].job /\ rec[r][w] \in Reconciliation
        /\ ReadInv(r) /\ AuditInv(r) /\ TypeOK
    BY Reconciling, Zenon
  <1> DEFINE job == rec[r][w].job
             row == Projected(job)
  <1>2. job \in ActiveJob \cup TerminalJob
    BY <1>1, Zenon DEF ReadInv, Reconciliation
  <1>3. /\ row \in Row /\ row.status = job /\ row.job
        /\ job \in TerminalJob => Closed(row) /\ job \in TerminalRun
        /\ job \in ActiveJob => job \in ActiveRun /\ job \notin TerminalRun
        /\ row.status # "absent"
    BY <1>2, ProjectedFacts, Zenon DEF ActiveJob, TerminalJob
  <1>4. /\ x.pc = "accept" /\ x.job = job /\ (x.claimed <=> job \in TerminalJob)
    BY Zenon
  <1> HIDE DEF row
  <1>5. rec'[r][w] = x /\ \A v \in Reconcilers : v # w => rec'[r][v] = rec[r][v]
    BY <1>1, <1>4, RecWrite, ZenonT(40)
  <1>6. runs' = [runs EXCEPT ![r] = row] /\ runs'[r] = row
    BY <1>1, Zenon DEF row, TypeOK
  <1>7. Open(runs[r]) /\ (job \notin TerminalJob => runs[r].status \in ActiveRun)
    BY Zenon DEF AcceptsTransition, Open
  <1>8. audits'[r] = 0 /\ \A v \in Reconcilers : ~Claims(r, v)
    BY <1>1, <1>7, OpenRow, Zenon
  <1>9. ReadInv(r)'
    <2>1. job \in TerminalJob => jobs[r] = job
      BY <1>1, Zenon DEF ReadInv
    <2>2. runs'[r].status \in TerminalRun => jobs'[r] = runs'[r].status
      BY <1>2, <1>3, <1>6, <2>1, Zenon
    <2>3. ASSUME NEW v \in Reconcilers
          PROVE  /\ rec'[r][v].job \in TerminalJob => jobs'[r] = rec'[r][v].job
                 /\ rec'[r][v].pc \in {"read_run", "transition", "reread", "accept"} => rec'[r][v].job # "none"
                 /\ rec'[r][v].pc = "reread" => runs'[r].status \in TerminalRun
      <3>1. CASE v = w
        <4>1. job # "none"
          BY <1>2, Zenon DEF ActiveJob, TerminalJob
        <4> QED BY <1>4, <1>5, <2>1, <3>1, <4>1, Zenon
      <3>2. CASE v # w
        <4>1. /\ rec[r][v].job \in TerminalJob => jobs[r] = rec[r][v].job
              /\ rec[r][v].pc \in {"read_run", "transition", "reread", "accept"} => rec[r][v].job # "none"
              /\ rec[r][v].pc = "reread" => runs[r].status \in TerminalRun
          BY <1>1, Zenon DEF ReadInv
        <4>2. runs[r].status \in TerminalRun => job \in TerminalJob
          BY <1>7, Zenon DEF ActiveRun, TerminalRun
        <4> QED BY <1>3, <1>5, <1>6, <3>2, <4>1, <4>2, Zenon
      <3> QED BY <3>1, <3>2, Zenon
    <2> QED BY <2>2, <2>3, Zenon DEF ReadInv
  <1>10. AuditInv(r)'
    <2>1. ASSUME NEW v \in Reconcilers, Claims(r, v)' PROVE v = w /\ Closed(runs'[r])
      <3>1. v = w
        BY <1>5, <1>8, <2>1, Zenon DEF Claims
      <3>2. x.claimed
        BY <1>5, <2>1, <3>1, Zenon DEF Claims
      <3> QED BY <1>3, <1>4, <1>6, <3>1, <3>2, Zenon
    <2> QED BY <1>8, <2>1, Zenon DEF AuditInv
  <1>11. /\ audits' \in [Runs -> Nat] /\ (\A q \in Runs : q # r => audits'[q] = audits[q])
         /\ faults' \in 0 .. MaxFaults /\ outside' \in 0 .. MaxOutside
    BY <1>1, Zenon DEF TypeOK, NoFault
  <1> QED BY <1>1, <1>3, <1>4, <1>5, <1>6, <1>9, <1>10, <1>11, ReconcilerMoves, Zenon

LEMMA TransitionRunIInv ==
  ASSUME IInv, NEW r \in Runs, NEW w \in Reconcilers, TransitionRun(r, w)
  PROVE  IInv'
  <1>1. /\ rec[r][w].pc = "transition" /\ (NoFault \/ Fault)
        /\ UNCHANGED <<proc, server, jobs, lc, worker, op, audits, outside, stops>>
    BY Zenon DEF TransitionRun, At
  <1>2. /\ proc # "down" /\ runs[r].job /\ ReadInv(r) /\ TypeOK /\ runs[r] \in Row
        /\ runs[r].status # "absent"
    BY <1>1, Reconciling, Zenon DEF TypeOK
  <1>3. CASE ReturnError(r, w) /\ UNCHANGED runs
    BY <1>1, <1>3, ReconcilerReturns, Zenon
  <1>4. CASE NoFault /\ ~AcceptsTransition(runs[r], rec[r][w].job) /\ Step(r, w, "reread") /\ UNCHANGED runs
    <2>1. PICK x \in Reconciliation : SetRec(r, w, x) /\ x.pc = "reread" /\ x.job = rec[r][w].job
      BY <1>2, <1>4, StepRecord
    <2>2. rec[r][w].job # "none"
      BY <1>1, <1>2, Zenon DEF ReadInv
    <2>3. runs[r].status \in TerminalRun
      <3>1. runs[r].status \notin ActiveRun
        BY <1>4, Zenon DEF AcceptsTransition, Open
      <3> QED BY <1>2, <3>1, Zenon DEF Row
    <2>4. faults' \in 0 .. MaxFaults /\ outside' \in 0 .. MaxOutside
      BY <1>1, <1>2, <1>4, Zenon DEF TypeOK, NoFault
    <2> QED BY <1>1, <1>2, <1>4, <2>1, <2>2, <2>3, <2>4, ReconcilerReads, Zenon
  <1>5. CASE /\ NoFault /\ AcceptsTransition(runs[r], rec[r][w].job)
             /\ runs' = [runs EXCEPT ![r] = Projected(rec[r][w].job)]
             /\ rec' = [rec EXCEPT ![r][w].pc = "accept", ![r][w].claimed = rec[r][w].job \in TerminalJob]
    <2>1. PICK x \in Reconciliation : /\ SetRec(r, w, x) /\ x.pc = "accept" /\ x.job = rec[r][w].job
                                      /\ x.claimed <=> rec[r][w].job \in TerminalJob
      BY <1>2, <1>5, ClaimRecord, Zenon
    <2>2. /\ NoFault /\ AcceptsTransition(runs[r], rec[r][w].job)
          /\ runs' = [runs EXCEPT ![r] = Projected(rec[r][w].job)]
      BY <1>5, Zenon
    <2> QED BY <1>1, <2>1, <2>2, ProjectIInv, Zenon
  <1> QED BY <1>3, <1>4, <1>5, Zenon DEF TransitionRun

\* The end is audited by the reconciler that claimed it, and by it alone.
LEMMA AcceptIInv ==
  ASSUME IInv, NEW r \in Runs, NEW w \in Reconcilers, Accept(r, w)
  PROVE  IInv'
  <1>1. /\ rec[r][w].pc = "accept" /\ (NoFault \/ Fault)
        /\ UNCHANGED <<runs, proc, server, jobs, lc, worker, op, outside, stops>>
    BY Zenon DEF Accept, At
  <1>2. /\ proc # "down" /\ runs[r].job /\ runs[r].status # "absent" /\ runs[r] \in Row
        /\ ReadInv(r) /\ AuditInv(r) /\ TypeOK
    BY <1>1, Reconciling, Zenon DEF TypeOK
  <1>3. CASE ReturnError(r, w) /\ UNCHANGED audits
    BY <1>1, <1>3, ReconcilerReturns, Zenon
  <1>4. CASE /\ audits' = [audits EXCEPT ![r] = @ + (IF rec[r][w].claimed THEN 1 ELSE 0)]
             /\ NoFault /\ Return(r, w)
    <2>1. PICK x \in Reconciliation : /\ SetRec(r, w, x) /\ x.pc \in {"off", "read_job", "fail"}
                                      /\ x.job \in {rec[r][w].job, "none"}
      BY <1>2, <1>4, ReturnRecord, Zenon
    <2>2. rec'[r][w] = x /\ \A v \in Reconcilers : v # w => rec'[r][v] = rec[r][v]
      BY <1>2, <2>1, RecWrite, ZenonT(40)
    <2>3. ReadInv(r)'
      <3>1. "none" \notin TerminalJob
        BY Zenon DEF TerminalJob
      <3>2. ASSUME NEW v \in Reconcilers
            PROVE  /\ rec'[r][v].job \in TerminalJob => jobs[r] = rec'[r][v].job
                   /\ rec'[r][v].pc \in {"read_run", "transition", "reread", "accept"} => rec'[r][v].job # "none"
                   /\ rec'[r][v].pc = "reread" => runs[r].status \in TerminalRun
        <4>1. CASE v = w
          <5>1. rec[r][w].job \in TerminalJob => jobs[r] = rec[r][w].job
            BY <1>2, Zenon DEF ReadInv
          <5> QED BY <2>1, <2>2, <3>1, <4>1, <5>1, Zenon
        <4>2. CASE v # w
          BY <1>2, <2>2, <4>2, Zenon DEF ReadInv
        <4> QED BY <4>1, <4>2, Zenon
      <3> QED BY <1>1, <1>2, <3>2, Zenon DEF ReadInv
    <2>4. \A v \in Reconcilers : Claims(r, v)' => Claims(r, v) /\ v # w
      BY <2>1, <2>2, Zenon DEF Claims
    <2>5. audits \in [Runs -> Nat] /\ audits[r] \in {0, 1}
      BY <1>2, Zenon DEF TypeOK, AuditInv
    <2>6. /\ audits' \in [Runs -> Nat] /\ \A q \in Runs : q # r => audits'[q] = audits[q]
          /\ audits'[r] = audits[r] + (IF rec[r][w].claimed THEN 1 ELSE 0)
      BY <1>4, <2>5
    <2>7. AuditInv(r)'
      <3>1. CASE rec[r][w].claimed
        <4>1. Claims(r, w)
          BY <1>1, <3>1, Zenon DEF Claims
        <4>2. /\ audits[r] = 0 /\ Closed(runs[r])
              /\ \A v \in Reconcilers : Claims(r, v) => v = w
          BY <1>2, <4>1, Zenon DEF AuditInv
        <4>3. audits'[r] \in {0, 1}
          BY <2>6, <3>1, <4>2
        <4>4. \A v \in Reconcilers : ~Claims(r, v)'
          BY <2>4, <4>2, Zenon
        <4>5. runs' = runs
          BY <1>1, Zenon
        <4> QED BY <4>2, <4>3, <4>4, <4>5, Zenon DEF AuditInv
      <3>2. CASE ~rec[r][w].claimed
        <4>1. audits'[r] = audits[r]
          BY <2>5, <2>6, <3>2
        <4>2. runs' = runs
          BY <1>1, Zenon
        <4> QED BY <1>2, <2>4, <4>1, <4>2, Zenon DEF AuditInv
      <3> QED BY <3>1, <3>2, Zenon
    <2>8. /\ faults' \in 0 .. MaxFaults /\ outside' \in 0 .. MaxOutside
          /\ runs' = [runs EXCEPT ![r] = runs[r]]
      BY <1>1, <1>2, <1>4, Zenon DEF TypeOK, NoFault
    <2>9. UNCHANGED <<proc, server, jobs, lc, worker, op, stops>>
      BY <1>1, Zenon
    <2> QED BY <1>2, <2>1, <2>3, <2>6, <2>7, <2>8, <2>9, ReconcilerMoves, Zenon
  <1> QED BY <1>3, <1>4, Zenon DEF Accept

LEMMA PersistReconciliationFailureIInv ==
  ASSUME IInv, NEW r \in Runs, PersistReconciliationFailure(r)
  PROVE  IInv'
  <1>1. /\ rec[r]["watch"].pc = "fail" /\ "watch" \in Reconcilers /\ SetRec(r, "watch", Off)
        /\ UNCHANGED <<audits, proc, server, jobs, lc, worker, op, outside, stops>>
    BY Zenon DEF PersistReconciliationFailure, At, SetRec, Reconcilers
  <1>2. proc # "down" /\ runs[r].job /\ TypeOK /\ ReadInv(r) /\ AuditInv(r)
    BY <1>1, Reconciling, Zenon
  <1>3. faults' \in 0 .. MaxFaults /\ outside' \in 0 .. MaxOutside
    <2>1. /\ faults \in 0 .. MaxFaults /\ outside \in 0 .. MaxOutside /\ outside' = outside
          /\ NoFault \/ Fault
      BY <1>1, <1>2, Zenon DEF TypeOK, PersistReconciliationFailure, UpdateRun
    <2> QED BY <2>1, RunsAssumption DEF NoFault, Fault
  <1>4. CASE UNCHANGED runs
    BY <1>1, <1>2, <1>3, <1>4, OffFacts, ReconcilerReads, Zenon
  <1>5. CASE Open(runs[r]) /\ SetRow(r, "interrupted", "persistence", TRUE)
    <2> DEFINE row == [status |-> "interrupted", reason |-> "persistence", job |-> TRUE]
    <2>1. /\ row \in Row /\ row.status = "interrupted" /\ row.reason = "persistence" /\ row.job
          /\ row.status \in TerminalRun
      BY Zenon DEF Row, Reasons, TerminalRun
    <2>2. runs' = [runs EXCEPT ![r] = row] /\ runs'[r] = row
      BY <1>2, <1>5, Zenon DEF SetRow, TypeOK
    <2> HIDE DEF row
    <2>3. rec'[r]["watch"] = Off /\ \A v \in Reconcilers : v # "watch" => rec'[r][v] = rec[r][v]
      BY <1>1, <1>2, OffFacts, RecWrite, ZenonT(40)
    <2>4. audits[r] = 0 /\ \A v \in Reconcilers : ~Claims(r, v)
      BY <1>2, <1>5, OpenRow, Zenon
    <2>5. ReadInv(r)'
      <3>1. "none" \notin TerminalJob
        BY Zenon DEF TerminalJob
      <3>2. ASSUME NEW v \in Reconcilers
            PROVE  /\ rec'[r][v].job \in TerminalJob => jobs'[r] = rec'[r][v].job
                   /\ rec'[r][v].pc \in {"read_run", "transition", "reread", "accept"} => rec'[r][v].job # "none"
                   /\ rec'[r][v].pc = "reread" => runs'[r].status \in TerminalRun
        <4>1. CASE v = "watch"
          BY <2>3, <3>1, <4>1, OffFacts, Zenon
        <4>2. CASE v # "watch"
          BY <1>1, <1>2, <2>1, <2>2, <2>3, <4>2, Zenon DEF ReadInv
        <4> QED BY <4>1, <4>2, Zenon
      <3> QED BY <2>1, <2>2, <3>2, Zenon DEF ReadInv
    <2>6. AuditInv(r)'
      <3>1. \A v \in Reconcilers : ~Claims(r, v)'
        BY <2>3, <2>4, OffFacts, Zenon DEF Claims
      <3>2. audits'[r] = 0
        BY <1>1, <2>4, Zenon
      <3> QED BY <3>1, <3>2, Zenon DEF AuditInv
    <2>7. audits' \in [Runs -> Nat] /\ \A q \in Runs : q # r => audits'[q] = audits[q]
      BY <1>1, <1>2, Zenon DEF TypeOK
    <2> QED BY <1>1, <1>2, <1>3, <2>1, <2>2, <2>5, <2>6, <2>7, OffFacts, ReconcilerMoves, Zenon
  <1> QED BY <1>4, <1>5, Zenon DEF PersistReconciliationFailure, UpdateRun

-----------------------------------------------------------------------------
(* The operator and the process                                             *)

\* An operator is admitted on a server nobody has.
LEMMA OperatorBeginsIInv ==
  ASSUME IInv, OperatorBegins
  PROVE  IInv'
  <1>1. /\ proc = "up" /\ ~Busy /\ outside < MaxOutside /\ outside' = outside + 1
        /\ server' = Begun("operator") /\ op' = server.gen + 1
        /\ UNCHANGED <<runs, proc, jobs, lc, worker, rec, audits, faults, stops>>
    BY Zenon DEF OperatorBegins, Admits
  <1>2. TypeOK /\ RowsInv /\ HoldInv
    BY Zenon DEF IInv
  <1>3. server.gen \in Nat /\ outside \in 0 .. MaxOutside
    BY <1>2, Zenon DEF TypeOK, Server
  <1>4. \A r \in Runs : ~Holds(r)
    BY <1>1, <1>2, Zenon DEF HoldInv, Busy
  <1>5. HoldInv'
    BY <1>1, <1>4, Zenon DEF HoldInv, Holds
  <1>6. server' \in Server /\ server'.owner = "operator" /\ server'.gen = server.gen + 1 /\ server'.status = "busy"
    BY <1>1, <1>3 DEF Begun, Server
  <1>7. op' \in Nat /\ outside' \in 0 .. MaxOutside
    BY <1>1, <1>3, RunsAssumption
  <1>8. TypeOK'
    BY <1>1, <1>2, <1>6, <1>7, Zenon DEF TypeOK
  <1>9. RowsInv'
    BY <1>1, <1>2, RowsKept, Zenon
  <1>10. DownInv' /\ AdmissionIsKept'
    BY <1>1, <1>6, Zenon DEF DownInv, AdmissionIsKept
  <1> QED BY <1>5, <1>8, <1>9, <1>10, Zenon DEF IInv

LEMMA OperatorEndsIInv ==
  ASSUME IInv, OperatorEnds
  PROVE  IInv'
  <1>1. /\ op # 0 /\ op' = 0
        /\ UNCHANGED <<runs, proc, jobs, lc, worker, rec, audits, faults, outside, stops>>
    BY Zenon DEF OperatorEnds
  <1>2. TypeOK /\ RowsInv /\ HoldInv /\ DownInv
    BY Zenon DEF IInv
  <1>3. \A r \in Runs : ~Holds(r)
    BY <1>1, <1>2, Zenon DEF HoldInv
  <1>4. HoldInv'
    BY <1>1, <1>3, Zenon DEF HoldInv, Holds
  <1>5. server' \in Server
    <2>1. server \in Server
      BY <1>2, Zenon DEF TypeOK
    <2> QED BY <2>1, Zenon DEF OperatorEnds, Server
  <1>6. TypeOK'
    BY <1>1, <1>2, <1>5, Zenon DEF TypeOK
  <1>7. RowsInv'
    BY <1>1, <1>2, RowsKept, Zenon
  <1>8. DownInv' /\ AdmissionIsKept'
    BY <1>1, <1>2, Zenon DEF DownInv, AdmissionIsKept
  <1> QED BY <1>4, <1>6, <1>7, <1>8, Zenon DEF IInv

LEMMA ShutdownIInv ==
  ASSUME IInv, Shutdown
  PROVE  IInv'
  <1>1. /\ proc' = "stopping" /\ stops < MaxStops /\ stops' = stops + 1
        /\ UNCHANGED <<runs, server, jobs, lc, worker, rec, op, audits, faults, outside>>
    BY Zenon DEF Shutdown
  <1>2. TypeOK /\ RowsInv /\ HoldInv /\ AdmissionIsKept
    BY Zenon DEF IInv
  <1>3. TypeOK'
    BY <1>1, <1>2, RunsAssumption DEF TypeOK
  <1>4. RowsInv'
    BY <1>1, <1>2, RowsKept, Zenon
  <1>5. HoldInv'
    BY <1>1, <1>2, ZenonT(40) DEF HoldInv, Holds, OwnerFor
  <1>6. DownInv' /\ AdmissionIsKept'
    BY <1>1, <1>2, Zenon DEF DownInv, AdmissionIsKept
  <1> QED BY <1>3, <1>4, <1>5, <1>6, Zenon DEF IInv

\* Nothing in memory survives the end of the process; rows, jobs and audits do.
LEMMA ExitIInv ==
  ASSUME IInv, Exit, stops' \in 0 .. MaxStops
  PROVE  IInv'
  <1>1. TypeOK /\ RowsInv
    BY Zenon DEF IInv
  <1>2. /\ proc' = "down" /\ server' = IdleServer /\ op' = 0
        /\ UNCHANGED <<runs, jobs, audits, faults, outside>>
        /\ \A r \in Runs : /\ lc'[r] = NoCall /\ worker'[r] = "none"
                           /\ \A w \in Reconcilers : rec'[r][w] = Off
    BY Zenon DEF Exit
  <1>3. /\ lc' \in [Runs -> Call] /\ worker' \in [Runs -> Workers]
        /\ rec' \in [Runs -> [Reconcilers -> Reconciliation]]
    BY NoCallFacts, OffFacts, Zenon DEF Exit, Workers
  <1>4. IdleServer \in Server
    BY Zenon DEF IdleServer, Server
  <1>5. TypeOK'
    BY <1>1, <1>2, <1>3, <1>4, Zenon DEF TypeOK
  <1>6. ASSUME NEW r \in Runs PROVE RunInv(r)' /\ ReadInv(r)' /\ AuditInv(r)'
    <2>1. RunInv(r) /\ ReadInv(r) /\ AuditInv(r)
      BY <1>1, Zenon DEF RowsInv
    <2>2. RunInv(r)'
      BY <1>2, <2>1, NoCallFacts, Zenon DEF RunInv, Jobless
    <2>3. ReadInv(r)'
      BY <1>2, <2>1, OffFacts, Zenon DEF ReadInv, TerminalJob
    <2>4. \A w \in Reconcilers : ~Claims(r, w)'
      BY <1>2, OffFacts, Zenon DEF Claims
    <2>5. AuditInv(r)'
      BY <1>2, <2>1, <2>4, Zenon DEF AuditInv
    <2> QED BY <2>2, <2>3, <2>5, Zenon
  <1>7. \A r \in Runs : ~Holds(r)'
    BY <1>2, NoCallFacts, Zenon DEF Holds
  <1>8. DownInv'
    BY <1>2, NoCallFacts, OffFacts, Zenon DEF DownInv
  <1> QED BY <1>2, <1>5, <1>6, <1>7, <1>8, Zenon DEF IInv, RowsInv, HoldInv, AdmissionIsKept

LEMMA InterruptedFacts ==
  ASSUME NEW row \in Row
  PROVE  /\ Interrupted(row) \in Row /\ Interrupted(row).job = row.job
         /\ row.status \notin ActiveRun => Interrupted(row) = row
         /\ row.status \in ActiveRun => /\ Interrupted(row).status = "interrupted"
                                        /\ Interrupted(row).reason = "restart"
  <1> DEFINE other == [row EXCEPT !.status = "interrupted", !.reason = "restart"]
  <1>1. /\ other \in Row /\ other.job = row.job
        /\ other.status = "interrupted" /\ other.reason = "restart"
    BY Zenon DEF Row, Reasons, TerminalRun
  <1>2. Interrupted(row) = IF row.status \in ActiveRun THEN other ELSE row
    BY Zenon DEF Interrupted
  <1> HIDE DEF other
  <1> QED BY <1>1, <1>2, Zenon

\* The jobs are recovered, the rows perhaps: a row that ended keeps its end and
\* a job that ended keeps its own.
LEMMA RestartIInv ==
  ASSUME IInv, Restart
  PROVE  IInv'
  <1>1. TypeOK /\ RowsInv /\ DownInv
    BY Zenon DEF IInv
  <1>2. /\ proc = "down" /\ proc' = "up" /\ (NoFault \/ Fault)
        /\ UNCHANGED <<server, lc, worker, rec, op, audits, outside, stops>>
    BY Zenon DEF Restart
  <1>3. /\ op = 0
        /\ \A r \in Runs : /\ lc[r].pc = "idle" /\ worker[r] = "none"
                           /\ \A w \in Reconcilers : rec[r][w].pc = "off"
    BY <1>1, <1>2, Zenon DEF DownInv
  <1>4. PICK rest \in {"interrupted", "failed"} :
          jobs' = [r \in Runs |-> IF jobs[r] \in ActiveJob THEN rest ELSE jobs[r]]
    BY Zenon DEF Restart
  <1>5. /\ jobs' \in [Runs -> ActiveJob \cup TerminalJob \cup {"none"}]
        /\ \A r \in Runs : (jobs[r] \in ActiveJob /\ jobs'[r] \in TerminalJob) \/ jobs'[r] = jobs[r]
    BY <1>1, <1>4, Zenon DEF TypeOK, TerminalJob
  <1>6. /\ runs' \in [Runs -> Row]
        /\ \A r \in Runs : runs'[r] = runs[r] \/ runs'[r] = Interrupted(runs[r])
    <2>1. runs \in [Runs -> Row] /\ (UNCHANGED runs \/ runs' = [r \in Runs |-> Interrupted(runs[r])])
      BY <1>1, Zenon DEF TypeOK, Restart
    <2> QED BY <2>1, InterruptedFacts, Zenon
  <1>7. faults' \in 0 .. MaxFaults
    <2>1. faults \in 0 .. MaxFaults
      BY <1>1, Zenon DEF TypeOK
    <2> QED BY <1>2, <2>1, RunsAssumption DEF NoFault, Fault
  <1>8. TypeOK'
    BY <1>1, <1>2, <1>5, <1>6, <1>7, Zenon DEF TypeOK
  <1>9. ASSUME NEW r \in Runs PROVE RunInv(r)' /\ ReadInv(r)' /\ AuditInv(r)'
    <2>1. RunInv(r) /\ ReadInv(r) /\ AuditInv(r) /\ runs[r] \in Row
      BY <1>1, Zenon DEF RowsInv, TypeOK
    <2>2. /\ lc'[r].pc = "idle" /\ worker'[r] = "none"
          /\ \A w \in Reconcilers : rec'[r][w] = rec[r][w] /\ rec[r][w].pc = "off"
      BY <1>2, <1>3, Zenon
    <2>3. /\ runs'[r].job = runs[r].job
          /\ runs[r].status \notin ActiveRun => runs'[r] = runs[r]
          /\ runs'[r] # runs[r] => runs'[r].status = "interrupted" /\ runs'[r].reason = "restart"
      BY <1>6, <2>1, InterruptedFacts, ZenonT(40)
    <2>4. /\ jobs[r] = "none" <=> jobs'[r] = "none"
          /\ jobs[r] \in TerminalJob \cup TerminalRun => jobs'[r] = jobs[r]
      BY <1>5, Zenon DEF ActiveJob, TerminalJob, TerminalRun
    <2>5. runs'[r] = NoRow => runs[r] = NoRow
      <3>1. NoRow.status = "absent"
        BY Zenon DEF NoRow
      <3> QED BY <2>3, <3>1, Zenon
    <2>6. RunInv(r)'
      BY <2>1, <2>2, <2>3, <2>4, <2>5, Zenon DEF RunInv, Jobless
    <2>7. ReadInv(r)'
      BY <2>1, <2>2, <2>3, <2>4, Zenon DEF ReadInv
    <2>8. Closed(runs[r]) => runs'[r] = runs[r]
      BY <2>3, Zenon DEF Closed, ActiveRun, TerminalRun
    <2>9. \A w \in Reconcilers : ~Claims(r, w)'
      BY <2>2, Zenon DEF Claims
    <2>10. AuditInv(r)'
      BY <1>2, <2>1, <2>8, <2>9, Zenon DEF AuditInv
    <2> QED BY <2>6, <2>7, <2>10, Zenon
  <1>10. \A r \in Runs : ~Holds(r)'
    BY <1>2, <1>3, Zenon DEF Holds
  <1> QED BY <1>2, <1>3, <1>8, <1>9, <1>10, Zenon DEF IInv, RowsInv, HoldInv, DownInv, AdmissionIsKept

LEMMA InitIInv == Init => IInv
  <1> SUFFICES ASSUME Init PROVE IInv
    BY Zenon
  <1>1. NoRow \in Row /\ NoRow.status = "absent" /\ ~NoRow.job
    BY Zenon DEF NoRow, Row, Reasons
  <1>2. /\ proc = "up" /\ op = 0
        /\ \A r \in Runs : /\ runs[r] = NoRow /\ jobs[r] = "none" /\ worker[r] = "none"
                           /\ lc[r] = NoCall /\ audits[r] = 0
                           /\ \A w \in Reconcilers : rec[r][w] = Off
    BY Zenon DEF Init
  <1>3. TypeOK
    <2>1. IdleServer \in Server
      BY Zenon DEF IdleServer, Server
    <2>2. /\ runs \in [Runs -> Row] /\ proc \in {"up", "stopping", "down"} /\ server \in Server
          /\ jobs \in [Runs -> ActiveJob \cup TerminalJob \cup {"none"}] /\ lc \in [Runs -> Call]
      BY <1>1, <2>1, NoCallFacts, Zenon DEF Init
    <2>3. /\ worker \in [Runs -> Workers] /\ rec \in [Runs -> [Reconcilers -> Reconciliation]]
      BY OffFacts, Zenon DEF Init, Workers
    <2>4. /\ op \in Nat /\ audits \in [Runs -> Nat]
          /\ faults \in 0 .. MaxFaults /\ outside \in 0 .. MaxOutside /\ stops \in 0 .. MaxStops
      BY RunsAssumption DEF Init
    <2> QED BY <2>2, <2>3, <2>4, Zenon DEF TypeOK
  <1>4. ASSUME NEW r \in Runs PROVE RunInv(r) /\ ReadInv(r) /\ AuditInv(r)
    <2>1. RunInv(r)
      BY <1>1, <1>2, NoCallFacts, Zenon DEF RunInv
    <2>2. ReadInv(r)
      BY <1>1, <1>2, OffFacts, Zenon DEF ReadInv, TerminalRun, TerminalJob
    <2>3. \A w \in Reconcilers : ~Claims(r, w)
      BY <1>2, OffFacts, Zenon DEF Claims
    <2>4. AuditInv(r)
      BY <1>2, <2>3, Zenon DEF AuditInv
    <2> QED BY <2>1, <2>2, <2>4, Zenon
  <1>5. \A r \in Runs : ~Holds(r)
    BY <1>2, NoCallFacts, Zenon DEF Holds
  <1> QED BY <1>2, <1>3, <1>4, <1>5, Zenon DEF IInv, RowsInv, HoldInv, DownInv, AdmissionIsKept

LEMMA StutterIInv ==
  ASSUME IInv, UNCHANGED vars
  PROVE  IInv'
  <1>1. UNCHANGED <<runs, proc, server, jobs, lc, worker, rec, op, audits, faults, outside, stops>>
    BY Zenon DEF vars
  <1>2. TypeOK'
    BY <1>1, Zenon DEF IInv, TypeOK
  <1>3. RowsInv'
    BY <1>1, RowsKept, Zenon DEF IInv
  <1>4. HoldInv'
    BY <1>1, ZenonT(40) DEF IInv, HoldInv, Holds, OwnerFor
  <1>5. DownInv' /\ AdmissionIsKept'
    BY <1>1 DEF IInv, DownInv, AdmissionIsKept
  <1> QED BY <1>2, <1>3, <1>4, <1>5, Zenon DEF IInv

LEMMA NextIInv ==
  ASSUME IInv, [Next]_vars
  PROVE  IInv'
  <1>1. CASE \E r \in Runs : \/ HandleScheduledRun(r) \/ CallStep(r) \/ WorkerStep(r)
                             \/ WaitOrResume(r) \/ GateReconciles(r)
    BY <1>1, HandleScheduledRunIInv, ExecuteAdmittedIInv, TakeSnapshotIInv, BeginIInv, CreateJobIInv,
       UndoBeginIInv, CallEndIInv, StartRunIInv, FailJobIInv, StartWorkerIInv, RejectWorkerIInv,
       EndMutationIInv, EndScanIInv, PanicIInv, RestoreAfterWorkIInv, WorkerExitIInv,
       WaitOrResumeIInv, GateReconcilesIInv, Zenon DEF CallStep, WorkerStep
  <1>2. CASE \E r \in Runs, w \in Reconcilers : ReconcileStep(r, w)
    BY <1>2, ReadJobIInv, ReadRunIInv, TransitionRunIInv, RereadIInv, AcceptIInv, Zenon DEF ReconcileStep
  <1>3. CASE \E r \in Runs : PersistReconciliationFailure(r) \/ WatchCancelled(r)
    BY <1>3, PersistReconciliationFailureIInv, WatchCancelledIInv, Zenon
  <1>4. CASE OperatorBegins \/ OperatorEnds \/ Shutdown \/ Restart
    BY <1>4, OperatorBeginsIInv, OperatorEndsIInv, ShutdownIInv, RestartIInv, Zenon
  <1>5. CASE Drained \/ Crash
    <2>1. stops \in 0 .. MaxStops
      BY Zenon DEF IInv, TypeOK
    <2>2. Exit /\ stops' \in 0 .. MaxStops
      BY <1>5, <2>1, RunsAssumption DEF Drained, Crash
    <2> QED BY <2>2, ExitIInv, Zenon
  <1>6. CASE UNCHANGED vars
    BY <1>6, StutterIInv, Zenon
  <1>7. {"worker", "gate"} \subseteq Reconcilers /\ "watch" \in Reconcilers
    BY Zenon DEF Reconcilers
  <1> QED BY <1>1, <1>2, <1>3, <1>4, <1>5, <1>6, <1>7, Zenon DEF Next, WatchStep

-----------------------------------------------------------------------------
(* Theorems                                                                 *)

\* The strengthening holds in every reachable state.
THEOREM Invariance == Spec => []IInv
  <1>1. IInv /\ [Next]_vars => IInv'
    BY NextIInv, Zenon
  <1> QED BY <1>1, InitIInv, PTL DEF Spec

\* Every variable keeps its type; no reconciler holds a job status that the
\* store never had (reconcileJob).
THEOREM TypeCorrect == Spec => []TypeOK
  <1>1. IInv => TypeOK
    BY Zenon DEF IInv
  <1> QED BY <1>1, Invariance, PTL

\* However watcher, worker and gate interleave, with each other and with
\* storage faults, crashes and restarts, a row that ended as its job did shows
\* that job's end and the end is audited at most once (reconcileJob,
\* auditTerminal).
THEOREM RunEndsOnceAsItsJob == Spec => []EndsOnceAsItsJob
  <1>1. IInv => EndsOnceAsItsJob
    <2> SUFFICES ASSUME IInv, NEW r \in Runs
                 PROVE  /\ runs[r].job /\ runs[r].status \in TerminalRun /\ runs[r].reason \in {"", "job"}
                             => jobs[r] = runs[r].status
                        /\ audits[r] <= 1
      BY Zenon DEF EndsOnceAsItsJob, EndedAsItsJob, AuditedOnce
    <2>1. ReadInv(r) /\ AuditInv(r)
      BY Zenon DEF IInv, RowsInv
    <2>2. audits[r] \in {0, 1}
      BY <2>1, Zenon DEF AuditInv
    <2>3. audits[r] <= 1
      BY <2>2
    <2> QED BY <2>1, <2>3, Zenon DEF ReadInv
  <1> QED BY <1>1, Invariance, PTL

\* RestoreStatusSnapshot is a plain overwrite, yet it never takes the server
\* from an operator's action: every point that restores is reached only while
\* the run itself still has the server (executeByMode).
THEOREM OperatorAdmissionIsKept == Spec => []AdmissionIsKept
  <1>1. IInv => AdmissionIsKept
    BY Zenon DEF IInv
  <1> QED BY <1>1, Invariance, PTL

-----------------------------------------------------------------------------
(* The rows implement RunLifecycle                                          *)

LEMMA SameRecords ==
  /\ Lifecycle!Row = Row /\ Lifecycle!NoRow = NoRow
  /\ Lifecycle!ActiveRun = ActiveRun /\ Lifecycle!TerminalRun = TerminalRun
  /\ \A row \in Row : (Lifecycle!Open(row) <=> Open(row)) /\ Lifecycle!Interrupted(row) = Interrupted(row)
  BY Zenon DEF Lifecycle!Row, Row, Lifecycle!NoRow, NoRow, Lifecycle!ActiveRun, ActiveRun,
         Lifecycle!TerminalRun, TerminalRun, Lifecycle!Reasons, Reasons, Lifecycle!Open, Open,
         Lifecycle!RestartInterrupted, RestartInterrupted, Lifecycle!Interrupted, Interrupted

\* A write of one row that is a step of RunLifecycle.
LEMMA RowStep ==
  ASSUME TypeOK, NEW r \in Runs, NEW row \in Row, runs' = [runs EXCEPT ![r] = row],
         \/ runs[r] = NoRow /\ row.status \in {"queued", "skipped"} /\ ~row.job
         \/ /\ runs[r].status \in ActiveRun /\ row.status \in ActiveRun
            /\ runs[r].job => row.job
         \/ /\ Open(runs[r]) /\ row.status \in TerminalRun /\ row.reason # "restart"
            /\ runs[r].job => row.job
  PROVE  Lifecycle!Next
  <1>1. runs[r] \in Row
    BY Zenon DEF TypeOK
  <1>2. CASE runs[r] = NoRow /\ row.status \in {"queued", "skipped"} /\ ~row.job
    <2>1. Lifecycle!Create(r)
      BY <1>2, SameRecords, Zenon DEF Lifecycle!Create
    <2> QED BY <2>1, Zenon DEF Lifecycle!Next
  <1>3. CASE /\ runs[r].status \in ActiveRun /\ row.status \in ActiveRun
             /\ runs[r].job => row.job
    <2>1. Lifecycle!Progress(r)
      BY <1>3, SameRecords, Zenon DEF Lifecycle!Progress
    <2> QED BY <2>1, Zenon DEF Lifecycle!Next
  <1>4. CASE /\ Open(runs[r]) /\ row.status \in TerminalRun /\ row.reason # "restart"
             /\ runs[r].job => row.job
    <2>1. Lifecycle!End(r)
      BY <1>1, <1>4, SameRecords, Zenon DEF Lifecycle!End
    <2> QED BY <2>1, Zenon DEF Lifecycle!Next
  <1> QED BY <1>2, <1>3, <1>4, Zenon

\* The scheduler's call creates the row, starts it or ends it.
LEMMA CallAdvances ==
  ASSUME IInv, NEW r \in Runs, HandleScheduledRun(r) \/ CallStep(r)
  PROVE  Lifecycle!Next \/ UNCHANGED runs
  <1>1. TypeOK
    BY Zenon DEF IInv
  <1>2. CASE HandleScheduledRun(r)
    <2>1. PICK status \in {"skipped", "queued"}, reason \in {"not_admitted", ""} :
            SetRow(r, status, reason, FALSE)
      BY <1>2, Zenon DEF HandleScheduledRun
    <2> DEFINE row == [status |-> status, reason |-> reason, job |-> FALSE]
    <2>2. row \in Row /\ row.status = status /\ ~row.job
      BY Zenon DEF Row, ActiveRun, TerminalRun, Reasons
    <2>3. runs' = [runs EXCEPT ![r] = row] /\ runs[r] = NoRow
      BY <1>2, <2>1, Zenon DEF SetRow, HandleScheduledRun
    <2> HIDE DEF row
    <2> QED BY <1>1, <2>2, <2>3, RowStep, Zenon
  <1>3. CASE FailRow(r) \/ SkipRow(r) \/ FailStart(r) \/ StartRun(r)
    <2>1. runs[r].status = "queued" /\ ~runs[r].job
      BY <1>3, Calling, Zenon DEF FailRow, SkipRow, FailStart, StartRun
    <2>2. \/ UNCHANGED runs
          \/ SetRow(r, "running", "", TRUE)
          \/ \E status \in {"skipped", "failed"}, reason \in {"persistence", "not_admitted"}, job \in BOOLEAN :
               SetRow(r, status, reason, job)
      BY <1>3, Zenon DEF FailRow, SkipRow, FailStart, StartRun, UpdateRun
    <2>3. CASE SetRow(r, "running", "", TRUE)
      <3> DEFINE row == [status |-> "running", reason |-> "", job |-> TRUE]
      <3>1. row \in Row /\ row.status \in ActiveRun
        BY Zenon DEF Row, ActiveRun, Reasons
      <3>2. runs' = [runs EXCEPT ![r] = row] /\ runs[r].status \in ActiveRun
        BY <2>1, <2>3, Zenon DEF SetRow, ActiveRun
      <3> HIDE DEF row
      <3> QED BY <1>1, <2>1, <3>1, <3>2, RowStep, Zenon
    <2>4. ASSUME NEW status \in {"skipped", "failed"}, NEW reason \in {"persistence", "not_admitted"},
                 NEW job \in BOOLEAN, SetRow(r, status, reason, job)
          PROVE  Lifecycle!Next
      <3> DEFINE row == [status |-> status, reason |-> reason, job |-> job]
      <3>1. row \in Row /\ row.status \in TerminalRun /\ row.reason # "restart"
        BY Zenon DEF Row, TerminalRun, Reasons
      <3>2. runs' = [runs EXCEPT ![r] = row] /\ Open(runs[r])
        BY <2>1, <2>4, Zenon DEF SetRow, Open, ActiveRun
      <3> HIDE DEF row
      <3> QED BY <1>1, <2>1, <3>1, <3>2, RowStep, Zenon
    <2> QED BY <2>2, <2>3, <2>4, Zenon
  <1>4. CASE ExecuteAdmitted(r) \/ TakeSnapshot(r) \/ Begin(r) \/ CreateJob(r) \/ UndoBegin(r) \/ FailJob(r)
    BY <1>4, Zenon DEF ExecuteAdmitted, TakeSnapshot, Begin, CreateJob, UndoBegin, FailJob
  <1> QED BY <1>2, <1>3, <1>4, Zenon DEF CallStep

\* A reconciler writes an open row only, and only with what it is allowed to.
LEMMA ReconcilerAdvances ==
  ASSUME IInv, NEW r \in Runs, NEW w \in Reconcilers,
         ReconcileStep(r, w) \/ PersistReconciliationFailure(r) \/ WatchCancelled(r)
  PROVE  Lifecycle!Next \/ UNCHANGED runs
  <1>1. TypeOK
    BY Zenon DEF IInv
  <1>2. CASE TransitionRun(r, w)
    <2>1. rec[r][w].pc = "transition"
      BY <1>2, Zenon DEF TransitionRun, At
    <2>2. rec[r][w].job \in ActiveJob \cup TerminalJob
      <3>1. ReadInv(r) /\ rec[r][w] \in Reconciliation
        BY <2>1, Reconciling, Zenon
      <3> QED BY <2>1, <3>1, Zenon DEF ReadInv, Reconciliation
    <2>3. SUFFICES ASSUME AcceptsTransition(runs[r], rec[r][w].job),
                          runs' = [runs EXCEPT ![r] = Projected(rec[r][w].job)]
                   PROVE  Lifecycle!Next
      BY <1>2, Zenon DEF TransitionRun
    <2> DEFINE job == rec[r][w].job
               row == Projected(job)
    <2>4. /\ row \in Row /\ row.status = job /\ row.job /\ row.reason \in {"", "job"}
          /\ job \in TerminalJob => job \in TerminalRun
          /\ job \in ActiveJob => job \in ActiveRun
      BY <2>2, ProjectedFacts, Zenon
    <2>5. /\ job \in TerminalJob => Open(runs[r])
          /\ job \in ActiveJob => runs[r].status \in ActiveRun
      BY <2>3, Zenon DEF AcceptsTransition, ActiveJob, TerminalJob
    <2>6. runs' = [runs EXCEPT ![r] = row]
      BY <2>3, Zenon
    <2> HIDE DEF row, job
    <2>7. row.reason # "restart"
      BY <2>4, Zenon
    <2>8. job \in ActiveJob \cup TerminalJob
      BY <2>2, Zenon DEF job
    <2> QED BY <1>1, <2>4, <2>5, <2>6, <2>7, <2>8, RowStep, Zenon
  <1>3. CASE PersistReconciliationFailure(r)
    <2>1. SUFFICES ASSUME Open(runs[r]), SetRow(r, "interrupted", "persistence", TRUE)
                   PROVE  Lifecycle!Next
      BY <1>3, Zenon DEF PersistReconciliationFailure, UpdateRun
    <2> DEFINE row == [status |-> "interrupted", reason |-> "persistence", job |-> TRUE]
    <2>2. row \in Row /\ row.status \in TerminalRun /\ row.reason # "restart" /\ row.job
      BY Zenon DEF Row, TerminalRun, Reasons
    <2>3. runs' = [runs EXCEPT ![r] = row]
      BY <2>1, Zenon DEF SetRow
    <2> HIDE DEF row
    <2> QED BY <1>1, <2>1, <2>2, <2>3, RowStep, Zenon
  <1>4. CASE Reread(r, w)
    BY <1>4, RereadIInv, Zenon
  <1>5. CASE ReadJob(r, w) \/ ReadRun(r, w) \/ Accept(r, w) \/ WatchCancelled(r)
    BY <1>5, Zenon DEF ReadJob, ReadRun, Accept, WatchCancelled
  <1> QED BY <1>2, <1>3, <1>4, <1>5, Zenon DEF ReconcileStep

LEMMA NextAdvances ==
  ASSUME IInv, [Next]_vars
  PROVE  [Lifecycle!Next]_runs
  <1>1. CASE \E r \in Runs : HandleScheduledRun(r) \/ CallStep(r)
    BY <1>1, CallAdvances, Zenon
  <1>2. CASE \E r \in Runs, w \in Reconcilers :
               ReconcileStep(r, w) \/ PersistReconciliationFailure(r) \/ WatchCancelled(r)
    BY <1>2, ReconcilerAdvances, Zenon
  <1>3. CASE \E r \in Runs : WorkerStep(r) \/ WaitOrResume(r) \/ GateReconciles(r)
    BY <1>3, Zenon DEF WorkerStep, StartWorker, RejectWorker, EndMutation, EndScan, Panic,
                RestoreAfterWork, WorkerExit, WaitOrResume, GateReconciles
  <1>4. CASE Restart
    <2>1. runs \in [Runs -> Row]
      BY Zenon DEF IInv, TypeOK
    <2>2. CASE runs' = [r \in Runs |-> Interrupted(runs[r])]
      <3>1. runs' = [r \in Runs |-> Lifecycle!Interrupted(runs[r])]
        BY <2>1, <2>2, SameRecords, Zenon
      <3> QED BY <3>1, Zenon DEF Lifecycle!Restart, Lifecycle!Next
    <2> QED BY <1>4, <2>2, Zenon DEF Restart
  <1>5. CASE OperatorBegins \/ OperatorEnds \/ Shutdown \/ Drained \/ Crash \/ UNCHANGED vars
    BY <1>5, Zenon DEF OperatorBegins, OperatorEnds, Shutdown, Drained, Crash, Exit, vars
  <1>6. {"worker", "gate"} \subseteq Reconcilers /\ "watch" \in Reconcilers
    BY Zenon DEF Reconcilers
  <1> QED BY <1>1, <1>2, <1>3, <1>4, <1>5, <1>6, Zenon DEF Next, WatchStep

\* The rows implement RunLifecycle for any number of runs, faults, crashes and
\* restarts: no stale snapshot of a racing reconciler, no late failure handler
\* and no undone start reopens a row that ended, ends it twice or takes its job
\* away (TransitionRunTerminal, TransitionRunActive, persistReconciliationFailure).
THEOREM RowsImplementLifecycle == Spec => RowsAdvance
  <1>1. Init => Lifecycle!Init
    BY SameRecords, Zenon DEF Init, Lifecycle!Init
  <1>2. IInv /\ [Next]_vars => [Lifecycle!Next]_runs
    BY NextAdvances, Zenon
  <1> QED BY <1>1, <1>2, Invariance, PTL DEF Spec, RowsAdvance, Lifecycle!Spec

=============================================================================
