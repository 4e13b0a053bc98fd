------------------------ MODULE ServerActions_lemmas ------------------------
(***************************************************************************)
(* The inductive invariant of ServerActions, and the lemmas its proof      *)
(* rests on: what the building blocks of the actions return, what the      *)
(* steps of a runner have in common, and that every step of an admitted    *)
(* action, other than to begin or to end, preserves the invariant.         *)
(***************************************************************************)
EXTENDS ServerActions, TLAPS

-----------------------------------------------------------------------------
(* The inductive invariant                                                  *)

\* Points of a runner between BeginActionRunner and FinishActionRunner, first
\* those from which no package command can follow without another write of
\* the job, then those from which it can.
PlainPoints ==
  {"init", "dial_phase", "dial", "work", "publish", "auto_approve", "poll", "decide",
   "reconnect", "revalidate", "nothing_left", "republish", "mutation_phase",
   "mutation_refused", "postcheck_phase", "postchecks", "finish"}

MutationPoints == {"upgrading", "guard", "dispatch", "command"}

RunnerPoints == PlainPoints \cup MutationPoints

TransitionPoints == {"read", "write", "reread", "publish_job"}

\* r is at one of the points P, or in a job transition that returns to one.
Within(r, P) == r.pc \in P \/ (r.pc \in TransitionPoints /\ r.tx.ok \in P)

Exists(r) == r.pc # "free"

Owner(r) == Within(r, RunnerPoints)

\* Bound to its job, and not yet running.
Bound(r) == Within(r, {"start", "begin"})

\* Where a job transition may return.
ReturnsWell(r) ==
  r.pc \in TransitionPoints =>
    \/ r.tx.ok \in PlainPoints /\ r.tx.err \in PlainPoints
    \/ r.tx.ok \in MutationPoints /\ r.tx.err \in RunnerPoints
    \/ r.tx.ok = "begin" /\ r.tx.err = "admission_failed"
    \/ r.tx.ok = "restore" /\ r.tx.err = "restore"

TransitionInv == \A a \in Actions : ReturnsWell(act[a])

\* Actions live in a live process only.
DownInv == ~Alive => \A a \in Actions : ~Exists(act[a])

\* Every action but one that has yet to create it has a job, and no two share one.
JobInv ==
  /\ rt.job <= Len(jobs)
  /\ \A a \in Actions : act[a].prev.job <= Len(jobs)
  /\ \A a \in Actions : Exists(act[a]) /\ act[a].pc # "create" =>
       act[a].job \in 1 .. Len(jobs)
  /\ \A a, b \in Actions :
       /\ Exists(act[a]) /\ act[a].pc # "create"
       /\ Exists(act[b]) /\ act[b].pc # "create"
       /\ act[a].job = act[b].job
       => a = b

\* Each admission has a generation of its own.
GenerationInv ==
  /\ \A a \in Actions : Exists(act[a]) => act[a].gen \in 1 .. rt.gen
  /\ \A a, b \in Actions : Exists(act[a]) /\ Exists(act[b]) /\ act[a].gen = act[b].gen => a = b

\* Until its job is bound, an admission keeps everyone else out.
AdmissionInv ==
  \A a \in Actions : act[a].pc \in {"create", "bind"} =>
    /\ rt.gen = act[a].gen
    /\ rt.job = 0
    /\ ~rt.running
    /\ rt.status \in ProgressStatuses
    /\ act[a].pc = "bind" => act[a].saw_gen = act[a].gen

\* An action that the server's job names, before it runs and while it does, has
\* the server's generation to itself: no RestoreAdmittedAction of another
\* action can take the server away from it.
OthersAreOld(a) ==
  \A b \in Actions : b # a /\ Exists(act[b]) => act[b].gen # rt.gen

BoundInv ==
  \A a \in Actions : Bound(act[a]) /\ rt.job = act[a].job => OthersAreOld(a)

OwnerInv ==
  \A a \in Actions : Owner(act[a]) =>
    /\ rt.running /\ rt.job = act[a].job /\ rt.gen = act[a].saw_gen
    /\ OthersAreOld(a)

\* What a transition read is the job as it is, or as it was at an earlier revision.
SeenOK(r, job) ==
  r.pc = "write" =>
    /\ r.tx.seen.rev <= job.rev
    /\ r.tx.seen.rev = job.rev => r.tx.seen = job
    /\ IsActive(r.tx.seen)
    /\ ValidTransition(r.tx.seen.status, Or(r.tx.intent.status, r.tx.seen.status))

SeenInv == \A a \in Actions : SeenOK(act[a], jobs[act[a].job])

InMutation(job) == job.status = "running" /\ job.phase = "mutation"

IntoMutation == Intend("running", "mutation", Keep)

\* The job is on record as mutating from the write of requireMutationPhase to
\* the return of the command ...
OnRecord(r, job) ==
  \/ r.pc \in MutationPoints
  \/ r.pc \in {"reread", "publish_job"} /\ r.tx.ok \in MutationPoints
  \/ r.pc \in {"read", "write"} /\ r.tx.ok = "guard"
  => InMutation(job) /\ r.phase = "mutation"

\* ... and without that write its transition can only fail.
EntersMutation(r) ==
  r.pc \in {"read", "write"} /\ r.tx.ok \in MutationPoints =>
    /\ r.phase = "mutation"
    /\ r.tx.intent = IntoMutation
    /\ \/ r.tx.ok = "guard" /\ r.tx.err = "guard"
       \/ /\ r.tx.ok \in {"upgrading", "dispatch"}
          /\ r.tx.err = "mutation_refused" /\ ~r.tx.only

RecordInv ==
  \A a \in Actions : OnRecord(act[a], jobs[act[a].job]) /\ EntersMutation(act[a])

\* TypeOK, in what the invariant is about and the rest.
Core ==
  /\ proc \in {"up", "stopping", "down", "recovering"}
  /\ rt \in Runtime
  /\ jobs \in Seq(Job) /\ Len(jobs) <= MaxJobs
  /\ act \in [Actions -> Action]

Rest ==
  /\ rules \in RuleSets
  /\ edits \in 0 .. MaxEdits
  /\ screen \in Screen
  /\ granted \in Seq(Grant)
  /\ host \in {"known", "unknown"}

Safe ==
  /\ Core
  /\ TransitionInv
  /\ DownInv
  /\ JobInv
  /\ GenerationInv
  /\ AdmissionInv
  /\ BoundInv
  /\ OwnerInv
  /\ SeenInv
  /\ RecordInv

IInv == TypeOK /\ Safe

-----------------------------------------------------------------------------
(* Records                                                                  *)

\* The fields of an action that its runner does not change.
Same(r, s) ==
  s.kind = r.kind /\ s.job = r.job /\ s.gen = r.gen /\ s.saw_gen = r.saw_gen /\ s.prev = r.prev

\* The unset field of an intent is no status, phase or class.
LEMMA KeepIsUnset ==
  /\ Keep \notin ActiveStatuses \cup TerminalStatuses
  /\ Keep \notin Phases
  /\ Keep \notin ErrorClasses
  BY Zenon DEF Keep, ActiveStatuses, TerminalStatuses, Phases, ErrorClasses

\* The empty plan, a queued job and the empty transition are well formed.
LEMMA NoRecords ==
  /\ NoPlan \in Plan
  /\ QueuedJob("update") \in Job
  /\ NoTransition \in Transition
  /\ "free" \in Points
  <1>1. NoPlan \in Plan
    BY Zenon DEF NoPlan, Plan, RuleSets
  <1>2. QueuedJob("update") \in Job
    BY Zenon DEF QueuedJob, Job, JobKinds, PackageKinds, ActiveStatuses, Phases, ErrorClasses
  <1>3. "free" \in Points
    BY Zenon DEF Points
  <1>4. Intend(Keep, Keep, Keep) \in Intent
    BY Zenon DEF Intend, Intent
  <1>5. NoTransition \in Transition
    BY <1>2, <1>3, <1>4, Zenon DEF NoTransition, Transition
  <1> QED BY <1>1, <1>2, <1>3, <1>5, Zenon

\* The status of a server after a restart is well formed.
LEMMA IdleStatusType == IdleStatus \in Runtime
  BY NoRecords, ActionsAssumption
  DEF IdleStatus, Runtime, RestStatuses, JobIDs, Scopes

\* So is the absence of an action.
LEMMA NoActionType == NoAction \in Action
  BY NoRecords, IdleStatusType, ActionsAssumption
  DEF NoAction, Action, JobKinds, PackageKinds, JobIDs, Phases, Scopes, RuleSets

\* r at another point.
LEMMA GotoRecord ==
  ASSUME NEW r \in Action, NEW point \in Points
  PROVE  LET s == [r EXCEPT !.pc = point]
         IN s \in Action /\ s.pc = point /\ Same(r, s) /\ s.phase = r.phase /\ s.tx = r.tx
  BY Zenon DEF Action, Same

\* r returned from a job transition.
LEMMA ReturnsRecord ==
  ASSUME NEW r \in Action, NEW point \in Points
  PROVE  LET s == Returns(r, point)
         IN s \in Action /\ s.pc = point /\ Same(r, s) /\ s.phase = r.phase
  BY NoRecords, Zenon DEF Action, Same, Returns

\* r about to make a job transition.
LEMMA CallsRecord ==
  ASSUME NEW r \in Action, NEW intent \in Intent, NEW only \in BOOLEAN, NEW merge \in BOOLEAN,
         NEW ok \in Points, NEW err \in Points
  PROVE  LET s == Calls(r, intent, only, merge, ok, err)
         IN /\ s \in Action /\ s.pc = "read" /\ Same(r, s) /\ s.phase = r.phase
            /\ s.tx.intent = intent /\ s.tx.only = only /\ s.tx.merge = merge
            /\ s.tx.ok = ok /\ s.tx.err = err
  <1> DEFINE t == [NoTransition EXCEPT !.intent = intent, !.only = only,
                                       !.merge = merge, !.ok = ok, !.err = err]
  <1>1. /\ t \in Transition
        /\ t.intent = intent /\ t.only = only /\ t.merge = merge /\ t.ok = ok /\ t.err = err
    BY NoRecords, Zenon DEF Transition
  <1>2. "read" \in Points
    BY Zenon DEF Points
  <1> HIDE DEF t
  <1>3. LET s == [r EXCEPT !.pc = "read", !.tx = t]
        IN s \in Action /\ s.pc = "read" /\ Same(r, s) /\ s.phase = r.phase /\ s.tx = t
    BY <1>1, <1>2, Zenon DEF Action, Same
  <1> QED BY <1>1, <1>3, Zenon DEF Calls, t

-----------------------------------------------------------------------------
(* What the steps of a runner have in common                                *)

Arrives(s, P) == s.pc \in P \/ (s.pc = "read" /\ s.tx.ok \in P /\ s.tx.err \in P)

\* The action goes on as r, at one of the points P or by way of a transition.
Moves(a, r, P) ==
  \E s \in Action : act' = [act EXCEPT ![a] = s] /\ Same(r, s) /\ Arrives(s, P)

KeepsServer ==
  /\ rt' \in Runtime
  /\ rt'.job = rt.job /\ rt'.gen = rt.gen /\ rt'.running = rt.running

Waits(id) == CanWait(jobs[id]) /\ jobs' = [jobs EXCEPT ![id] = Waiting(jobs[id])]

\* A step of the runner that neither ends it nor leads to a package command.
Works(a) ==
  /\ Alive /\ Owner(act[a])
  /\ Moves(a, act[a], PlainPoints)
  /\ KeepsServer
  /\ jobs' = jobs \/ Waits(act[a].job)
  /\ proc' = proc

\* The points of a runner are program points.
LEMMA PointsExist == RunnerPoints \subseteq Points /\ PlainPoints \subseteq RunnerPoints
  BY Zenon DEF RunnerPoints, PlainPoints, MutationPoints, Points

Published(p) == p \in Runtime /\ p.job = rt.job /\ p.gen = rt.gen /\ p.running = rt.running

\* A published status leaves the server with its job.
LEMMA StatusIsPublished ==
  ASSUME rt \in Runtime, NEW status \in ProgressStatuses \cup RestStatuses
  PROVE  Published(StatusOnly(status)) /\ Published(StatusWithoutPlan(status))
  BY NoRecords, Zenon DEF Published, StatusOnly, StatusWithoutPlan, Runtime, Scopes

\* What a published status asks of the job is an intent.
LEMMA StatusIntent ==
  ASSUME NEW status, NEW phase \in Phases
  PROVE  IntentFromStatus(status, phase) \in Intent
  BY Zenon DEF IntentFromStatus, Intent, Intend, ActiveStatuses, TerminalStatuses, Phases, ErrorClasses

\* To go to a point is a move.
LEMMA GotoMoves ==
  ASSUME NEW a, NEW r \in Action, NEW P \in SUBSET Points, NEW next \in P,
         Set(a, [r EXCEPT !.pc = next])
  PROVE  Moves(a, r, P)
  BY GotoRecord, Zenon DEF Moves, Arrives, Set

\* To begin a job transition is a move.
LEMMA CallsMove ==
  ASSUME NEW a, NEW r \in Action, NEW P \in SUBSET Points, NEW intent \in Intent,
         NEW only \in BOOLEAN, NEW merge \in BOOLEAN, NEW ok \in P, NEW err \in P,
         Set(a, Calls(r, intent, only, merge, ok, err))
  PROVE  Moves(a, r, P)
  <1> DEFINE s == Calls(r, intent, only, merge, ok, err)
  <1>1. s \in Action /\ s.pc = "read" /\ Same(r, s) /\ s.tx.ok = ok /\ s.tx.err = err
    BY CallsRecord
  <1>2. act' = [act EXCEPT ![a] = s]
    BY Zenon DEF Set
  <1> HIDE DEF s
  <1> QED BY <1>1, <1>2, Zenon DEF Moves, Arrives

\* withStatus moves the runner on, and leaves the server with its job.
LEMMA WithStatusMoves ==
  ASSUME rt \in Runtime, NEW a, NEW r \in Action, NEW p, Published(p),
         NEW next \in PlainPoints, WithStatus(a, r, p, next)
  PROVE  Moves(a, r, PlainPoints) /\ KeepsServer
  <1>1. r.phase \in Phases
    BY Zenon DEF Action
  <1>2. KeepsServer
    BY Zenon DEF WithStatus, KeepsServer, Published
  <1>3. PlainPoints \in SUBSET Points
    BY PointsExist, Zenon
  <1>4. CASE rt.job = r.job
    <2> DEFINE intent == IntentFromStatus(p.status, r.phase)
    <2>1. intent \in Intent
      BY <1>1, StatusIntent, Zenon
    <2>2. Set(a, Calls(r, intent, TRUE, FALSE, next, next))
      BY <1>4, Zenon DEF WithStatus, TransitionsActive
    <2> HIDE DEF intent
    <2>3. Moves(a, r, PlainPoints)
      BY <1>3, <2>1, <2>2, CallsMove, Zenon
    <2> QED BY <1>2, <2>3, Zenon
  <1>5. CASE rt.job # r.job
    BY <1>2, <1>3, <1>5, GotoMoves, Zenon DEF WithStatus
  <1> QED BY <1>4, <1>5, Zenon

\* So does setErrorLogs ...
LEMMA ErrorsMove ==
  ASSUME rt \in Runtime, NEW a, NEW r \in Action, Errors(a, r)
  PROVE  Moves(a, r, PlainPoints) /\ KeepsServer
  <1>1. Published(StatusOnly("error"))
    BY StatusIsPublished, Zenon DEF RestStatuses
  <1>2. "finish" \in PlainPoints
    BY Zenon DEF PlainPoints
  <1> QED BY <1>1, <1>2, WithStatusMoves, Zenon DEF Errors

\* ... setCommandErrorLogs ...
LEMMA CommandErrorsMove ==
  ASSUME rt \in Runtime, NEW a, NEW r \in Action, NEW unknown \in BOOLEAN,
         CommandErrors(a, r, unknown)
  PROVE  Moves(a, r, PlainPoints) /\ KeepsServer
  <1>1. Published(StatusOnly("needs_reconciliation"))
    BY StatusIsPublished, Zenon DEF RestStatuses
  <1>2. "finish" \in PlainPoints
    BY Zenon DEF PlainPoints
  <1> QED BY <1>1, <1>2, WithStatusMoves, ErrorsMove, Zenon DEF CommandErrors

\* ... the end of a job that did its work ...
LEMMA CompletesMoves ==
  ASSUME rt \in Runtime, NEW a, NEW r \in Action, Completes(a, r)
  PROVE  Moves(a, r, PlainPoints) /\ KeepsServer
  <1>1. Published(StatusOnly("done")) /\ Published(StatusWithoutPlan("done"))
    BY StatusIsPublished, Zenon DEF RestStatuses
  <1>2. "finish" \in PlainPoints
    BY Zenon DEF PlainPoints
  <1> QED BY <1>1, <1>2, WithStatusMoves, Zenon DEF Completes

\* r in another phase of its job.
LEMMA PhaseRecord ==
  ASSUME NEW r \in Action, NEW phase \in Phases
  PROVE  LET s == [r EXCEPT !.phase = phase]
         IN s \in Action /\ Same(r, s) /\ s.phase = phase
  BY Zenon DEF Action, Same

\* To move a copy of r that differs in what Same leaves out is to move r.
LEMMA SameMoves ==
  ASSUME NEW a, NEW r, NEW s, Same(r, s), NEW P, Moves(a, s, P)
  PROVE  Moves(a, r, P)
  BY Zenon DEF Moves, Same

\* ... and interruptForShutdown.
LEMMA InterruptsMoves ==
  ASSUME rt \in Runtime, NEW a, NEW r \in Action, Interrupts(a, r)
  PROVE  Moves(a, r, PlainPoints) /\ KeepsServer
  <1>1. Published(StatusWithoutPlan("idle"))
    BY StatusIsPublished, Zenon DEF RestStatuses
  <1>2. KeepsServer
    BY <1>1, Zenon DEF Interrupts, KeepsServer, Published
  <1> DEFINE s == [r EXCEPT !.phase = "complete"]
  <1>3. s \in Action /\ Same(r, s)
    BY PhaseRecord, Zenon DEF Phases
  <1>4. Intend("interrupted", "complete", "other") \in Intent
    BY Zenon DEF Intend, Intent, TerminalStatuses, Phases, ErrorClasses
  <1>5. "finish" \in PlainPoints
    BY Zenon DEF PlainPoints
  <1>6. Moves(a, s, PlainPoints)
    BY <1>3, <1>4, <1>5, CallsMove, PointsExist, Zenon DEF Interrupts, Transitions
  <1> QED BY <1>2, <1>3, <1>6, SameMoves, Zenon

-----------------------------------------------------------------------------
(* Jobs                                                                     *)

\* A field of an intent, set or not, names a value of its type.
LEMMA OrType ==
  /\ \A x \in ActiveStatuses \cup TerminalStatuses \cup {Keep},
        y \in ActiveStatuses \cup TerminalStatuses :
       Or(x, y) \in ActiveStatuses \cup TerminalStatuses
  /\ \A x \in Phases \cup {Keep}, y \in Phases : Or(x, y) \in Phases
  /\ \A x \in ErrorClasses \cup {Keep}, y \in ErrorClasses : Or(x, y) \in ErrorClasses
  BY Zenon DEF Or

\* What applyIntent installs.
LEMMA ApplyIntentType ==
  ASSUME NEW job \in Job, NEW intent \in Intent
  PROVE  LET new == ApplyIntent(job, intent)
         IN /\ new \in Job
            /\ new.rev = job.rev + 1
            /\ new.kind = job.kind
            /\ new.status = Or(intent.status, job.status)
            /\ new.status = "running" => new.phase = Or(intent.phase, job.phase)
  <1> DEFINE status == Or(intent.status, job.status)
             phase  == CASE status = "waiting_approval"   -> "approval_wait"
                         [] status \in TerminalStatuses   -> "complete"
                         [] OTHER                         -> Or(intent.phase, job.phase)
             class  == Or(intent.class, job.class)
             new    == [job EXCEPT !.status = status, !.phase = phase, !.class = class,
                                   !.rev = job.rev + 1]
  <1>1. status \in ActiveStatuses \cup TerminalStatuses
    BY OrType, Zenon DEF Job, Intent
  <1>2. Or(intent.phase, job.phase) \in Phases /\ class \in ErrorClasses
    BY OrType, Zenon DEF Job, Intent
  <1>3. phase \in Phases
    BY <1>2, Zenon DEF Phases
  <1>4. status = "running" => phase = Or(intent.phase, job.phase)
    BY Zenon DEF TerminalStatuses
  <1>5. ApplyIntent(job, intent) = new
    BY Zenon DEF ApplyIntent
  <1> HIDE DEF status, phase, class
  <1>6. job.rev + 1 \in Nat /\ class \in ErrorClasses
    BY <1>2 DEF Job
  <1>7. /\ new \in Job /\ new.rev = job.rev + 1 /\ new.kind = job.kind
        /\ new.status = status /\ new.phase = phase
    BY <1>1, <1>3, <1>6, Zenon DEF Job
  <1> HIDE DEF new
  <1> QED BY <1>4, <1>5, <1>7, Zenon DEF status

\* The status that shows a job is a status.
LEMMA RuntimeStatusType ==
  ASSUME NEW job \in Job
  PROVE  RuntimeStatusFromJob(job) \in ProgressStatuses \cup RestStatuses
  <1>1. StartedStatus(job.kind) \in ProgressStatuses
    BY Zenon DEF Job, StartedStatus, JobKinds, PackageKinds, ProgressStatuses
  <1> QED BY <1>1, Zenon DEF RuntimeStatusFromJob, ProgressStatuses, RestStatuses

\* syncServerStateFromJobRecord
LEMMA SyncedRuntimeType ==
  ASSUME rt \in Runtime, NEW id \in JobIDs, NEW record \in Job
  PROVE  LET new == SyncedRuntime(id, record)
         IN /\ new \in Runtime
            /\ new.gen = rt.gen /\ new.running = rt.running
            /\ new = rt \/ (new.job = id /\ (rt.job = id \/ rt.gen = 0))
  <1> DEFINE status == RuntimeStatusFromJob(record)
             base   == IF record.status = "interrupted" THEN StatusWithoutPlan(status)
                                                        ELSE StatusOnly(status)
             new    == [base EXCEPT !.rev = record.rev, !.job = id]
  <1>1. Published(base)
    BY RuntimeStatusType, StatusIsPublished, Zenon
  <1>2. record.rev \in Nat
    BY Zenon DEF Job
  <1> HIDE DEF base
  <1>3. new \in Runtime /\ new.gen = rt.gen /\ new.running = rt.running /\ new.job = id
    BY <1>1, <1>2, Zenon DEF Published, Runtime
  <1>4. /\ AcceptsRecord(id, record) => SyncedRuntime(id, record) = new
        /\ ~AcceptsRecord(id, record) => SyncedRuntime(id, record) = rt
    BY Zenon DEF SyncedRuntime, base
  <1>5. AcceptsRecord(id, record) => rt.job = id \/ rt.gen = 0
    BY Zenon DEF AcceptsRecord
  <1> HIDE DEF new
  <1>6. CASE AcceptsRecord(id, record)
    BY <1>3, <1>4, <1>5, <1>6, Zenon
  <1>7. CASE ~AcceptsRecord(id, record)
    BY <1>4, <1>7, Zenon
  <1> QED BY <1>6, <1>7, Zenon

-----------------------------------------------------------------------------
(* Every plain step of a runner is such a step                              *)

\* The parts of the state have their types.
LEMMA TypedState ==
  ASSUME TypeOK, NEW a \in Actions
  PROVE  rt \in Runtime /\ act[a] \in Action /\ act[a].kind \in JobKinds
  BY Zenon DEF TypeOK, Action

\* A server left alone keeps its job.
LEMMA ServerUnchanged ==
  ASSUME rt \in Runtime, UNCHANGED rt
  PROVE  KeepsServer
  BY Zenon DEF KeepsServer

\* A move from a point of the runner that leaves the server with its job.
LEMMA Working ==
  ASSUME NEW a, NEW point \in RunnerPoints, At(a, point), Moves(a, act[a], PlainPoints),
         KeepsServer, jobs' = jobs \/ Waits(act[a].job), proc' = proc
  PROVE  Works(a)
  BY Zenon DEF Works, At, Owner, Within

\* The intents that end a job, or set its phase, are intents.
LEMMA EndIntents ==
  /\ Intend("failed", "complete", "other") \in Intent
  /\ Intend("cancelled", "complete", Keep) \in Intent
  /\ \A phase \in Phases : Intend(Keep, phase, Keep) \in Intent
  /\ Intend(Keep, Keep, Keep) \in Intent
  /\ Intend("running", Keep, Keep) \in Intent
  /\ IntoMutation \in Intent
  BY Zenon DEF Intend, Intent, TerminalStatuses, ActiveStatuses, Phases, ErrorClasses, IntoMutation

\* The status an action starts with is a progress status.
LEMMA StartedStatusType ==
  ASSUME NEW kind \in JobKinds
  PROVE  StartedStatus(kind) \in ProgressStatuses
  BY Zenon DEF StartedStatus, JobKinds, PackageKinds, ProgressStatuses

\* The first withStatus of runWithActorShared.
LEMMA InitStatusWorks ==
  ASSUME TypeOK, NEW a \in Actions, InitStatus(a)
  PROVE  Works(a)
  <1>1. "init" \in RunnerPoints /\ "dial_phase" \in PlainPoints /\ "finish" \in PlainPoints
    BY Zenon DEF RunnerPoints, PlainPoints
  <1>2. CASE rt.job = act[a].job
    <2>1. Published(StatusWithoutPlan("updating"))
          /\ Published(StatusOnly(StartedStatus(act[a].kind)))
      BY TypedState, StatusIsPublished, StartedStatusType, Zenon DEF ProgressStatuses
    <2>2. Moves(a, act[a], PlainPoints) /\ KeepsServer
      BY <1>1, <1>2, <2>1, TypedState, WithStatusMoves, Zenon DEF InitStatus
    <2> QED BY <1>1, <2>2, Working, Zenon DEF InitStatus
  <1>3. CASE rt.job # act[a].job
    <2>1. Moves(a, act[a], PlainPoints)
      BY <1>1, <1>3, TypedState, EndIntents, CallsMove, PointsExist, Zenon DEF InitStatus, Transitions
    <2>2. KeepsServer
      BY <1>3, TypedState, ServerUnchanged, Zenon DEF InitStatus
    <2> QED BY <1>1, <2>1, <2>2, Working, Zenon DEF InitStatus
  <1> QED BY <1>2, <1>3, Zenon

\* SetDialPhase and SetPostcheckPhase
LEMMA PhaseMoves ==
  ASSUME TypeOK, NEW a \in Actions, NEW phase \in Phases, NEW next \in PlainPoints,
         Set(a, Transitions([act[a] EXCEPT !.phase = phase], Intend(Keep, phase, Keep),
                            next, next))
  PROVE  Moves(a, act[a], PlainPoints)
  <1> DEFINE s == [act[a] EXCEPT !.phase = phase]
  <1>1. s \in Action /\ Same(act[a], s)
    BY TypedState, PhaseRecord, Zenon
  <1>2. Intend(Keep, phase, Keep) \in Intent
    BY EndIntents, Zenon
  <1>3. Set(a, Calls(s, Intend(Keep, phase, Keep), FALSE, FALSE, next, next))
    BY Zenon DEF Transitions
  <1> HIDE DEF s
  <1>4. Moves(a, s, PlainPoints)
    BY <1>1, <1>2, <1>3, CallsMove, PointsExist, Zenon
  <1> QED BY <1>1, <1>4, SameMoves, Zenon

\* The phases set without a condition.
LEMMA SetPhaseWorks ==
  ASSUME TypeOK, NEW a \in Actions, SetDialPhase(a) \/ SetPostcheckPhase(a)
  PROVE  Works(a)
  <1>1. /\ {"dial_phase", "postcheck_phase"} \subseteq RunnerPoints
        /\ {"dial", "postchecks"} \subseteq PlainPoints
        /\ {"prepare", "postchecks"} \subseteq Phases
    BY Zenon DEF RunnerPoints, PlainPoints, Phases
  <1>2. CASE SetDialPhase(a)
    BY <1>1, <1>2, PhaseMoves, TypedState, ServerUnchanged, Working, Zenon DEF SetDialPhase
  <1>3. CASE SetPostcheckPhase(a)
    BY <1>1, <1>3, PhaseMoves, TypedState, ServerUnchanged, Working, Zenon DEF SetPostcheckPhase
  <1> QED BY <1>2, <1>3, Zenon

\* The SSH connection is made, or fails, or is interrupted.
LEMMA SetupSSHWorks ==
  ASSUME TypeOK, NEW a \in Actions, SetupSSH(a)
  PROVE  Works(a)
  <1>1. "dial" \in RunnerPoints /\ "work" \in PlainPoints
    BY Zenon DEF RunnerPoints, PlainPoints
  <1>2. CASE Goto(a, "work") /\ UNCHANGED rt
    <2>1. Moves(a, act[a], PlainPoints)
      BY <1>1, <1>2, TypedState, GotoMoves, PointsExist, Zenon DEF Goto
    <2> QED BY <1>1, <1>2, <2>1, TypedState, ServerUnchanged, Working, Zenon DEF SetupSSH
  <1>3. CASE CommandErrors(a, act[a], FALSE)
    BY <1>1, <1>3, TypedState, CommandErrorsMove, Working, Zenon DEF SetupSSH
  <1>4. CASE Interrupts(a, act[a])
    BY <1>1, <1>4, TypedState, InterruptsMoves, Working, Zenon DEF SetupSSH
  <1> QED BY <1>2, <1>3, <1>4, Zenon DEF SetupSSH

\* RunSystemCommand, RunPostchecks, NothingLeft and RefuseMutation only end the
\* runner's work in one of its ways.
LEMMA EndsWorks ==
  ASSUME TypeOK, NEW a \in Actions,
         \/ RunSystemCommand(a) \/ RunPostchecks(a) \/ NothingLeft(a) \/ RefuseMutation(a)
  PROVE  Works(a)
  <1>1. {"work", "postchecks", "nothing_left", "mutation_refused"} \subseteq RunnerPoints
    BY Zenon DEF RunnerPoints, PlainPoints
  <1>2. PICK point \in RunnerPoints : At(a, point)
    BY <1>1, Zenon DEF RunSystemCommand, RunPostchecks, NothingLeft, RefuseMutation
  <1>3. \/ Completes(a, act[a]) \/ Errors(a, act[a]) \/ Interrupts(a, act[a])
        \/ CommandErrors(a, act[a], FALSE)
    BY Zenon DEF RunSystemCommand, RunPostchecks, NothingLeft, RefuseMutation
  <1>4. Moves(a, act[a], PlainPoints) /\ KeepsServer
    BY <1>3, TypedState, CompletesMoves, ErrorsMove, InterruptsMoves, CommandErrorsMove, Zenon
  <1>5. jobs' = jobs /\ proc' = proc
    BY Zenon DEF RunSystemCommand, RunPostchecks, NothingLeft, RefuseMutation
  <1> QED BY <1>2, <1>4, <1>5, Working, Zenon

\* The other fields a runner may set.
LEMMA FieldRecords ==
  ASSUME NEW r \in Action
  PROVE  /\ \A gate \in BOOLEAN :
              LET s == [r EXCEPT !.gate = gate] IN s \in Action /\ Same(r, s)
         /\ \A scope \in Scopes :
              LET s == [r EXCEPT !.scope = scope]
              IN s \in Action /\ Same(r, s) /\ s.saw = r.saw /\ s.plan = r.plan
         /\ \A plan \in Plan :
              LET s == [r EXCEPT !.plan = plan] IN s \in Action /\ Same(r, s)
         /\ LET s == [r EXCEPT !.changed = TRUE] IN s \in Action /\ Same(r, s)
  BY Zenon DEF Action, Same

\* UpdateScheduledDiscoveryMeta moves the runner on.
LEMMA MergesMoves ==
  ASSUME NEW a, NEW r \in Action, NEW next \in PlainPoints, Set(a, MergesDiscovery(r, next))
  PROVE  Moves(a, r, PlainPoints)
  <1>1. PlainPoints \in SUBSET Points
    BY PointsExist, Zenon
  <1>2. CASE r.scheduled
    <2>1. Set(a, Calls(r, Intend(Keep, Keep, Keep), TRUE, TRUE, next, next))
      BY <1>2, Zenon DEF MergesDiscovery
    <2> QED BY <1>1, <2>1, EndIntents, CallsMove, Zenon
  <1>3. CASE ~r.scheduled
    BY <1>1, <1>3, GotoMoves, Zenon DEF MergesDiscovery
  <1> QED BY <1>2, <1>3, Zenon

\* guardUnplannedPackageMutation lets the runner through or fails it.
LEMMA GuardUnplannedWorks ==
  ASSUME TypeOK, NEW a \in Actions, GuardUnplannedMutation(a)
  PROVE  Works(a)
  <1>1. "work" \in RunnerPoints /\ "mutation_phase" \in PlainPoints
    BY Zenon DEF RunnerPoints, PlainPoints
  <1> DEFINE s == [act[a] EXCEPT !.gate = TRUE]
  <1>2. s \in Action /\ Same(act[a], s)
    BY TypedState, FieldRecords, Zenon
  <1>3. \/ Set(a, [s EXCEPT !.pc = "mutation_phase"]) /\ UNCHANGED rt
        \/ Errors(a, s)
    BY Zenon DEF GuardUnplannedMutation
  <1> HIDE DEF s
  <1>4. Moves(a, s, PlainPoints) /\ KeepsServer
    BY <1>1, <1>2, <1>3, TypedState, GotoMoves, PointsExist, ServerUnchanged, ErrorsMove, Zenon
  <1>5. Moves(a, act[a], PlainPoints)
    BY <1>2, <1>4, SameMoves, Zenon
  <1> QED BY <1>1, <1>4, <1>5, Working, Zenon DEF GuardUnplannedMutation

\* RunUpdateJob up to the plan.
LEMMA DiscoverPackagesWorks ==
  ASSUME TypeOK, NEW a \in Actions, DiscoverPackages(a)
  PROVE  Works(a)
  <1>1. "work" \in RunnerPoints /\ "publish" \in PlainPoints
    BY Zenon DEF RunnerPoints, PlainPoints
  <1>2. ASSUME NEW pkgs \in Packages, UNCHANGED rt,
               Set(a, MergesDiscovery([act[a] EXCEPT !.plan = [pkgs |-> pkgs, rules |-> rules]],
                                      "publish"))
        PROVE  Moves(a, act[a], PlainPoints) /\ KeepsServer
    <2> DEFINE s == [act[a] EXCEPT !.plan = [pkgs |-> pkgs, rules |-> rules]]
    <2>1. [pkgs |-> pkgs, rules |-> rules] \in Plan
      BY Zenon DEF Plan, TypeOK
    <2>2. s \in Action /\ Same(act[a], s)
      BY <2>1, TypedState, FieldRecords, Zenon
    <2>3. Set(a, MergesDiscovery(s, "publish"))
      BY <1>2, Zenon
    <2> HIDE DEF s
    <2>4. Moves(a, s, PlainPoints)
      BY <1>1, <2>2, <2>3, MergesMoves, Zenon
    <2> QED BY <1>2, <2>2, <2>4, SameMoves, TypedState, ServerUnchanged, Zenon
  <1>3. Moves(a, act[a], PlainPoints) /\ KeepsServer
    BY <1>2, TypedState, CompletesMoves, ErrorsMove, InterruptsMoves, Zenon DEF DiscoverPackages
  <1> QED BY <1>1, <1>3, Working, Zenon DEF DiscoverPackages

\* The job of a runner is on record.
LEMMA JobType ==
  ASSUME TypeOK, JobInv, NEW a \in Actions, Owner(act[a])
  PROVE  act[a].job \in 1 .. Len(jobs) /\ jobs[act[a].job] \in Job
  <1>1. Exists(act[a]) /\ act[a].pc # "create"
    BY Zenon DEF Owner, Within, Exists, RunnerPoints, PlainPoints, MutationPoints, TransitionPoints
  <1>2. act[a].job \in 1 .. Len(jobs)
    BY <1>1, Zenon DEF JobInv
  <1> QED BY <1>2 DEF TypeOK

\* The publication of a plan.
LEMMA PublishPlanWorks ==
  ASSUME TypeOK, JobInv, NEW a \in Actions, PublishPlan(a)
  PROVE  Works(a)
  <1>1. "publish" \in RunnerPoints /\ {"poll", "auto_approve", "finish"} \subseteq PlainPoints
    BY Zenon DEF RunnerPoints, PlainPoints
  <1>2. Owner(act[a])
    BY <1>1, Zenon DEF PublishPlan, At, Owner, Within
  <1>3. jobs[act[a].job].rev + 1 \in Nat
    BY <1>2, JobType DEF Job
  <1>4. CASE /\ rt.approval < MaxApprovals
             /\ rt' = [rt EXCEPT !.status = "pending_approval", !.plan = act[a].plan,
                                 !.scope = "none", !.approval = rt.approval + 1,
                                 !.rev = jobs[act[a].job].rev + 1]
             /\ \E point \in {"poll", "auto_approve"} : Goto(a, point)
             /\ Waits(act[a].job)
    <2>1. act[a].plan \in Plan /\ rt.approval + 1 \in 0 .. MaxApprovals
      BY <1>4, TypedState, ActionsAssumption DEF Action, Runtime
    <2>2. KeepsServer
      BY <1>3, <1>4, <2>1, TypedState, Zenon DEF KeepsServer, Runtime, ProgressStatuses, Scopes
    <2>3. Moves(a, act[a], PlainPoints)
      BY <1>1, <1>4, TypedState, GotoMoves, PointsExist, Zenon DEF Goto
    <2> QED BY <1>1, <1>4, <2>2, <2>3, Working, Zenon DEF PublishPlan
  <1>5. CASE Errors(a, act[a]) /\ UNCHANGED jobs
    BY <1>1, <1>5, TypedState, ErrorsMove, Working, Zenon DEF PublishPlan
  <1>6. CASE Goto(a, "finish") /\ UNCHANGED <<rt, jobs>>
    <2>1. Moves(a, act[a], PlainPoints)
      BY <1>1, <1>6, TypedState, GotoMoves, PointsExist, Zenon DEF Goto
    <2> QED BY <1>1, <1>6, <2>1, TypedState, ServerUnchanged, Working, Zenon DEF PublishPlan
  <1> QED BY <1>4, <1>5, <1>6, Zenon DEF PublishPlan, Waits

\* To go to a point with another scope is a move.
LEMMA ScopeAndPoint ==
  ASSUME NEW a, NEW r \in Action, NEW scope \in Scopes, NEW next \in PlainPoints,
         Set(a, [r EXCEPT !.pc = next, !.scope = scope])
  PROVE  Moves(a, r, PlainPoints)
  <1> DEFINE s == [r EXCEPT !.pc = next, !.scope = scope]
  <1>1. s \in Action /\ Same(r, s) /\ s.pc = next
    BY PointsExist, Zenon DEF Action, Same
  <1>2. act' = [act EXCEPT ![a] = s]
    BY Zenon DEF Set
  <1> HIDE DEF s
  <1> QED BY <1>1, <1>2, Zenon DEF Moves, Arrives

\* The automatic approval of a scheduled update.
LEMMA AutoApproveWorks ==
  ASSUME TypeOK, NEW a \in Actions, AutoApprove(a)
  PROVE  Works(a)
  <1>1. "auto_approve" \in RunnerPoints /\ {"revalidate", "finish"} \subseteq PlainPoints
    BY Zenon DEF RunnerPoints, PlainPoints
  <1>2. ASSUME NEW scope \in {"all", "security"},
               rt' = [rt EXCEPT !.status = "approved", !.scope = scope],
               Set(a, [act[a] EXCEPT !.pc = "revalidate", !.scope = scope])
        PROVE  Moves(a, act[a], PlainPoints) /\ KeepsServer
    <2>1. scope \in Scopes
      BY Zenon DEF Scopes
    <2>2. KeepsServer
      BY <1>2, <2>1, TypedState, Zenon DEF KeepsServer, Runtime, ProgressStatuses
    <2> QED BY <1>1, <1>2, <2>1, <2>2, TypedState, ScopeAndPoint, Zenon
  <1>3. ASSUME Goto(a, "finish"), UNCHANGED rt
        PROVE  Moves(a, act[a], PlainPoints) /\ KeepsServer
    BY <1>1, <1>3, TypedState, GotoMoves, PointsExist, ServerUnchanged, Zenon DEF Goto
  <1>4. Moves(a, act[a], PlainPoints) /\ KeepsServer
    BY <1>2, <1>3, Zenon DEF AutoApprove
  <1> QED BY <1>1, <1>4, Working, Zenon DEF AutoApprove

\* The approval poll reads the rules.
LEMMA PollRulesWorks ==
  ASSUME TypeOK, NEW a \in Actions, PollRules(a)
  PROVE  Works(a)
  <1>1. "poll" \in RunnerPoints /\ "decide" \in PlainPoints
    BY Zenon DEF RunnerPoints, PlainPoints
  <1>2. ASSUME NEW saw \in RuleSets \cup {"unavailable"}, UNCHANGED rt,
               Set(a, [act[a] EXCEPT !.pc = "decide", !.saw = saw])
        PROVE  Moves(a, act[a], PlainPoints) /\ KeepsServer
    <2> DEFINE s == [act[a] EXCEPT !.pc = "decide", !.saw = saw]
    <2>1. s \in Action /\ Same(act[a], s) /\ s.pc = "decide"
      <3>1. "decide" \in Points /\ act[a] \in Action
        BY <1>1, TypedState, PointsExist, Zenon
      <3> QED BY <3>1, Zenon DEF Action, Same
    <2>2. act' = [act EXCEPT ![a] = s]
      BY <1>2, Zenon DEF Set
    <2> HIDE DEF s
    <2> QED BY <1>1, <1>2, <2>1, <2>2, TypedState, ServerUnchanged, Zenon DEF Moves, Arrives
  <1>3. rules \in RuleSets
    BY Zenon DEF TypeOK
  <1>4. Moves(a, act[a], PlainPoints) /\ KeepsServer
    BY <1>2, <1>3, TypedState, InterruptsMoves, Zenon DEF PollRules
  <1> QED BY <1>1, <1>4, Working, Zenon DEF PollRules

\* What follows a decision is a move.
LEMMA AfterDecisionMoves ==
  ASSUME rt \in Runtime, NEW a, NEW r \in Action, NEW next \in PlainPoints,
         AfterDecision(a, r, next)
  PROVE  Moves(a, r, PlainPoints) /\ KeepsServer
  <1>1. "reconnect" \in PlainPoints /\ "all" \in Scopes
    BY Zenon DEF PlainPoints, Scopes
  <1>2. \/ Errors(a, r)
        \/ Set(a, [r EXCEPT !.pc = next]) /\ UNCHANGED rt
        \/ Set(a, [r EXCEPT !.pc = "reconnect", !.scope = "all"]) /\ UNCHANGED rt
    BY Zenon DEF AfterDecision
  <1> QED BY <1>1, <1>2, ErrorsMove, GotoMoves, PointsExist, ServerUnchanged, ScopeAndPoint, Zenon

\* The approval poll decides.
LEMMA DecideWorks ==
  ASSUME TypeOK, NEW a \in Actions,
         DecideApproved(a) \/ DecidePending(a) \/ DecideClosed(a) \/ DecideExpired(a)
  PROVE  Works(a)
  <1>1. "decide" \in RunnerPoints /\ {"reconnect", "poll", "finish"} \subseteq PlainPoints
    BY Zenon DEF RunnerPoints, PlainPoints
  <1>2. CASE DecideApproved(a)
    <2> DEFINE s == [act[a] EXCEPT !.scope = rt.scope]
    <2>1. s \in Action /\ Same(act[a], s)
      BY TypedState, FieldRecords, Zenon DEF Runtime
    <2>2. AfterDecision(a, s, "reconnect")
      BY <1>2, Zenon DEF DecideApproved
    <2> HIDE DEF s
    <2>3. Moves(a, s, PlainPoints) /\ KeepsServer
      BY <1>1, <2>1, <2>2, TypedState, AfterDecisionMoves, Zenon
    <2>4. Moves(a, act[a], PlainPoints)
      BY <2>1, <2>3, SameMoves, Zenon
    <2> QED BY <1>1, <1>2, <2>3, <2>4, Working, Zenon DEF DecideApproved
  <1>3. CASE DecidePending(a)
    BY <1>1, <1>3, TypedState, AfterDecisionMoves, Working, Zenon DEF DecidePending
  <1>4. Published(StatusWithoutPlan("idle"))
    BY TypedState, StatusIsPublished, Zenon DEF RestStatuses
  <1>5. CASE DecideClosed(a)
    <2>1. KeepsServer
      BY <1>4, <1>5, TypedState, Zenon DEF DecideClosed, KeepsServer, Published
    <2>2. Moves(a, act[a], PlainPoints)
      BY <1>1, <1>5, TypedState, GotoMoves, PointsExist, Zenon DEF DecideClosed, Goto
    <2> QED BY <1>1, <1>5, <2>1, <2>2, Working, Zenon DEF DecideClosed
  <1>6. CASE DecideExpired(a)
    <2>1. KeepsServer
      BY <1>4, <1>6, Zenon DEF DecideExpired, KeepsServer, Published
    <2>2. Set(a, Calls(act[a], Intend("cancelled", "complete", Keep), FALSE, FALSE,
                       "finish", "finish"))
      BY <1>6, Zenon DEF DecideExpired, Transitions
    <2>3. Moves(a, act[a], PlainPoints)
      BY <1>1, <2>2, TypedState, EndIntents, CallsMove, PointsExist, Zenon
    <2> QED BY <1>1, <1>6, <2>1, <2>3, Working, Zenon DEF DecideExpired
  <1> QED BY <1>2, <1>3, <1>5, <1>6, Zenon

\* appendStatusLog is a move, and may make the job wait again.
LEMMA AppendsLogMoves ==
  ASSUME rt \in Runtime, NEW a, NEW r \in Action, NEW next \in PlainPoints,
         jobs[r.job] \in Job, AppendsLog(a, r, next)
  PROVE  /\ Moves(a, r, PlainPoints) /\ KeepsServer
         /\ jobs' = jobs \/ Waits(r.job)
  <1>1. CASE /\ Waits(r.job)
             /\ rt' = [rt EXCEPT !.rev = jobs[r.job].rev + 1]
             /\ Set(a, [r EXCEPT !.pc = next])
    <2>1. jobs[r.job].rev + 1 \in Nat
      BY DEF Job
    <2>2. KeepsServer
      BY <1>1, <2>1, Zenon DEF KeepsServer, Runtime
    <2> QED BY <1>1, <2>2, GotoMoves, PointsExist, Zenon
  <1>2. CASE WithStatus(a, r, StatusOnly("error"), next) /\ UNCHANGED jobs
    <2>1. Published(StatusOnly("error"))
      BY StatusIsPublished, Zenon DEF RestStatuses
    <2> QED BY <1>2, <2>1, WithStatusMoves, Zenon
  <1>3. CASE WithStatus(a, r, rt, next) /\ UNCHANGED jobs
    BY <1>3, WithStatusMoves, Zenon DEF Published
  <1> QED BY <1>1, <1>2, <1>3, Zenon DEF AppendsLog, Waits

\* The connection is made again after the approval.
LEMMA ReconnectWorks ==
  ASSUME TypeOK, JobInv, NEW a \in Actions, Reconnect(a)
  PROVE  Works(a)
  <1>1. "reconnect" \in RunnerPoints /\ "revalidate" \in PlainPoints
    BY Zenon DEF RunnerPoints, PlainPoints
  <1>2. jobs[act[a].job] \in Job
    BY <1>1, JobType, Zenon DEF Reconnect, At, Owner, Within
  <1>3. CASE Goto(a, "revalidate") /\ UNCHANGED <<rt, jobs>>
    <2>1. Moves(a, act[a], PlainPoints)
      BY <1>1, <1>3, TypedState, GotoMoves, PointsExist, Zenon DEF Goto
    <2> QED BY <1>1, <1>3, <2>1, TypedState, ServerUnchanged, Working, Zenon DEF Reconnect
  <1>4. CASE AppendsLog(a, act[a], "revalidate")
    BY <1>1, <1>2, <1>4, TypedState, AppendsLogMoves, Working, Zenon DEF Reconnect
  <1> QED BY <1>3, <1>4, Zenon DEF Reconnect

\* A plan that changed is published again.
LEMMA RepublishWorks ==
  ASSUME TypeOK, JobInv, NEW a \in Actions, Republish(a)
  PROVE  Works(a)
  <1>1. "republish" \in RunnerPoints /\ "publish" \in PlainPoints
    BY Zenon DEF RunnerPoints, PlainPoints
  <1>2. jobs[act[a].job] \in Job
    BY <1>1, JobType, Zenon DEF Republish, At, Owner, Within
  <1> DEFINE s == [act[a] EXCEPT !.changed = TRUE]
  <1>3. s \in Action /\ Same(act[a], s)
    BY TypedState, FieldRecords, Zenon
  <1>4. AppendsLog(a, s, "publish")
    BY Zenon DEF Republish
  <1> HIDE DEF s
  <1>5. s.job = act[a].job
    BY <1>3, Zenon DEF Same
  <1>6. Moves(a, s, PlainPoints) /\ KeepsServer /\ (jobs' = jobs \/ Waits(act[a].job))
    BY <1>1, <1>2, <1>3, <1>4, <1>5, TypedState, AppendsLogMoves, Zenon
  <1>7. Moves(a, act[a], PlainPoints)
    BY <1>3, <1>6, SameMoves, Zenon
  <1> QED BY <1>1, <1>6, <1>7, Working, Zenon DEF Republish

\* revalidateApproval
LEMMA RevalidateWorks ==
  ASSUME TypeOK, NEW a \in Actions, Revalidate(a)
  PROVE  Works(a)
  <1>1. /\ "revalidate" \in RunnerPoints
        /\ {"nothing_left", "republish", "mutation_phase"} \subseteq PlainPoints
    BY Zenon DEF RunnerPoints, PlainPoints
  <1>2. ASSUME NEW pkgs \in Packages \cup {"none"}, UNCHANGED rt,
               NEW next \in PlainPoints,
               Set(a, MergesDiscovery([act[a] EXCEPT !.plan = [pkgs |-> pkgs, rules |-> rules]],
                                      next))
        PROVE  Moves(a, act[a], PlainPoints) /\ KeepsServer
    <2> DEFINE s == [act[a] EXCEPT !.plan = [pkgs |-> pkgs, rules |-> rules]]
    <2>1. [pkgs |-> pkgs, rules |-> rules] \in Plan
      BY Zenon DEF Plan, TypeOK
    <2>2. s \in Action /\ Same(act[a], s)
      BY <2>1, TypedState, FieldRecords, Zenon
    <2>3. Set(a, MergesDiscovery(s, next))
      BY <1>2, Zenon
    <2> HIDE DEF s
    <2>4. Moves(a, s, PlainPoints)
      BY <2>2, <2>3, MergesMoves, Zenon
    <2> QED BY <1>2, <2>2, <2>4, SameMoves, TypedState, ServerUnchanged, Zenon
  <1>3. \A r, fresh, profileChanged, nothingSelected :
           AfterRevalidation(r, fresh, profileChanged, nothingSelected) \in PlainPoints
    BY <1>1, Zenon DEF AfterRevalidation
  <1>4. \/ Errors(a, act[a])
        \/ Interrupts(a, act[a])
        \/ \E pkgs \in Packages \cup {"none"}, next \in PlainPoints :
             /\ Set(a, MergesDiscovery([act[a] EXCEPT !.plan = [pkgs |-> pkgs, rules |-> rules]],
                                       next))
             /\ UNCHANGED rt
    BY <1>3, Zenon DEF Revalidate
  <1>5. Moves(a, act[a], PlainPoints) /\ KeepsServer
    BY <1>2, <1>4, TypedState, ErrorsMove, InterruptsMoves, Zenon
  <1> QED BY <1>1, <1>5, Working, Zenon DEF Revalidate

\* RunCommand returns.
LEMMA CommandReturnsWorks ==
  ASSUME TypeOK, NEW a \in Actions, CommandReturns(a)
  PROVE  Works(a)
  <1>1. "command" \in RunnerPoints /\ "postcheck_phase" \in PlainPoints
    BY Zenon DEF RunnerPoints, PlainPoints, MutationPoints
  <1> DEFINE gate == UsesApt(act[a])
             s    == [act[a] EXCEPT !.gate = gate]
  <1>2. s \in Action /\ Same(act[a], s)
    <2>1. gate \in BOOLEAN
      BY DEF UsesApt
    <2> HIDE DEF gate
    <2> QED BY <2>1, TypedState, FieldRecords, Zenon
  <1>3. \/ Completes(a, s)
        \/ Set(a, [s EXCEPT !.pc = "postcheck_phase"]) /\ UNCHANGED rt
        \/ CommandErrors(a, s, FALSE) \/ CommandErrors(a, s, TRUE)
        \/ Interrupts(a, s)
    BY Zenon DEF CommandReturns
  <1> HIDE DEF s
  <1>4. Moves(a, s, PlainPoints) /\ KeepsServer
    BY <1>1, <1>2, <1>3, TypedState, GotoMoves, PointsExist, ServerUnchanged,
       CompletesMoves, CommandErrorsMove, InterruptsMoves, Zenon
  <1>5. Moves(a, act[a], PlainPoints)
    BY <1>2, <1>4, SameMoves, Zenon
  <1> QED BY <1>1, <1>4, <1>5, Working, Zenon DEF CommandReturns

\* The steps of a runner between BeginActionRunner and FinishActionRunner, but
\* for those that take it into its package command.
LEMMA RunnerWorks ==
  ASSUME TypeOK, JobInv, NEW a \in Actions,
         \/ InitStatus(a) \/ SetDialPhase(a) \/ SetupSSH(a) \/ RunSystemCommand(a)
         \/ GuardUnplannedMutation(a) \/ DiscoverPackages(a) \/ ApprovalStep(a)
         \/ RefuseMutation(a) \/ CommandReturns(a) \/ SetPostcheckPhase(a) \/ RunPostchecks(a)
  PROVE  Works(a)
  BY InitStatusWorks, SetPhaseWorks, SetupSSHWorks, EndsWorks, GuardUnplannedWorks,
     DiscoverPackagesWorks, PublishPlanWorks, AutoApproveWorks, PollRulesWorks, DecideWorks,
     ReconnectWorks, RepublishWorks, RevalidateWorks, CommandReturnsWorks, Zenon
  DEF ApprovalStep

-----------------------------------------------------------------------------
(* Steps within one action                                                  *)

\* Job id is written once.
Rewrites(id) ==
  \E job \in Job : job.rev = jobs[id].rev + 1 /\ jobs' = [jobs EXCEPT ![id] = job]

\* The action goes on as s: it keeps its job and its generation, neither enters
\* nor leaves admission, owns the server only if it did, publishes only on the
\* server its job owns and writes only its job.
Carries(a, s) ==
  /\ Alive /\ proc' = proc
  /\ Exists(act[a]) /\ act[a].pc \notin {"create", "bind"}
  /\ s \in Action /\ act' = [act EXCEPT ![a] = s] /\ Same(act[a], s)
  /\ s.pc \notin {"free", "create", "bind"}
  /\ Owner(s) => Owner(act[a])
  /\ Bound(s) => Bound(act[a])
  /\ KeepsServer
  /\ rt' = rt \/ rt.job = act[a].job
  /\ jobs' = jobs \/ Rewrites(act[a].job)

\* A rewrite of one job leaves the others alone.
LEMMA RewritesJobs ==
  ASSUME jobs \in Seq(Job), NEW id \in 1 .. Len(jobs), jobs' = jobs \/ Rewrites(id)
  PROVE  /\ jobs' \in Seq(Job) /\ Len(jobs') = Len(jobs)
         /\ \A i \in 1 .. Len(jobs) : i # id => jobs'[i] = jobs[i]
         /\ jobs'[id] = jobs[id] \/ jobs'[id].rev = jobs[id].rev + 1
  BY DEF Rewrites

\* Action a has become s, which has the job it had, or none.
LEMMA JobInvKept ==
  ASSUME IInv, NEW a \in Actions, NEW s, act'[a] = s,
         \A b \in Actions : b # a => act'[b] = act[b],
         Len(jobs') = Len(jobs), rt'.job <= Len(jobs), s.prev.job <= Len(jobs),
         \/ s.pc \in {"free", "create"}
         \/ Exists(act[a]) /\ act[a].pc # "create" /\ s.job = act[a].job
  PROVE  JobInv'
  <1>1. JobInv
    BY Zenon DEF IInv, Safe
  <1>2. rt'.job <= Len(jobs') /\ \A b \in Actions : act'[b].prev.job <= Len(jobs')
    BY <1>1, Zenon DEF JobInv
  <1>3. ASSUME NEW b \in Actions, Exists(act'[b]), act'[b].pc # "create"
        PROVE  Exists(act[b]) /\ act[b].pc # "create" /\ act'[b].job = act[b].job
    BY <1>3, Zenon DEF Exists
  <1>4. \A b \in Actions : Exists(act'[b]) /\ act'[b].pc # "create" =>
          act'[b].job \in 1 .. Len(jobs')
    BY <1>1, <1>3, Zenon DEF JobInv
  <1>5. \A b, c \in Actions :
          /\ Exists(act'[b]) /\ act'[b].pc # "create"
          /\ Exists(act'[c]) /\ act'[c].pc # "create"
          /\ act'[b].job = act'[c].job
          => b = c
    BY <1>1, <1>3, ZenonT(40) DEF JobInv
  <1> QED BY <1>2, <1>4, <1>5, Zenon DEF JobInv

\* A step within an action keeps the invariant, if what concerns only the action
\* itself holds of it afterwards.
LEMMA CarriesSafe ==
  ASSUME IInv, NEW a \in Actions, NEW s, Carries(a, s), ReturnsWell(s),
         SeenOK(s, jobs'[s.job]), OnRecord(s, jobs'[s.job]), EntersMutation(s)
  PROVE  Safe'
  <1>1. /\ act \in [Actions -> Action] /\ jobs \in Seq(Job) /\ Len(jobs) <= MaxJobs
        /\ rt \in Runtime
    BY Zenon DEF IInv, Safe, Core
  <1>2. /\ s \in Action /\ act' = [act EXCEPT ![a] = s]
        /\ s.pc \notin {"free", "create", "bind"} /\ act[a].pc \notin {"free", "create", "bind"}
    BY Zenon DEF Carries, Exists
  <1>3. s.job = act[a].job /\ s.gen = act[a].gen /\ s.saw_gen = act[a].saw_gen
        /\ s.prev = act[a].prev
    BY Zenon DEF Carries, Same
  <1>4. act'[a] = s /\ \A b \in Actions : b # a => act'[b] = act[b]
    BY <1>1, <1>2, Zenon
  <1>5. act[a].job \in 1 .. Len(jobs)
    BY <1>2, Zenon DEF IInv, Safe, JobInv, Exists
  <1>6. /\ jobs' \in Seq(Job) /\ Len(jobs') = Len(jobs)
        /\ \A i \in 1 .. Len(jobs) : i # act[a].job => jobs'[i] = jobs[i]
        /\ jobs'[act[a].job] = jobs[act[a].job]
           \/ jobs'[act[a].job].rev = jobs[act[a].job].rev + 1
    BY <1>1, <1>5, RewritesJobs, Zenon DEF Carries
  <1>7. rt' \in Runtime /\ rt'.job = rt.job /\ rt'.gen = rt.gen /\ rt'.running = rt.running
    BY Zenon DEF Carries, KeepsServer
  <1>8. Core'
    BY <1>1, <1>2, <1>6, <1>7, Zenon DEF IInv, Safe, Core, Carries
  <1>9. TransitionInv'
    BY <1>4, Zenon DEF IInv, Safe, TransitionInv
  <1>10. DownInv'
    BY Zenon DEF Carries, DownInv, Alive
  <1>11. JobInv'
    <2>1. JobInv /\ Exists(act[a])
      BY <1>2, Zenon DEF IInv, Safe, Exists
    <2>2. rt'.job <= Len(jobs) /\ s.prev.job <= Len(jobs)
      BY <1>3, <1>7, <2>1, Zenon DEF JobInv
    <2> QED BY <1>2, <1>3, <1>4, <1>6, <2>1, <2>2, JobInvKept, Zenon
  <1>12. GenerationInv'
    BY <1>2, <1>3, <1>4, <1>7 DEF IInv, Safe, GenerationInv, Exists
  <1>13. AdmissionInv'
    BY <1>2, <1>4, <1>5, <1>7 DEF IInv, Safe, AdmissionInv, Carries
  <1>14. ASSUME NEW b \in Actions, OthersAreOld(b) PROVE OthersAreOld(b)'
    BY <1>2, <1>3, <1>4, <1>7, <1>14 DEF OthersAreOld, Exists
  <1>15. BoundInv'
    BY <1>3, <1>4, <1>7, <1>14, ZenonT(40) DEF IInv, Safe, BoundInv, Carries
  <1>16. OwnerInv'
    BY <1>3, <1>4, <1>7, <1>14, ZenonT(40) DEF IInv, Safe, OwnerInv, Carries
  <1>17. ASSUME NEW b \in Actions, b # a, act[b].pc \notin {"free", "create"}
         PROVE  jobs'[act[b].job] = jobs[act[b].job]
    <2>1. JobInv /\ Exists(act[a]) /\ Exists(act[b]) /\ act[a].pc # "create"
      BY <1>2, <1>17, Zenon DEF IInv, Safe, Exists
    <2>2. act[b].job \in 1 .. Len(jobs) /\ act[b].job # act[a].job
      BY <1>17, <2>1, Zenon DEF JobInv
    <2> QED BY <1>6, <2>2, Zenon
  <1>18. SeenInv'
    <2>1. ASSUME NEW b \in Actions, b # a PROVE SeenOK(act[b], jobs'[act[b].job])
      <3>1. SeenOK(act[b], jobs[act[b].job])
        BY Zenon DEF IInv, Safe, SeenInv
      <3>2. CASE act[b].pc = "write"
        BY <1>17, <2>1, <3>1, <3>2, Zenon
      <3> QED BY <3>2, Zenon DEF SeenOK
    <2> QED BY <1>4, <2>1, Zenon DEF SeenInv
  <1>19. RecordInv'
    <2>1. ASSUME NEW b \in Actions, b # a
          PROVE  OnRecord(act'[b], jobs'[act'[b].job]) /\ EntersMutation(act'[b])
      BY <1>4, <1>17, <2>1, Zenon DEF IInv, Safe, RecordInv, OnRecord, MutationPoints
    <2> QED BY <1>4, <2>1, Zenon DEF RecordInv
  <1> QED BY <1>8, <1>9, <1>10, <1>11, <1>12, <1>13, <1>15, <1>16, <1>18, <1>19, Zenon DEF Safe

\* The kinds of program points are apart.
LEMMA PointsApart ==
  /\ PlainPoints \cap MutationPoints = {}
  /\ RunnerPoints = PlainPoints \cup MutationPoints
  /\ (RunnerPoints \cup TransitionPoints) \cap {"free", "create", "bind", "start", "begin",
                                                "admission_failed", "restore"} = {}
  /\ RunnerPoints \cap TransitionPoints = {}
  BY Zenon DEF RunnerPoints, PlainPoints, MutationPoints, TransitionPoints

\* To make a job wait is to rewrite it.
LEMMA WaitsRewrites ==
  ASSUME NEW id, jobs[id] \in Job, Waits(id)
  PROVE  Rewrites(id)
  <1>1. Intend("waiting_approval", Keep, Keep) \in Intent
    BY Zenon DEF Intend, Intent, ActiveStatuses
  <1>2. Waiting(jobs[id]) \in Job /\ Waiting(jobs[id]).rev = jobs[id].rev + 1
    BY <1>1, ApplyIntentType, Zenon DEF Waiting
  <1> QED BY <1>2, Zenon DEF Waits, Rewrites

\* The plain steps of a runner keep the invariant.
LEMMA WorksSafe ==
  ASSUME IInv, NEW a \in Actions, Works(a)
  PROVE  Safe'
  <1>1. PICK s \in Action : /\ act' = [act EXCEPT ![a] = s]
                            /\ Same(act[a], s) /\ Arrives(s, PlainPoints)
    BY Zenon DEF Works, Moves
  <1>2. Owner(act[a]) /\ Owner(s)
    BY <1>1, Zenon DEF Works, Owner, Within, Arrives, RunnerPoints, TransitionPoints
  <1>3. /\ Exists(act[a]) /\ act[a].pc \notin {"create", "bind"}
        /\ s.pc \notin {"free", "create", "bind"} /\ ~Bound(s)
    <2>1. /\ act[a].pc \in RunnerPoints \cup TransitionPoints
          /\ s.pc \in RunnerPoints \cup TransitionPoints
      BY <1>2, Zenon DEF Owner, Within
    <2>2. ~Bound(s)
      BY <1>2, PointsApart, Zenon DEF Owner, Bound, Within
    <2> QED BY <2>1, <2>2, PointsApart, Zenon DEF Exists
  <1>4. rt.job = act[a].job
    BY <1>2, Zenon DEF IInv, Safe, OwnerInv
  <1>5. jobs' = jobs \/ Rewrites(act[a].job)
    BY <1>2, JobType, WaitsRewrites, Zenon DEF IInv, Safe, Works
  <1>6. Carries(a, s)
    BY <1>1, <1>2, <1>3, <1>4, <1>5, Zenon DEF Carries, Works
  <1>7. /\ ReturnsWell(s) /\ SeenOK(s, jobs'[s.job])
        /\ OnRecord(s, jobs'[s.job]) /\ EntersMutation(s)
    BY <1>1, Zenon DEF Arrives, ReturnsWell, SeenOK, OnRecord, EntersMutation, PlainPoints,
                MutationPoints, TransitionPoints
  <1> QED BY <1>6, <1>7, CarriesSafe, Zenon

\* What an action in a job transition consists of.
LEMMA TransitionType ==
  ASSUME IInv, NEW a \in Actions, act[a].pc \in TransitionPoints
  PROVE  /\ act[a] \in Action /\ act[a].tx \in Transition
         /\ act[a].tx.ok \in Points /\ act[a].tx.err \in Points
         /\ act[a].job \in 1 .. Len(jobs) /\ jobs[act[a].job] \in Job
         /\ act[a].job \in JobIDs
  <1>1. act[a] \in Action /\ jobs \in Seq(Job)
    BY Zenon DEF IInv, TypeOK
  <1>2. act[a].tx \in Transition
    BY <1>1, Zenon DEF Action
  <1>3. act[a].pc \notin {"free", "create"}
    BY PointsApart, Zenon
  <1>4. act[a].job \in 1 .. Len(jobs)
    BY <1>3, Zenon DEF IInv, Safe, JobInv, Exists
  <1>5. act[a].job \in JobIDs
    BY <1>1, Zenon DEF Action
  <1>6. act[a].tx.ok \in Points /\ act[a].tx.err \in Points
    BY <1>2, Zenon DEF Transition
  <1>7. jobs[act[a].job] \in Job
    BY <1>1, <1>4
  <1> QED BY <1>1, <1>2, <1>4, <1>5, <1>6, <1>7, Zenon

\* A transition that is over.
LEMMA ReturnSafe ==
  ASSUME IInv, NEW a \in Actions, Alive, act[a].pc \in TransitionPoints,
         NEW point \in {act[a].tx.ok, act[a].tx.err},
         Set(a, Returns(act[a], point)), proc' = proc, jobs' = jobs,
         KeepsServer, rt' = rt \/ rt.job = act[a].job,
         point \in MutationPoints => InMutation(jobs[act[a].job]) /\ act[a].phase = "mutation"
  PROVE  Safe'
  <1> DEFINE s == Returns(act[a], point)
  <1>1. s \in Action /\ s.pc = point /\ Same(act[a], s) /\ s.phase = act[a].phase
    BY TransitionType, ReturnsRecord, Zenon
  <1>2. act' = [act EXCEPT ![a] = s]
    BY Zenon DEF Set
  <1> HIDE DEF s
  <1>3. ReturnsWell(act[a])
    BY Zenon DEF IInv, Safe, TransitionInv
  <1>4. /\ point \in RunnerPoints \cup {"begin", "admission_failed", "restore"}
        /\ point \in RunnerPoints => act[a].tx.ok \in RunnerPoints
        /\ point = "begin" => act[a].tx.ok = "begin"
    BY <1>3, PointsApart, Zenon DEF ReturnsWell
  <1>5. s.pc \notin TransitionPoints \cup {"free", "create", "bind"}
    BY <1>1, <1>4, PointsApart, ZenonT(40) DEF TransitionPoints
  <1>6. Owner(s) => Owner(act[a])
    BY <1>1, <1>4, <1>5, Zenon DEF Owner, Within
  <1>7. Bound(s) => Bound(act[a])
    BY <1>1, <1>4, <1>5, PointsApart, Zenon DEF Bound, Within
  <1>8. Exists(act[a]) /\ act[a].pc \notin {"create", "bind"}
    BY PointsApart, ZenonT(40) DEF Exists
  <1>9. Carries(a, s)
    BY <1>1, <1>2, <1>5, <1>6, <1>7, <1>8, Zenon DEF Carries
  <1>10. s.job = act[a].job
    BY <1>1, Zenon DEF Same
  <1>11. /\ ReturnsWell(s) /\ SeenOK(s, jobs'[s.job])
         /\ OnRecord(s, jobs'[s.job]) /\ EntersMutation(s)
    BY <1>1, <1>5, <1>10, ZenonT(40) DEF ReturnsWell, SeenOK, OnRecord, EntersMutation, TransitionPoints
  <1> QED BY <1>9, <1>11, CarriesSafe, Zenon

\* A transition that goes on: only its point and what it read change.
LEMMA TransitionSafe ==
  ASSUME IInv, NEW a \in Actions, Alive, act[a].pc \in TransitionPoints,
         NEW point \in TransitionPoints, NEW seen \in Job,
         Set(a, [act[a] EXCEPT !.pc = point, !.tx.seen = seen]), proc' = proc, rt' = rt,
         jobs' = jobs \/ Rewrites(act[a].job),
         point \in {"read", "write"} => act[a].pc \in {"read", "write"} /\ jobs' = jobs,
         point = "write" =>
           /\ seen = jobs[act[a].job] /\ IsActive(seen)
           /\ ValidTransition(seen.status, Or(act[a].tx.intent.status, seen.status)),
         point \in {"reread", "publish_job"} /\ act[a].tx.ok \in MutationPoints =>
           InMutation(jobs'[act[a].job]) /\ act[a].phase = "mutation"
  PROVE  Safe'
  <1> DEFINE s == [act[a] EXCEPT !.pc = point, !.tx.seen = seen]
  <1>1. /\ s \in Action /\ s.pc = point /\ Same(act[a], s) /\ s.phase = act[a].phase
        /\ s.tx.ok = act[a].tx.ok /\ s.tx.err = act[a].tx.err /\ s.tx.only = act[a].tx.only
        /\ s.tx.intent = act[a].tx.intent /\ s.tx.seen = seen
    <2>1. act[a] \in Action /\ act[a].tx \in Transition /\ point \in Points
      BY TransitionType, Zenon DEF TransitionPoints, Points
    <2> DEFINE t == [act[a].tx EXCEPT !.seen = seen]
    <2>2. /\ t \in Transition /\ t.ok = act[a].tx.ok /\ t.err = act[a].tx.err
          /\ t.only = act[a].tx.only /\ t.intent = act[a].tx.intent /\ t.seen = seen
      BY <2>1, Zenon DEF Transition
    <2> HIDE DEF t
    <2>3. s = [act[a] EXCEPT !.pc = point, !.tx = t]
      BY <2>1, Zenon DEF Action, t
    <2>4. /\ s \in Action /\ s.pc = point /\ Same(act[a], s) /\ s.phase = act[a].phase
          /\ s.tx = t
      BY <2>1, <2>2, <2>3, Zenon DEF Action, Same
    <2> HIDE DEF s
    <2> QED BY <2>2, <2>4, Zenon
  <1>2. act' = [act EXCEPT ![a] = s]
    BY Zenon DEF Set
  <1> HIDE DEF s
  <1>3. /\ Exists(act[a]) /\ act[a].pc \notin {"create", "bind"}
        /\ s.pc \notin {"free", "create", "bind"}
    BY <1>1, PointsApart, Zenon DEF Exists
  <1>4. (Owner(s) => Owner(act[a])) /\ (Bound(s) => Bound(act[a]))
    BY <1>1, PointsApart, ZenonT(40) DEF Owner, Bound, Within
  <1>5. KeepsServer
    BY TypedState, ServerUnchanged, Zenon DEF IInv
  <1>6. Carries(a, s)
    BY <1>1, <1>2, <1>3, <1>4, <1>5, Zenon DEF Carries
  <1>7. s.job = act[a].job
    BY <1>1, Zenon DEF Same
  <1>8. ReturnsWell(s)
    BY <1>1, Zenon DEF IInv, Safe, TransitionInv, ReturnsWell
  <1>9. SeenOK(s, jobs'[s.job])
    <2>1. seen.rev \in Nat
      BY Zenon DEF Job
    <2> QED BY <1>1, <1>7, <2>1 DEF SeenOK
  <1>10. OnRecord(s, jobs'[s.job]) /\ EntersMutation(s)
    <2>1. OnRecord(act[a], jobs[act[a].job]) /\ EntersMutation(act[a])
      BY Zenon DEF IInv, Safe, RecordInv
    <2>2. s.pc \notin MutationPoints
      BY <1>1, Zenon DEF TransitionPoints, MutationPoints
    <2>3. s.pc \in {"read", "write"} => act[a].pc \in {"read", "write"} /\ jobs' = jobs
      BY <1>1, Zenon
    <2>4. EntersMutation(s)
      BY <1>1, <2>1, <2>3, Zenon DEF EntersMutation
    <2> QED BY <1>1, <1>7, <2>1, <2>2, <2>3, <2>4, Zenon DEF OnRecord
  <1> QED BY <1>6, <1>8, <1>9, <1>10, CarriesSafe, Zenon

\* The read of a job transition keeps the invariant ...
LEMMA ReadJobSafe ==
  ASSUME IInv, NEW a \in Actions, ReadJob(a)
  PROVE  Safe'
  <1> DEFINE r      == act[a]
             job    == jobs[r.job]
             target == Or(r.tx.intent.status, job.status)
  <1>1. /\ Alive /\ r.pc = "read" /\ r.pc \in TransitionPoints
        /\ proc' = proc /\ rt' = rt /\ jobs' = jobs
    BY Zenon DEF ReadJob, At, TransitionPoints
  <1>2. KeepsServer
    BY <1>1, TypedState, ServerUnchanged, Zenon DEF IInv
  <1>3. r \in Action /\ r.tx \in Transition /\ job \in Job
    BY <1>1, TransitionType, Zenon
  <1>4. OnRecord(r, job) /\ EntersMutation(r) /\ ReturnsWell(r)
    BY Zenon DEF IInv, Safe, RecordInv, TransitionInv
  <1>5. r.tx.err \in MutationPoints => InMutation(job) /\ r.phase = "mutation"
    BY <1>1, <1>4, PointsApart, Zenon DEF OnRecord, EntersMutation, ReturnsWell, MutationPoints
  <1>6. CASE /\ IsActive(job) /\ ValidTransition(job.status, target)
             /\ Set(a, [r EXCEPT !.pc = "write", !.tx.seen = job])
    <2>1. "write" \in TransitionPoints
      BY Zenon DEF TransitionPoints
    <2> QED BY <1>1, <1>3, <1>6, <2>1, TransitionSafe, Zenon
  <1>7. CASE Set(a, Returns(r, r.tx.err))
    BY <1>1, <1>2, <1>5, <1>7, ReturnSafe, ZenonT(40)
  <1>8. CASE /\ IsTerminal(job)
             /\ r.tx.only \/ target = job.status
             /\ Set(a, Returns(r, r.tx.ok))
    <2>1. r.tx.ok \in MutationPoints => r.tx.ok = "guard"
      <3>1. r.tx.intent = IntoMutation => target = "running"
        BY DEF IntoMutation, Intend, Or, Keep
      <3>2. job.status # "running"
        BY <1>8, Zenon DEF IsTerminal, TerminalStatuses
      <3> HIDE DEF target, job
      <3> QED BY <1>1, <1>4, <1>8, <3>1, <3>2, Zenon DEF EntersMutation
    <2>2. r.tx.ok \in MutationPoints => InMutation(job) /\ r.phase = "mutation"
      BY <1>1, <1>4, <2>1, Zenon DEF OnRecord
    <2> QED BY <1>1, <1>2, <1>8, <2>2, ReturnSafe, Zenon
  <1> QED BY <1>6, <1>7, <1>8, Zenon DEF ReadJob

\* The write of a transition is that of the record it read.
LEMMA WriteRewrites ==
  ASSUME IInv, NEW a \in Actions, act[a].pc = "write",
         jobs[act[a].job].rev = act[a].tx.seen.rev,
         jobs' = [jobs EXCEPT ![act[a].job] = ApplyIntent(act[a].tx.seen, act[a].tx.intent)]
  PROVE  /\ act[a].tx.seen = jobs[act[a].job]
         /\ jobs' = [jobs EXCEPT ![act[a].job] =
                       ApplyIntent(jobs[act[a].job], act[a].tx.intent)]
         /\ Rewrites(act[a].job)
         /\ act[a].tx.intent = IntoMutation => InMutation(jobs'[act[a].job])
  <1> DEFINE job == jobs[act[a].job]
             new == ApplyIntent(job, act[a].tx.intent)
  <1>1. act[a].pc \in TransitionPoints
    BY Zenon DEF TransitionPoints
  <1>2. job \in Job /\ act[a].tx.intent \in Intent /\ act[a].job \in 1 .. Len(jobs)
    BY <1>1, TransitionType, Zenon DEF Transition
  <1>3. act[a].tx.seen = job
    BY Zenon DEF IInv, Safe, SeenInv, SeenOK
  <1>4. jobs' = [jobs EXCEPT ![act[a].job] = new]
    BY <1>3, Zenon
  <1>5. /\ new \in Job /\ new.rev = job.rev + 1
        /\ new.status = Or(act[a].tx.intent.status, job.status)
        /\ new.status = "running" => new.phase = Or(act[a].tx.intent.phase, job.phase)
    BY <1>2, ApplyIntentType, Zenon
  <1> HIDE DEF new
  <1>6. jobs'[act[a].job] = new
    BY <1>2, <1>4 DEF IInv, TypeOK
  <1>7. act[a].tx.intent = IntoMutation => new.status = "running" /\ new.phase = "mutation"
    <2>1. Or(IntoMutation.status, job.status) = "running"
      BY Zenon DEF IntoMutation, Intend, Or, Keep
    <2>2. Or(IntoMutation.phase, job.phase) = "mutation"
      BY Zenon DEF IntoMutation, Intend, Or, Keep
    <2> HIDE DEF job
    <2> QED BY <1>5, <2>1, <2>2, Zenon
  <1>8. Rewrites(act[a].job)
    BY <1>4, <1>5, Zenon DEF Rewrites
  <1> QED BY <1>3, <1>4, <1>6, <1>7, <1>8, Zenon DEF new, InMutation

\* ... so does its write, of a revision that is still the one read ...
LEMMA WriteJobSafe ==
  ASSUME IInv, NEW a \in Actions, WriteJob(a)
  PROVE  Safe'
  <1> DEFINE r == act[a]
  <1>1. /\ Alive /\ r.pc = "write" /\ r.pc \in TransitionPoints
        /\ proc' = proc /\ rt' = rt
    BY Zenon DEF WriteJob, At, TransitionPoints
  <1>2. KeepsServer
    BY <1>1, TypedState, ServerUnchanged, Zenon DEF IInv
  <1>3. r \in Action /\ r.tx \in Transition /\ jobs[r.job] \in Job /\ r.tx.seen \in Job
    BY <1>1, TransitionType, Zenon DEF Transition
  <1>4. OnRecord(r, jobs[r.job]) /\ EntersMutation(r) /\ ReturnsWell(r)
    BY Zenon DEF IInv, Safe, RecordInv, TransitionInv
  <1>5. \A point \in {"read", "reread"} :
           [r EXCEPT !.pc = point] = [r EXCEPT !.pc = point, !.tx.seen = r.tx.seen]
    <2>1. r.tx = [r.tx EXCEPT !.seen = r.tx.seen]
      BY <1>3, Zenon DEF Transition
    <2> QED BY <1>3, <2>1, Zenon DEF Action
  <1>6. CASE /\ jobs[r.job].rev = r.tx.seen.rev
             /\ jobs' = [jobs EXCEPT ![r.job] = ApplyIntent(r.tx.seen, r.tx.intent)]
             /\ Set(a, [r EXCEPT !.pc = "reread"])
    <2>1. Rewrites(r.job) /\ (r.tx.intent = IntoMutation => InMutation(jobs'[r.job]))
      BY <1>1, <1>6, WriteRewrites, Zenon
    <2>2. r.tx.ok \in MutationPoints => InMutation(jobs'[r.job]) /\ r.phase = "mutation"
      BY <1>1, <1>4, <2>1, Zenon DEF EntersMutation
    <2>3. Set(a, [r EXCEPT !.pc = "reread", !.tx.seen = r.tx.seen])
      BY <1>5, <1>6, Zenon
    <2>4. "reread" \in TransitionPoints
      BY Zenon DEF TransitionPoints
    <2> QED BY <1>1, <1>3, <2>1, <2>2, <2>3, <2>4, TransitionSafe, Zenon
  <1>7. CASE Set(a, [r EXCEPT !.pc = "read"]) /\ UNCHANGED jobs
    <2>1. Set(a, [r EXCEPT !.pc = "read", !.tx.seen = r.tx.seen])
      BY <1>5, <1>7, Zenon
    <2>2. "read" \in TransitionPoints
      BY Zenon DEF TransitionPoints
    <2> QED BY <1>1, <1>3, <1>7, <2>1, <2>2, TransitionSafe, Zenon
  <1>8. CASE Set(a, Returns(r, r.tx.err)) /\ UNCHANGED jobs
    <2>1. r.tx.err \in MutationPoints => InMutation(jobs[r.job]) /\ r.phase = "mutation"
      BY <1>1, <1>4, PointsApart, Zenon DEF OnRecord, EntersMutation, ReturnsWell, MutationPoints
    <2> QED BY <1>1, <1>2, <1>8, <2>1, ReturnSafe, Zenon
  <1>9. CASE Set(a, Returns(r, r.tx.ok)) /\ r.tx.only /\ UNCHANGED jobs
    <2>1. r.tx.ok \in MutationPoints => InMutation(jobs[r.job]) /\ r.phase = "mutation"
      BY <1>1, <1>4, <1>9, Zenon DEF OnRecord, EntersMutation
    <2> QED BY <1>1, <1>2, <1>9, <2>1, ReturnSafe, ZenonT(40)
  <1> QED BY <1>6, <1>7, <1>8, <1>9, Zenon DEF WriteJob

\* ... its second read ...
LEMMA RereadJobSafe ==
  ASSUME IInv, NEW a \in Actions, RereadJob(a)
  PROVE  Safe'
  <1>1. /\ Alive /\ act[a].pc = "reread" /\ act[a].pc \in TransitionPoints
        /\ proc' = proc /\ rt' = rt /\ jobs' = jobs
    BY Zenon DEF RereadJob, At, TransitionPoints
  <1>2. KeepsServer
    BY <1>1, TypedState, ServerUnchanged, Zenon DEF IInv
  <1>3. act[a].tx.ok \in MutationPoints =>
          InMutation(jobs[act[a].job]) /\ act[a].phase = "mutation"
    BY <1>1, Zenon DEF IInv, Safe, RecordInv, OnRecord
  <1>4. jobs[act[a].job] \in Job
    BY <1>1, TransitionType, Zenon
  <1>5. CASE Set(a, [act[a] EXCEPT !.pc = "publish_job", !.tx.seen = jobs[act[a].job]])
    <2>1. "publish_job" \in TransitionPoints
      BY Zenon DEF TransitionPoints
    <2> QED BY <1>1, <1>3, <1>4, <1>5, <2>1, TransitionSafe, Zenon
  <1>6. CASE Set(a, Returns(act[a], act[a].tx.ok))
    BY <1>1, <1>2, <1>3, <1>6, ReturnSafe, ZenonT(40)
  <1> QED BY <1>5, <1>6, Zenon DEF RereadJob

\* ... and the publication of what that read.
LEMMA PublishJobSafe ==
  ASSUME IInv, NEW a \in Actions, PublishJob(a)
  PROVE  Safe'
  <1>1. /\ Alive /\ act[a].pc = "publish_job" /\ act[a].pc \in TransitionPoints
        /\ proc' = proc /\ jobs' = jobs
        /\ rt' = SyncedRuntime(act[a].job, act[a].tx.seen)
        /\ Set(a, Returns(act[a], act[a].tx.ok))
    BY Zenon DEF PublishJob, At, TransitionPoints
  <1>2. act[a].job \in JobIDs /\ act[a].tx.seen \in Job
    BY <1>1, TransitionType, Zenon DEF Transition
  <1>3. rt.gen # 0
    BY <1>1, PointsApart DEF IInv, Safe, GenerationInv, Exists
  <1>4. /\ rt' \in Runtime /\ rt'.gen = rt.gen /\ rt'.running = rt.running
        /\ rt' = rt \/ (rt'.job = act[a].job /\ rt.job = act[a].job)
    BY <1>1, <1>2, <1>3, SyncedRuntimeType, Zenon DEF IInv, TypeOK
  <1>5. KeepsServer
    BY <1>4, Zenon DEF KeepsServer
  <1>6. act[a].tx.ok \in MutationPoints =>
          InMutation(jobs[act[a].job]) /\ act[a].phase = "mutation"
    BY <1>1, Zenon DEF IInv, Safe, RecordInv, OnRecord
  <1> QED BY <1>1, <1>4, <1>5, <1>6, ReturnSafe, Zenon

\* A transition that begins.
LEMMA CallsSafe ==
  ASSUME IInv, NEW a \in Actions, Alive, act[a].pc \notin TransitionPoints,
         act[a].pc \notin {"free", "create", "bind"},
         NEW r \in Action, Same(act[a], r),
         NEW intent \in Intent, NEW only \in BOOLEAN, NEW merge \in BOOLEAN,
         NEW ok \in Points, NEW err \in Points,
         Set(a, Calls(r, intent, only, merge, ok, err)), proc' = proc, jobs' = jobs,
         KeepsServer, rt' = rt \/ rt.job = act[a].job,
         \/ ok = "begin" /\ err = "admission_failed" /\ Bound(act[a])
         \/ ok = "restore" /\ err = "restore"
         \/ /\ ok \in {"upgrading", "dispatch"} /\ err = "mutation_refused" /\ ~only
            /\ intent = IntoMutation /\ r.phase = "mutation" /\ Owner(act[a])
         \/ /\ ok = "guard" /\ err = "guard" /\ InMutation(jobs[act[a].job])
            /\ intent = IntoMutation /\ r.phase = "mutation" /\ Owner(act[a])
  PROVE  Safe'
  <1> DEFINE s == Calls(r, intent, only, merge, ok, err)
  <1>1. /\ s \in Action /\ s.pc = "read" /\ Same(r, s) /\ s.phase = r.phase
        /\ s.tx.intent = intent /\ s.tx.only = only /\ s.tx.ok = ok /\ s.tx.err = err
    BY CallsRecord
  <1>2. act' = [act EXCEPT ![a] = s]
    BY Zenon DEF Set
  <1> HIDE DEF s
  <1>3. Same(act[a], s) /\ s.job = act[a].job
    BY <1>1, Zenon DEF Same
  <1>4. "read" \in TransitionPoints
    BY Zenon DEF TransitionPoints
  <1>5. Owner(s) => Owner(act[a])
    <2>1. {"begin", "restore"} \cap RunnerPoints = {}
      BY PointsApart, Zenon
    <2> QED BY <1>1, <1>4, <2>1, PointsApart, Zenon DEF Owner, Within
  <1>6. Bound(s) => Bound(act[a])
    BY <1>1, <1>4, Zenon DEF Bound, Within
  <1>7. Carries(a, s)
    BY <1>1, <1>2, <1>3, <1>5, <1>6, Zenon DEF Carries, Exists
  <1>8. ReturnsWell(s) /\ SeenOK(s, jobs'[s.job])
    BY <1>1, Zenon DEF ReturnsWell, SeenOK, MutationPoints, RunnerPoints, PlainPoints
  <1>9. OnRecord(s, jobs'[s.job]) /\ EntersMutation(s)
    BY <1>1, <1>3, Zenon DEF OnRecord, EntersMutation, MutationPoints
  <1> QED BY <1>7, <1>8, <1>9, CarriesSafe, Zenon

\* The runner is about to mark its job running.
LEMMA StartJobRunnerSafe ==
  ASSUME IInv, NEW a \in Actions, StartJobRunner(a)
  PROVE  Safe'
  <1>1. /\ Alive /\ act[a].pc = "start" /\ act[a] \in Action
        /\ proc' = proc /\ rt' = rt /\ jobs' = jobs
    BY TypedState, Zenon DEF StartJobRunner, At, IInv
  <1>2. KeepsServer
    BY <1>1, TypedState, ServerUnchanged, Zenon DEF IInv
  <1>3. Set(a, Calls(act[a], Intend("running", Keep, Keep), FALSE, FALSE,
                     "begin", "admission_failed"))
    BY Zenon DEF StartJobRunner, Transitions
  <1>4. Bound(act[a]) /\ act[a].pc \notin TransitionPoints
    BY <1>1, Zenon DEF Bound, Within, TransitionPoints
  <1>5. {"begin", "admission_failed"} \subseteq Points /\ Same(act[a], act[a])
    BY Zenon DEF Points, Same
  <1> QED BY <1>1, <1>2, <1>3, <1>4, <1>5, EndIntents, CallsSafe, Zenon

\* The runner could not, and is about to fail its job.
LEMMA RunnerAdmissionFailsSafe ==
  ASSUME IInv, NEW a \in Actions, RunnerAdmissionFails(a)
  PROVE  Safe'
  <1>1. /\ Alive /\ act[a].pc = "admission_failed" /\ act[a] \in Action
        /\ proc' = proc /\ rt' = rt /\ jobs' = jobs
    BY TypedState, Zenon DEF RunnerAdmissionFails, At, IInv
  <1>2. KeepsServer
    BY <1>1, TypedState, ServerUnchanged, Zenon DEF IInv
  <1>3. Set(a, Calls(act[a], Intend("failed", "complete", "other"), FALSE, FALSE,
                     "restore", "restore"))
    BY Zenon DEF RunnerAdmissionFails, Transitions
  <1>4. act[a].pc \notin TransitionPoints
    BY <1>1, Zenon DEF TransitionPoints
  <1>5. "restore" \in Points /\ Same(act[a], act[a])
    BY Zenon DEF Points, Same
  <1> QED BY <1>1, <1>2, <1>3, <1>4, <1>5, EndIntents, CallsSafe, Zenon

\* requireMutationPhase persists the phase, or the update is refused.
LEMMA RequireMutationPhaseSafe ==
  ASSUME IInv, NEW a \in Actions, RequireMutationPhase(a)
  PROVE  Safe'
  <1>1. /\ Alive /\ At(a, "mutation_phase") /\ act[a].pc = "mutation_phase" /\ act[a] \in Action
        /\ proc' = proc /\ jobs' = jobs
    BY TypedState, ZenonT(40) DEF RequireMutationPhase, At, IInv
  <1>2. "mutation_phase" \in RunnerPoints /\ act[a].pc \notin TransitionPoints
    BY <1>1, ZenonT(40) DEF RunnerPoints, PlainPoints, TransitionPoints
  <1>3. ASSUME NEW next \in {"dispatch", "upgrading"}, UNCHANGED rt,
               Set(a, Transitions([act[a] EXCEPT !.phase = "mutation"],
                                  Intend("running", "mutation", Keep), next, "mutation_refused"))
        PROVE  Safe'
    <2> DEFINE r == [act[a] EXCEPT !.phase = "mutation"]
    <2>1. r \in Action /\ Same(act[a], r) /\ r.phase = "mutation"
      BY <1>1, PhaseRecord, Zenon DEF Phases
    <2>2. Set(a, Calls(r, IntoMutation, FALSE, FALSE, next, "mutation_refused"))
      BY <1>3, Zenon DEF Transitions, IntoMutation
    <2> HIDE DEF r
    <2>3. KeepsServer
      BY <1>3, TypedState, ServerUnchanged, Zenon DEF IInv
    <2>4. Owner(act[a]) /\ next \in Points /\ "mutation_refused" \in Points
      BY <1>1, <1>2, Zenon DEF Owner, Within, Points
    <2> QED BY <1>1, <1>2, <1>3, <2>1, <2>2, <2>3, <2>4, EndIntents, CallsSafe, Zenon
  <1>4. CASE Errors(a, act[a])
    <2>1. Moves(a, act[a], PlainPoints) /\ KeepsServer
      BY <1>4, TypedState, ErrorsMove, Zenon DEF IInv
    <2> QED BY <1>1, <1>2, <2>1, Working, WorksSafe, Zenon
  <1> QED BY <1>3, <1>4, Zenon DEF RequireMutationPhase

\* The status of the upgrade is published with the phase on record.
LEMMA PublishUpgradingSafe ==
  ASSUME IInv, NEW a \in Actions, PublishUpgrading(a)
  PROVE  Safe'
  <1>1. /\ Alive /\ act[a].pc = "upgrading" /\ act[a] \in Action
        /\ proc' = proc /\ jobs' = jobs
    BY TypedState, Zenon DEF PublishUpgrading, At, IInv
  <1>2. Owner(act[a]) /\ act[a].pc \notin TransitionPoints
    BY <1>1, Zenon DEF Owner, Within, RunnerPoints, MutationPoints, TransitionPoints
  <1>3. InMutation(jobs[act[a].job]) /\ act[a].phase = "mutation"
    BY <1>1, Zenon DEF IInv, Safe, RecordInv, OnRecord, MutationPoints
  <1>4. rt.job = act[a].job
    BY <1>2, Zenon DEF IInv, Safe, OwnerInv
  <1>5. Published(StatusWithoutPlan("upgrading")) /\ StatusWithoutPlan("upgrading").status = "upgrading"
    BY TypedState, StatusIsPublished, Zenon DEF IInv, ProgressStatuses, StatusWithoutPlan, Runtime
  <1>6. KeepsServer
    BY <1>4, <1>5, Zenon DEF PublishUpgrading, WithStatus, KeepsServer, Published
  <1>7. IntentFromStatus("upgrading", "mutation") = IntoMutation
    BY Zenon DEF IntentFromStatus, IntoMutation
  <1>8. Set(a, Calls(act[a], IntoMutation, TRUE, FALSE, "guard", "guard"))
    BY <1>3, <1>4, <1>5, <1>7, Zenon DEF PublishUpgrading, WithStatus, TransitionsActive
  <1>9. "guard" \in Points /\ Same(act[a], act[a])
    BY Zenon DEF Points, Same
  <1> QED BY <1>1, <1>2, <1>3, <1>4, <1>6, <1>8, <1>9, EndIntents, CallsSafe, ZenonT(40)

\* A step from one point of the mutation to the next.
LEMMA MutationSafe ==
  ASSUME IInv, NEW a \in Actions, Alive, act[a].pc \in MutationPoints,
         NEW s \in Action, act' = [act EXCEPT ![a] = s], Same(act[a], s),
         s.pc \in MutationPoints, s.phase = act[a].phase,
         proc' = proc, rt' = rt, jobs' = jobs
  PROVE  Safe'
  <1>1. Owner(act[a]) /\ ~Bound(s) /\ Exists(act[a]) /\ act[a].pc \notin {"create", "bind"}
        /\ s.pc \notin {"free", "create", "bind"}
    BY Zenon DEF Owner, Bound, Within, Exists, RunnerPoints, MutationPoints, TransitionPoints
  <1>2. KeepsServer
    BY TypedState, ServerUnchanged, Zenon DEF IInv
  <1>3. Carries(a, s)
    BY <1>1, <1>2, Zenon DEF Carries
  <1>4. InMutation(jobs'[s.job]) /\ s.phase = "mutation"
    BY Zenon DEF IInv, Safe, RecordInv, OnRecord, Same
  <1>5. /\ ReturnsWell(s) /\ SeenOK(s, jobs'[s.job])
        /\ OnRecord(s, jobs'[s.job]) /\ EntersMutation(s)
    BY <1>4, Zenon DEF ReturnsWell, SeenOK, OnRecord, EntersMutation, MutationPoints, TransitionPoints
  <1> QED BY <1>3, <1>5, CarriesSafe, Zenon

\* guardPackageDeferrals lets the command through with the phase on record.
LEMMA GuardPackageDeferralsSafe ==
  ASSUME IInv, NEW a \in Actions, GuardPackageDeferrals(a)
  PROVE  Safe'
  <1>1. /\ Alive /\ At(a, "guard") /\ act[a].pc = "guard" /\ act[a] \in Action
        /\ proc' = proc /\ jobs' = jobs
    BY TypedState, Zenon DEF GuardPackageDeferrals, At, IInv
  <1>2. {"guard", "dispatch"} \subseteq MutationPoints /\ "guard" \in RunnerPoints
    BY Zenon DEF MutationPoints, RunnerPoints
  <1>3. CASE Set(a, [act[a] EXCEPT !.pc = "dispatch", !.gate = TRUE]) /\ UNCHANGED rt
    <2> DEFINE s == [act[a] EXCEPT !.pc = "dispatch", !.gate = TRUE]
    <2>1. s \in Action /\ s.pc = "dispatch" /\ Same(act[a], s) /\ s.phase = act[a].phase
      BY <1>1, ZenonT(40) DEF Action, Same, Points
    <2>2. act' = [act EXCEPT ![a] = s]
      BY <1>3, ZenonT(40) DEF Set
    <2> HIDE DEF s
    <2> QED BY <1>1, <1>2, <1>3, <2>1, <2>2, MutationSafe, Zenon
  <1>4. CASE Errors(a, act[a])
    <2>1. Moves(a, act[a], PlainPoints) /\ KeepsServer
      BY <1>4, TypedState, ErrorsMove, Zenon DEF IInv
    <2> QED BY <1>1, <1>2, <2>1, Working, WorksSafe, Zenon
  <1> QED BY <1>3, <1>4, Zenon DEF GuardPackageDeferrals

\* The command is sent with the phase on record.
LEMMA SendCommandSafe ==
  ASSUME IInv, NEW a \in Actions, SendCommand(a)
  PROVE  Safe'
  <1>1. /\ Alive /\ act[a].pc = "dispatch" /\ act[a] \in Action
        /\ proc' = proc /\ rt' = rt /\ jobs' = jobs
    BY TypedState, Zenon DEF SendCommand, At, IInv
  <1>2. {"dispatch", "command"} \subseteq MutationPoints
    BY Zenon DEF MutationPoints
  <1> DEFINE s == [act[a] EXCEPT !.pc = "command", !.before = host]
  <1>3. host \in {"known", "unknown"}
    BY Zenon DEF IInv, TypeOK
  <1>4. s \in Action /\ s.pc = "command" /\ Same(act[a], s) /\ s.phase = act[a].phase
    BY <1>1, <1>3, Zenon DEF Action, Same, Points
  <1>5. act' = [act EXCEPT ![a] = s]
    BY Zenon DEF SendCommand, Set
  <1> HIDE DEF s
  <1> QED BY <1>1, <1>2, <1>4, <1>5, MutationSafe, Zenon

=============================================================================
