---------------------------- MODULE ServerActions ----------------------------
(***************************************************************************)
(* Server actions on one server: the admission of an action, its persisted *)
(* job, the runner goroutine that carries it out over SSH, the operator's  *)
(* approval or cancellation of a pending upgrade plan, package deferral    *)
(* rules, and process shutdown, crash and restart.  Servers share nothing  *)
(* but the state lock, so one server is modelled.                          *)
(*                                                                         *)
(* Source: server_action_lifecycle.go, server_action_approval.go, jobs.go, *)
(* internal/servers/{types,action_ownership}.go, internal/jobs,            *)
(* internal/updates/{service,approval_publication,approval_revalidation,   *)
(* package_deferrals}.go.                                                  *)
(*                                                                         *)
(* A step is what the code does between two releases of the server-state   *)
(* lock or two database calls.  A lock-free job transition is therefore    *)
(* four steps (read the job, write it if its revision is still the one     *)
(* read, read it again, publish it on the runtime status), while a         *)
(* publication or a decision, which holds the state lock throughout, is    *)
(* one.                                                                    *)
(***************************************************************************)
EXTENDS JobRecords, FiniteSets

CONSTANTS
  Actions,         \* concurrent callers of startAction, with their runners
  Kinds,           \* kinds of action the operators start
  Policies,        \* whether policies start updates too
  Packages,        \* what package discovery may find
  StorageFails,    \* whether a database call may return an error
  MaxJobs,         \* bound on jobs created
  MaxAdmissions,   \* bound on admissions between two restarts
  MaxApprovals,    \* bound on plans published between two restarts
  MaxEdits         \* bound on changes of the deferral rules

ASSUME ActionsAssumption ==
  /\ Kinds \subseteq JobKinds
  /\ {Policies, StorageFails} \subseteq BOOLEAN
  /\ Policies => ~StorageFails     \* see StartAction
  /\ {MaxJobs, MaxAdmissions, MaxApprovals, MaxEdits} \subseteq Nat
  /\ Packages \cap {"none"} = {}

VARIABLES
  proc,      \* the process: "up", "stopping", "down" or "recovering"
  rt,        \* runtime status of the server (serverState.statusMap[name])
  jobs,      \* persisted jobs of the server
  act,       \* Actions -> control state of the caller and of its runner
  rules,     \* active deferral rules, as the content hash that is their revision
  edits,     \* changes of the rules so far
  screen,    \* the pending plan an operator's browser displays
  granted,   \* observation: the decisions so far that allowed an upgrade
  host       \* observation: is the outcome of the last APT mutation known?

vars == <<proc, rt, jobs, act, rules, edits, screen, granted, host>>

-----------------------------------------------------------------------------
(* State                                                                    *)

RuleSets == {"no_rules", "held"}

Plan == [pkgs : Packages \cup {"none"}, rules : RuleSets]

NoPlan == [pkgs |-> "none", rules |-> "no_rules"]

Scopes == {"none", "all", "security"}

JobIDs == 0 .. MaxJobs          \* 0 is the empty job ID

Runtime == [status   : ProgressStatuses \cup RestStatuses,
            job      : JobIDs,
            rev      : Nat \cup {-1},
            gen      : 0 .. MaxAdmissions,
            running  : BOOLEAN,
            approval : 0 .. MaxApprovals,
            plan     : Plan,
            scope    : Scopes]

IdleStatus ==
  [status |-> "idle", job |-> 0, rev |-> 0, gen |-> 0, running |-> FALSE,
   approval |-> 0, plan |-> NoPlan, scope |-> "none"]

\* Program points: of startAction ("create", "bind"), of the runner, and of a
\* job transition the runner makes ("read" to "publish_job").
Points ==
  {"free", "create", "bind", "start", "admission_failed", "restore",
   "begin", "init", "dial_phase", "dial", "work", "publish", "auto_approve",
   "poll", "decide", "reconnect", "revalidate", "nothing_left", "republish",
   "mutation_phase", "mutation_refused", "upgrading", "guard", "dispatch", "command",
   "postcheck_phase", "postchecks", "finish",
   "read", "write", "reread", "publish_job"}

Transition == [intent : Intent,
               only   : BOOLEAN,        \* TransitionActive
               merge  : BOOLEAN,        \* MergeActiveMetadata: retries
               seen   : Job,            \* the record last read
               ok     : Points,
               err    : Points]

NoTransition ==
  [intent |-> Intend(Keep, Keep, Keep), only |-> FALSE, merge |-> FALSE,
   seen |-> QueuedJob("update"), ok |-> "free", err |-> "free"]

Action == [pc        : Points,
           kind      : JobKinds,
           job       : JobIDs,
           gen       : 0 .. MaxAdmissions,  \* admittedGeneration
           saw_gen   : 0 .. MaxAdmissions,  \* generation to bind to, then to finish
           prev      : Runtime,             \* admittedSnapshot
           phase     : Phases,              \* r.jobPhase
           scheduled : BOOLEAN,             \* started by a policy
           changed   : BOOLEAN,             \* approvalChanged
           plan      : Plan,
           scope     : Scopes,
           saw       : RuleSets \cup {"unavailable"},
           gate      : BOOLEAN,             \* holds the deferral gate shared
           before    : {"known", "unknown"},
           tx        : Transition]

NoAction ==
  [pc |-> "free", kind |-> "update", job |-> 0, gen |-> 0, saw_gen |-> 0,
   prev |-> IdleStatus, phase |-> "", scheduled |-> FALSE, changed |-> FALSE, plan |-> NoPlan,
   scope |-> "none", saw |-> "no_rules", gate |-> FALSE, before |-> "known",
   tx |-> NoTransition]

Screen == [job : JobIDs, approval : 0 .. MaxApprovals, plan : Plan]

NoScreen == [job |-> 0, approval |-> 0, plan |-> NoPlan]

Grant == [job : JobIDs, scope : Scopes, plan : Plan]

\* Runtime status, job records and the variables of runners and browsers keep
\* their types: in particular applyIntent installs no unset field, and no
\* runner reads a job that is not there.
TypeOK ==
  /\ proc \in {"up", "stopping", "down", "recovering"}
  /\ rt \in Runtime
  /\ jobs \in Seq(Job) /\ Len(jobs) <= MaxJobs
  /\ act \in [Actions -> Action]
  /\ rules \in RuleSets
  /\ edits \in 0 .. MaxEdits
  /\ screen \in Screen
  /\ granted \in Seq(Grant)
  /\ host \in {"known", "unknown"}

Init ==
  /\ proc = "up"
  /\ rt = IdleStatus
  /\ jobs = << >>
  /\ act = [a \in Actions |-> NoAction]
  /\ rules = "no_rules"
  /\ edits = 0
  /\ screen = NoScreen
  /\ granted = << >>
  /\ host = "known"

-----------------------------------------------------------------------------
(* Building blocks                                                          *)

Alive == proc \in {"up", "stopping"}

StorageResults == IF StorageFails THEN BOOLEAN ELSE {TRUE}

At(a, point) == Alive /\ act[a].pc = point

Set(a, r) == act' = [act EXCEPT ![a] = r]

Goto(a, point) == Set(a, [act[a] EXCEPT !.pc = point])

\* r continues with a job transition, then at ok or, on an error, at err.
Calls(r, intent, only, merge, ok, err) ==
  [r EXCEPT !.pc = "read",
            !.tx = [NoTransition EXCEPT !.intent = intent, !.only = only,
                                        !.merge = merge, !.ok = ok, !.err = err]]

Transitions(r, intent, ok, err) == Calls(r, intent, FALSE, FALSE, ok, err)

TransitionsActive(r, intent, next) == Calls(r, intent, TRUE, FALSE, next, next)

\* UpdateScheduledDiscoveryMeta: only jobs of a policy carry the metadata.
MergesDiscovery(r, next) ==
  IF r.scheduled
  THEN Calls(r, Intend(Keep, Keep, Keep), TRUE, TRUE, next, next)
  ELSE [r EXCEPT !.pc = next]

Returns(r, point) == [r EXCEPT !.pc = point, !.tx = NoTransition]

\* withStatus for a status other than pending_approval: published under the
\* lock if the job still owns the server, then asked of the job without it.
WithStatus(a, r, published, next) ==
  IF rt.job = r.job
  THEN /\ rt' = published
       /\ Set(a, TransitionsActive(r, IntentFromStatus(published.status, r.phase), next))
  ELSE /\ Set(a, [r EXCEPT !.pc = next])
       /\ UNCHANGED rt

StatusOnly(status) == [rt EXCEPT !.status = status]

StatusWithoutPlan(status) ==
  [rt EXCEPT !.status = status, !.plan = NoPlan, !.scope = "none"]

\* setErrorLogs
Errors(a, r) == WithStatus(a, r, StatusOnly("error"), "finish")

\* setCommandErrorLogs
CommandErrors(a, r, unknownOutcome) ==
  IF r.kind = "apt_repair" \/ unknownOutcome
  THEN WithStatus(a, r, StatusOnly("needs_reconciliation"), "finish")
  ELSE Errors(a, r)

Completes(a, r) ==
  WithStatus(a, r, IF r.kind = "update" THEN StatusWithoutPlan("done")
                                        ELSE StatusOnly("done"), "finish")

\* interruptForShutdown: whoever owns the server, its status becomes idle.
Interrupts(a, r) ==
  /\ proc = "stopping"
  /\ rt' = StatusWithoutPlan("idle")
  /\ Set(a, Transitions([r EXCEPT !.phase = "complete"],
                        Intend("interrupted", "complete", "other"), "finish", "finish"))

-----------------------------------------------------------------------------
(* Admission: startAction up to the start of the runner                     *)

InProgress == rt.running \/ rt.status \in ProgressStatuses

\* Mutant: the status alone decides, as if ActionRunning did not exist.
AdmitsWhileRunning(kind) ==
  /\ rt.status \notin ProgressStatuses
  /\ kind \in {"update", "autoremove"} => rt.status # "needs_reconciliation"
  /\ kind = "apt_repair" => rt.status = "needs_reconciliation"
  /\ kind = "reboot" => rt.status \in {"idle", "done", "error", "cancelled"}

Admits(kind) ==
  /\ ~InProgress
  /\ kind \in {"update", "autoremove"} => rt.status # "needs_reconciliation"
  /\ kind = "apt_repair" => rt.status = "needs_reconciliation"
  /\ kind = "reboot" => rt.status \in {"idle", "done", "error", "cancelled"}

\* A scheduled update is admitted by BeginPackageMutation on the same terms; it
\* differs in how it undoes a start whose database calls fail, which is not
\* modelled here.  The bounds are those of the model.
StartAction(a, kind, scheduled) ==
  /\ proc = "up"
  /\ act[a].pc = "free"
  /\ Len(jobs) < MaxJobs /\ rt.gen < MaxAdmissions
  /\ kind = "update" => rt.approval < MaxApprovals
  /\ Admits(kind)
  /\ rt' = [rt EXCEPT !.gen = rt.gen + 1, !.job = 0, !.rev = -1,
                      !.status = StartedStatus(kind)]
  /\ Set(a, [NoAction EXCEPT !.pc = "create", !.kind = kind, !.gen = rt.gen + 1,
                             !.prev = rt, !.scheduled = scheduled])
  /\ UNCHANGED <<proc, jobs, rules, edits, screen, granted, host>>

\* RestoreAdmittedAction: a newer admission keeps its status.
RestoreAdmitted(r) ==
  rt' = IF rt.gen = r.gen THEN [r.prev EXCEPT !.gen = r.gen] ELSE rt

CreateJob(a) ==
  /\ At(a, "create")
  /\ \/ /\ Len(jobs) < MaxJobs
        /\ jobs' = Append(jobs, QueuedJob(act[a].kind))
        /\ Set(a, [act[a] EXCEPT !.pc = "bind", !.job = Len(jobs) + 1,
                                 !.saw_gen = rt.gen])
        /\ UNCHANGED rt
     \/ /\ FALSE \in StorageResults
        /\ RestoreAdmitted(act[a])
        /\ Set(a, NoAction)
        /\ UNCHANGED jobs
  /\ UNCHANGED <<proc, rules, edits, screen, granted, host>>

BindActionJob(a) ==
  /\ At(a, "bind")
  /\ IF rt.gen = act[a].saw_gen /\ ~ (rt.running /\ rt.job # act[a].job)
     THEN /\ rt' = [rt EXCEPT !.job = act[a].job, !.rev = -1]
          /\ Goto(a, "start")
     ELSE /\ RestoreAdmitted(act[a])
          /\ Set(a, NoAction)
  /\ UNCHANGED <<proc, jobs, rules, edits, screen, granted, host>>

StartJobRunner(a) ==
  /\ At(a, "start")
  /\ Set(a, Transitions(act[a], Intend("running", Keep, Keep),
                        "begin", "admission_failed"))
  /\ UNCHANGED <<proc, rt, jobs, rules, edits, screen, granted, host>>

RunnerAdmissionFails(a) ==
  /\ At(a, "admission_failed")
  /\ Set(a, Transitions(act[a], Intend("failed", "complete", "other"),
                        "restore", "restore"))
  /\ UNCHANGED <<proc, rt, jobs, rules, edits, screen, granted, host>>

RestoreAdmittedAction(a) ==
  /\ At(a, "restore")
  /\ RestoreAdmitted(act[a])
  /\ Set(a, NoAction)
  /\ UNCHANGED <<proc, jobs, rules, edits, screen, granted, host>>

-----------------------------------------------------------------------------
(* A job transition of a runner: Manager.transition, MergeActiveMetadata    *)

ReadJob(a) ==
  /\ At(a, "read")
  /\ LET r      == act[a]
         job    == jobs[r.job]
         target == Or(r.tx.intent.status, job.status)
     IN \/ /\ IsActive(job) /\ ValidTransition(job.status, target)
           /\ Set(a, [r EXCEPT !.pc = "write", !.tx.seen = job])
        \/ /\ IsActive(job) /\ ~ValidTransition(job.status, target)
           /\ Set(a, Returns(r, r.tx.err))
        \/ /\ IsTerminal(job)
           /\ Set(a, Returns(r, IF r.tx.only \/ target = job.status
                                THEN r.tx.ok ELSE r.tx.err))
        \/ /\ FALSE \in StorageResults
           /\ Set(a, Returns(r, r.tx.err))
  /\ UNCHANGED <<proc, rt, jobs, rules, edits, screen, granted, host>>

\* Mutant: the write ignores the revision.
WriteJobBlindly(a) ==
  /\ At(a, "write")
  /\ jobs' = [jobs EXCEPT ![act[a].job] = ApplyIntent(act[a].tx.seen, act[a].tx.intent)]
  /\ Set(a, [act[a] EXCEPT !.pc = "reread"])
  /\ UNCHANGED <<proc, rt, rules, edits, screen, granted, host>>

\* The write is conditional on the revision read.
WriteJob(a) ==
  /\ At(a, "write")
  /\ LET r == act[a]
     IN \/ /\ jobs[r.job].rev = r.tx.seen.rev
           /\ jobs' = [jobs EXCEPT ![r.job] = ApplyIntent(r.tx.seen, r.tx.intent)]
           /\ Set(a, [r EXCEPT !.pc = "reread"])
        \/ /\ jobs[r.job].rev # r.tx.seen.rev
           /\ Set(a, IF r.tx.merge THEN [r EXCEPT !.pc = "read"]
                     ELSE Returns(r, IF r.tx.only THEN r.tx.ok ELSE r.tx.err))
           /\ UNCHANGED jobs
        \/ /\ FALSE \in StorageResults
           /\ Set(a, Returns(r, r.tx.err))
           /\ UNCHANGED jobs
  /\ UNCHANGED <<proc, rt, rules, edits, screen, granted, host>>

RereadJob(a) ==
  /\ At(a, "reread")
  /\ \/ Set(a, [act[a] EXCEPT !.pc = "publish_job", !.tx.seen = jobs[act[a].job]])
     \/ FALSE \in StorageResults /\ Set(a, Returns(act[a], act[a].tx.ok))
  /\ UNCHANGED <<proc, rt, jobs, rules, edits, screen, granted, host>>

\* syncServerStateFromJobRecord accepts the record of the job that owns the
\* server, or of any job while none owns it, and no record older than the
\* one already published.
AcceptsRecord(id, record) ==
  IF rt.job = id THEN record.rev > rt.rev ELSE rt.job = 0 /\ rt.gen = 0

SyncedRuntime(id, record) ==
  IF AcceptsRecord(id, record)
  THEN LET status == RuntimeStatusFromJob(record)
       IN [(IF record.status = "interrupted" THEN StatusWithoutPlan(status)
                                             ELSE StatusOnly(status))
             EXCEPT !.rev = record.rev, !.job = id]
  ELSE rt

PublishJob(a) ==
  /\ At(a, "publish_job")
  /\ rt' = SyncedRuntime(act[a].job, act[a].tx.seen)
  /\ Set(a, Returns(act[a], act[a].tx.ok))
  /\ UNCHANGED <<proc, jobs, rules, edits, screen, granted, host>>

-----------------------------------------------------------------------------
(* The runner: runWithActorShared, runCommandJob and RunUpdateJob up to the *)
(* publication of a plan                                                    *)

UsesApt(r) == r.kind \in {"autoremove", "apt_repair"}

\* startAction's deferred RestoreAdmittedAction: sudoers actions keep the
\* server's reconciliation requirement.
PreservesReconciliation(r) ==
  r.kind = "sudoers" /\ r.prev.status = "needs_reconciliation"

RunReturns(a) ==
  Set(a, IF PreservesReconciliation(act[a])
         THEN [act[a] EXCEPT !.pc = "restore"] ELSE NoAction)

BeginActionRunner(a) ==
  /\ At(a, "begin")
  /\ IF rt.running \/ (rt.job # act[a].job /\ rt.gen # 0)
     THEN RunReturns(a) /\ UNCHANGED rt
     ELSE /\ rt' = [rt EXCEPT !.running = TRUE, !.job = act[a].job,
                              !.rev = IF rt.job = act[a].job THEN rt.rev ELSE -1]
          /\ Set(a, [act[a] EXCEPT !.pc = "init", !.saw_gen = rt.gen])
  /\ UNCHANGED <<proc, jobs, rules, edits, screen, granted, host>>

InitStatus(a) ==
  /\ At(a, "init")
  /\ IF rt.job = act[a].job
     THEN WithStatus(a, act[a], IF act[a].kind = "update"
                                THEN StatusWithoutPlan("updating")
                                ELSE StatusOnly(StartedStatus(act[a].kind)), "dial_phase")
     ELSE /\ Set(a, Transitions(act[a], Intend("failed", "complete", "other"),
                                "finish", "finish"))
          /\ UNCHANGED rt
  /\ UNCHANGED <<proc, jobs, rules, edits, screen, granted, host>>

SetDialPhase(a) ==
  /\ At(a, "dial_phase")
  /\ Set(a, Transitions([act[a] EXCEPT !.phase = "prepare"],
                        Intend(Keep, "prepare", Keep), "dial", "dial"))
  /\ UNCHANGED <<proc, rt, jobs, rules, edits, screen, granted, host>>

SetupSSH(a) ==
  /\ At(a, "dial")
  /\ \/ Goto(a, "work") /\ UNCHANGED rt
     \/ CommandErrors(a, act[a], FALSE)
     \/ Interrupts(a, act[a])
  /\ UNCHANGED <<proc, jobs, rules, edits, screen, granted, host>>

\* RunRebootJob and the two sudoers jobs change no package.
RunSystemCommand(a) ==
  /\ At(a, "work") /\ act[a].kind \in {"reboot", "sudoers"}
  /\ Completes(a, act[a]) \/ Errors(a, act[a]) \/ Interrupts(a, act[a])
  /\ UNCHANGED <<proc, jobs, rules, edits, screen, granted, host>>

\* guardUnplannedPackageMutation: the gate is held until the job returns.
GuardUnplannedMutation(a) ==
  /\ At(a, "work") /\ UsesApt(act[a])
  /\ LET r == [act[a] EXCEPT !.gate = TRUE]
     IN \/ /\ rules = "no_rules"
           /\ Set(a, [r EXCEPT !.pc = "mutation_phase"])
           /\ UNCHANGED rt
        \/ /\ rules # "no_rules" \/ FALSE \in StorageResults
           /\ Errors(a, r)
  /\ UNCHANGED <<proc, jobs, rules, edits, screen, granted, host>>

\* Pre-checks, apt update, package discovery and the plan's disk check.
DiscoverPackages(a) ==
  /\ At(a, "work") /\ act[a].kind = "update"
  /\ \/ \E pkgs \in Packages :
          /\ Set(a, MergesDiscovery(
                      [act[a] EXCEPT !.plan = [pkgs |-> pkgs, rules |-> rules]],
                      "publish"))
          /\ UNCHANGED rt
     \/ Completes(a, act[a])
     \/ Errors(a, act[a])
     \/ Interrupts(a, act[a])
  /\ UNCHANGED <<proc, jobs, rules, edits, screen, granted, host>>

-----------------------------------------------------------------------------
(* The approval loop of RunUpdateJob                                        *)

CanWait(job) == job.status \in {"running", "waiting_approval"}

Waiting(job) == ApplyIntent(job, Intend("waiting_approval", Keep, Keep))

\* withStatus for pending_approval: the job waits before the plan is shown,
\* both under the state lock.
PublishPlan(a) ==
  /\ At(a, "publish")
  /\ LET r   == act[a]
         job == jobs[r.job]
     IN \/ /\ rt.job = r.job /\ CanWait(job)
           /\ rt.approval < MaxApprovals
           /\ jobs' = [jobs EXCEPT ![r.job] = Waiting(job)]
           /\ rt' = [rt EXCEPT !.status = "pending_approval", !.plan = r.plan,
                               !.scope = "none", !.approval = rt.approval + 1,
                               !.rev = job.rev + 1]
           /\ \E point \in {"poll"} \cup (IF r.scheduled /\ ~r.changed
                                         THEN {"auto_approve"} ELSE {}) :
                Goto(a, point)
        \/ /\ rt.job = r.job /\ (~CanWait(job) \/ FALSE \in StorageResults)
           /\ Errors(a, r)
           /\ UNCHANGED jobs
        \/ /\ rt.job # r.job
           /\ Goto(a, "finish")
           /\ UNCHANGED <<rt, jobs>>
  /\ UNCHANGED <<proc, rules, edits, screen, granted, host>>

AutoApprove(a) ==
  /\ At(a, "auto_approve")
  /\ IF rt.status = "pending_approval"
     THEN \E scope \in {"all", "security"} :
            /\ rt' = [rt EXCEPT !.status = "approved", !.scope = scope]
            /\ granted' = Append(granted, [job |-> act[a].job, scope |-> scope,
                                           plan |-> act[a].plan])
            /\ Set(a, [act[a] EXCEPT !.pc = "revalidate", !.scope = scope])
     ELSE Goto(a, "finish") /\ UNCHANGED <<rt, granted>>
  /\ UNCHANGED <<proc, jobs, rules, edits, screen, host>>

\* One turn of the approval poll: the rules are read before the lock is taken.
PollRules(a) ==
  /\ At(a, "poll")
  /\ \/ /\ \E saw \in {rules} \cup (IF StorageFails THEN {"unavailable"} ELSE {}) :
             Set(a, [act[a] EXCEPT !.pc = "decide", !.saw = saw])
        /\ UNCHANGED rt
     \/ Interrupts(a, act[a])
  /\ UNCHANGED <<proc, jobs, rules, edits, screen, granted, host>>

\* The end of a turn that neither accepted an approval nor closed the wait.
AfterDecision(a, r, next) ==
  CASE r.saw = "unavailable" -> Errors(a, r)
    [] r.saw = r.plan.rules  -> Set(a, [r EXCEPT !.pc = next]) /\ UNCHANGED rt
    [] OTHER -> Set(a, [r EXCEPT !.pc = "reconnect", !.scope = "all"]) /\ UNCHANGED rt

DecideApproved(a) ==
  /\ At(a, "decide") /\ rt.status = "approved"
  /\ AfterDecision(a, [act[a] EXCEPT !.scope = rt.scope], "reconnect")
  /\ UNCHANGED <<proc, jobs, rules, edits, screen, granted, host>>

DecidePending(a) ==
  /\ At(a, "decide") /\ rt.status = "pending_approval"
  /\ AfterDecision(a, act[a], "poll")
  /\ UNCHANGED <<proc, jobs, rules, edits, screen, granted, host>>

DecideClosed(a) ==
  /\ At(a, "decide") /\ rt.status \notin {"pending_approval", "approved"}
  /\ rt' = IF rt.status = "cancelled" THEN StatusWithoutPlan("idle") ELSE rt
  /\ Goto(a, "finish")
  /\ UNCHANGED <<proc, jobs, rules, edits, screen, granted, host>>

\* Mutant: the expiry is left to the job's transition to publish.
ExpireJobOnly(a) ==
  /\ At(a, "decide") /\ rt.status = "pending_approval"
  /\ Set(a, Transitions(act[a], Intend("cancelled", "complete", Keep), "finish", "finish"))
  /\ UNCHANGED <<proc, rt, jobs, rules, edits, screen, granted, host>>

\* Mutant: the expiry is not recorded on the job.
ExpireStatusOnly(a) ==
  /\ At(a, "decide") /\ rt.status = "pending_approval"
  /\ rt' = StatusWithoutPlan("idle")
  /\ Goto(a, "finish")
  /\ UNCHANGED <<proc, jobs, rules, edits, screen, granted, host>>

DecideExpired(a) ==
  /\ At(a, "decide") /\ rt.status = "pending_approval"
  /\ rt' = StatusWithoutPlan("idle")
  /\ Set(a, Transitions(act[a], Intend("cancelled", "complete", Keep), "finish", "finish"))
  /\ UNCHANGED <<proc, jobs, rules, edits, screen, granted, host>>

\* appendStatusLog: withStatus with the status unchanged.  A pending plan is
\* committed again; if that fails the status becomes error and the runner,
\* which ignores the result, goes on.
AppendsLog(a, r, next) ==
  \/ /\ rt.job = r.job /\ rt.status = "pending_approval" /\ CanWait(jobs[r.job])
     /\ jobs' = [jobs EXCEPT ![r.job] = Waiting(jobs[r.job])]
     /\ rt' = [rt EXCEPT !.rev = jobs[r.job].rev + 1]
     /\ Set(a, [r EXCEPT !.pc = next])
  \/ /\ rt.job = r.job /\ rt.status = "pending_approval"
     /\ ~CanWait(jobs[r.job]) \/ FALSE \in StorageResults
     /\ WithStatus(a, r, StatusOnly("error"), next)
     /\ UNCHANGED jobs
  \/ /\ rt.job # r.job \/ rt.status # "pending_approval"
     /\ WithStatus(a, r, rt, next)
     /\ UNCHANGED jobs

\* Reconnecting may log a failed attempt.
Reconnect(a) ==
  /\ At(a, "reconnect")
  /\ \/ Goto(a, "revalidate") /\ UNCHANGED <<rt, jobs>>
     \/ AppendsLog(a, act[a], "revalidate")
  /\ UNCHANGED <<proc, rules, edits, screen, granted, host>>

\* Mutant: what is found again is not compared with what was approved.
ComparesProfileOnly(r, fresh, profileChanged, nothingSelected) ==
  CASE fresh.pkgs = "none" -> "nothing_left"
    [] profileChanged      -> "republish"
    [] OTHER               -> "mutation_phase"

\* revalidateApproval and the comparison with the plan on display; a changed
\* post-check profile counts as a change.  A security scope that selects
\* nothing any more ends the update.
AfterRevalidation(r, fresh, profileChanged, nothingSelected) ==
  LET changed == fresh # r.plan \/ profileChanged
      skip    == /\ nothingSelected /\ r.scope = "security" /\ ~profileChanged
                 /\ fresh.rules = "no_rules" \/ ~changed
  IN CASE fresh.pkgs = "none" \/ skip -> "nothing_left"
       [] changed                     -> "republish"
       [] OTHER                       -> "mutation_phase"

Revalidate(a) ==
  /\ At(a, "revalidate")
  /\ \/ \E pkgs \in Packages \cup {"none"}, profileChanged, nothingSelected \in BOOLEAN :
          LET fresh == [pkgs |-> pkgs, rules |-> rules]
              next  == AfterRevalidation(act[a], fresh, profileChanged, nothingSelected)
          IN /\ next = "republish" => rt.approval < MaxApprovals
             /\ Set(a, MergesDiscovery([act[a] EXCEPT !.plan = fresh], next))
             /\ UNCHANGED rt
     \/ Errors(a, act[a])
     \/ Interrupts(a, act[a])
  /\ UNCHANGED <<proc, jobs, rules, edits, screen, granted, host>>

NothingLeft(a) ==
  /\ At(a, "nothing_left")
  /\ Completes(a, act[a])
  /\ UNCHANGED <<proc, jobs, rules, edits, screen, granted, host>>

Republish(a) ==
  /\ At(a, "republish")
  /\ AppendsLog(a, [act[a] EXCEPT !.changed = TRUE], "publish")
  /\ UNCHANGED <<proc, rules, edits, screen, granted, host>>

-----------------------------------------------------------------------------
(* Package mutation                                                         *)

\* Mutant: a mutation phase that could not be persisted stops nobody.
MutationPhaseBestEffort(a) ==
  /\ At(a, "mutation_phase")
  /\ LET next == IF UsesApt(act[a]) THEN "dispatch" ELSE "upgrading"
     IN Set(a, Transitions([act[a] EXCEPT !.phase = "mutation"],
                           Intend("running", "mutation", Keep), next, next))
  /\ UNCHANGED <<proc, rt, jobs, rules, edits, screen, granted, host>>

\* requireMutationPhase: the phase is persisted before the command is sent.
\* An update first validates a remediation plan, where it carries one.
RequireMutationPhase(a) ==
  /\ At(a, "mutation_phase")
  /\ \/ /\ Set(a, Transitions([act[a] EXCEPT !.phase = "mutation"],
                              Intend("running", "mutation", Keep),
                              IF UsesApt(act[a]) THEN "dispatch" ELSE "upgrading",
                              "mutation_refused"))
        /\ UNCHANGED rt
     \/ act[a].kind = "update" /\ Errors(a, act[a])
  /\ UNCHANGED <<proc, jobs, rules, edits, screen, granted, host>>

RefuseMutation(a) ==
  /\ At(a, "mutation_refused")
  /\ CommandErrors(a, act[a], FALSE)
  /\ UNCHANGED <<proc, jobs, rules, edits, screen, granted, host>>

PublishUpgrading(a) ==
  /\ At(a, "upgrading")
  /\ WithStatus(a, act[a], StatusWithoutPlan("upgrading"), "guard")
  /\ UNCHANGED <<proc, jobs, rules, edits, screen, granted, host>>

\* guardPackageDeferrals, after the interpretation of the approved scope,
\* which may refuse too.
GuardPackageDeferrals(a) ==
  /\ At(a, "guard")
  /\ \/ /\ rules = act[a].plan.rules
        /\ Set(a, [act[a] EXCEPT !.pc = "dispatch", !.gate = TRUE])
        /\ UNCHANGED rt
     \/ Errors(a, act[a])
  /\ UNCHANGED <<proc, jobs, rules, edits, screen, granted, host>>

SendCommand(a) ==
  /\ At(a, "dispatch")
  /\ Set(a, [act[a] EXCEPT !.pc = "command", !.before = host])
  /\ host' = "unknown"
  /\ UNCHANGED <<proc, rt, jobs, rules, edits, screen, granted>>

\* What RunCommand reports: success, a failure of known outcome, an outcome
\* nobody knows, or a shutdown before anything was sent.  An update releases
\* the deferral gate at once.
CommandReturns(a) ==
  /\ At(a, "command")
  /\ LET r == [act[a] EXCEPT !.gate = UsesApt(act[a])]
     IN \/ /\ host' = "known"
           /\ \/ Completes(a, r)
              \/ /\ r.kind = "update"
                 /\ Set(a, [r EXCEPT !.pc = "postcheck_phase"])
                 /\ UNCHANGED rt
        \/ host' = r.before /\ CommandErrors(a, r, FALSE)
        \/ host' = "unknown" /\ CommandErrors(a, r, TRUE)
        \/ host' = r.before /\ Interrupts(a, r)
  /\ UNCHANGED <<proc, jobs, rules, edits, screen, granted>>

SetPostcheckPhase(a) ==
  /\ At(a, "postcheck_phase")
  /\ Set(a, Transitions([act[a] EXCEPT !.phase = "postchecks"],
                        Intend(Keep, "postchecks", Keep), "postchecks", "postchecks"))
  /\ UNCHANGED <<proc, rt, jobs, rules, edits, screen, granted, host>>

RunPostchecks(a) ==
  /\ At(a, "postchecks")
  /\ Completes(a, act[a]) \/ Errors(a, act[a]) \/ Interrupts(a, act[a])
  /\ UNCHANGED <<proc, jobs, rules, edits, screen, granted, host>>

FinishActionRunner(a) ==
  /\ At(a, "finish")
  /\ rt' = IF rt.job = act[a].job /\ rt.gen = act[a].saw_gen
           THEN [rt EXCEPT !.running = FALSE] ELSE rt
  /\ RunReturns(a)
  /\ UNCHANGED <<proc, jobs, rules, edits, screen, granted, host>>

-----------------------------------------------------------------------------
(* Operators: they see a pending plan, and decide on what they saw          *)

Refresh ==
  /\ proc = "up" /\ rt.status = "pending_approval"
  /\ screen' = [job |-> rt.job, approval |-> rt.approval, plan |-> rt.plan]
  /\ UNCHANGED <<proc, rt, jobs, act, rules, edits, granted, host>>

\* withPendingApproval: the decision names the plan on display.
DecisionIsCurrent ==
  /\ screen.job # 0 /\ screen.approval # 0
  /\ rt.status = "pending_approval"
  /\ rt.job = screen.job
  /\ rt.approval = screen.approval
  /\ rt.plan.rules = screen.plan.rules

\* persistPendingDecision, ResolvePendingApproval
ResolvesJob(intent) ==
  /\ jobs[rt.job].status = "waiting_approval"
  /\ jobs' = [jobs EXCEPT ![rt.job] = ApplyIntent(jobs[rt.job], intent)]

Approve(scope) ==
  /\ proc = "up"
  /\ DecisionIsCurrent
  /\ rt.plan.rules = rules
  /\ ResolvesJob(Intend("running", "mutation", Keep))
  /\ rt' = [rt EXCEPT !.status = "approved", !.scope = scope,
                      !.rev = jobs[rt.job].rev + 1]
  /\ granted' = Append(granted, [job |-> screen.job, scope |-> scope, plan |-> screen.plan])
  /\ UNCHANGED <<proc, act, rules, edits, screen, host>>

Cancel ==
  /\ proc = "up"
  /\ DecisionIsCurrent
  /\ ResolvesJob(Intend("cancelled", "complete", Keep))
  /\ rt' = [StatusWithoutPlan("cancelled") EXCEPT !.rev = jobs[rt.job].rev + 1]
  /\ UNCHANGED <<proc, act, rules, edits, screen, granted, host>>

\* Deferral rules are edited, or expire, under the exclusive gate.
EditRules ==
  /\ proc = "up" /\ edits < MaxEdits
  /\ \A a \in Actions : ~act[a].gate
  /\ rules' \in RuleSets \ {rules}
  /\ edits' = edits + 1
  /\ UNCHANGED <<proc, rt, jobs, act, screen, granted, host>>

-----------------------------------------------------------------------------
(* The process                                                              *)

\* The maintenance context is cancelled.
Shutdown ==
  /\ proc = "up"
  /\ proc' = "stopping"
  /\ UNCHANGED <<rt, jobs, act, rules, edits, screen, granted, host>>

Exit ==
  /\ proc # "down"
  /\ proc' = "down"
  /\ rt' = IdleStatus
  /\ act' = [a \in Actions |-> NoAction]
  /\ granted' = << >>
  /\ UNCHANGED <<jobs, rules, edits, screen, host>>

\* initializeJobManager, first MarkUnfinishedJobsInterrupted ...
RecoverJobs ==
  /\ proc = "down"
  /\ proc' = "recovering"
  /\ jobs' = MarkUnfinishedInterrupted(jobs)
  /\ UNCHANGED <<rt, act, rules, edits, screen, granted, host>>

\* Mutant: only the server's last job is looked at.
RestoreLastJob ==
  /\ proc = "recovering"
  /\ proc' = "up"
  /\ rt' = IF jobs # << >> /\ NeedsRepair(jobs[Len(jobs)])
           THEN SyncedRuntime(Len(jobs), jobs[Len(jobs)]) ELSE rt
  /\ UNCHANGED <<jobs, act, rules, edits, screen, granted, host>>

\* ... then RestoreReconciliationRequiredJobs.
RestoreReconciliation ==
  /\ proc = "recovering"
  /\ proc' = "up"
  /\ \/ ReconciliationRequired(jobs) = {} /\ UNCHANGED rt
     \/ \E id \in ReconciliationRequired(jobs) : rt' = SyncedRuntime(id, jobs[id])
  /\ UNCHANGED <<jobs, act, rules, edits, screen, granted, host>>

-----------------------------------------------------------------------------

StartStep(a) ==
  \/ \E kind \in Kinds, scheduled \in BOOLEAN :
       (scheduled => Policies /\ kind = "update") /\ StartAction(a, kind, scheduled)
  \/ CreateJob(a) \/ BindActionJob(a) \/ StartJobRunner(a)
  \/ RunnerAdmissionFails(a) \/ RestoreAdmittedAction(a)

JobStep(a) == ReadJob(a) \/ WriteJob(a) \/ RereadJob(a) \/ PublishJob(a)

PrepareStep(a) ==
  \/ BeginActionRunner(a) \/ InitStatus(a) \/ SetDialPhase(a) \/ SetupSSH(a)
  \/ RunSystemCommand(a) \/ GuardUnplannedMutation(a) \/ DiscoverPackages(a)

ApprovalStep(a) ==
  \/ PublishPlan(a) \/ AutoApprove(a) \/ PollRules(a) \/ DecideApproved(a)
  \/ DecidePending(a) \/ DecideClosed(a) \/ DecideExpired(a)
  \/ Reconnect(a) \/ Revalidate(a) \/ NothingLeft(a) \/ Republish(a)

MutationStep(a) ==
  \/ RequireMutationPhase(a) \/ RefuseMutation(a) \/ PublishUpgrading(a)
  \/ GuardPackageDeferrals(a) \/ SendCommand(a) \/ CommandReturns(a)
  \/ SetPostcheckPhase(a) \/ RunPostchecks(a) \/ FinishActionRunner(a)

OperatorStep ==
  Refresh \/ (\E scope \in {"all", "security"} : Approve(scope)) \/ Cancel \/ EditRules

ProcessStep == Shutdown \/ Exit \/ RecoverJobs \/ RestoreReconciliation

Next ==
  \/ \E a \in Actions : StartStep(a) \/ JobStep(a) \/ PrepareStep(a)
                        \/ ApprovalStep(a) \/ MutationStep(a)
  \/ OperatorStep
  \/ ProcessStep

Spec == Init /\ [][Next]_vars

\* A runner and a restart make progress.  A pending approval may be polled any
\* number of times, but its deadline passes and stays passed.
RunnerStep(a) ==
  \/ CreateJob(a) \/ BindActionJob(a) \/ StartJobRunner(a)
  \/ RunnerAdmissionFails(a) \/ RestoreAdmittedAction(a)
  \/ JobStep(a) \/ PrepareStep(a) \/ ApprovalStep(a) \/ MutationStep(a)

Fairness ==
  /\ \A a \in Actions : WF_vars(RunnerStep(a)) /\ SF_vars(DecideExpired(a))
  /\ WF_vars(RecoverJobs) /\ WF_vars(RestoreReconciliation)

FairSpec == Spec /\ Fairness

-----------------------------------------------------------------------------
(* Properties                                                               *)

Dispatches(a) == act[a].pc \in {"dispatch", "command"}

Lifecycle == INSTANCE JobLifecycle

Executed(a) == [job |-> act[a].job, scope |-> act[a].scope, plan |-> act[a].plan]

\* The upgrade command a runner sends is for a plan and a scope that an
\* operator, or the policy's automatic approval, accepted for this very job:
\* approval identity, re-validation and republication in RunUpdateJob leave
\* no way to run a plan nobody accepted.
ExecutesApprovedPlan ==
  \A a \in Actions : act[a].kind = "update" /\ Dispatches(a) =>
    \E i \in DOMAIN granted : granted[i] = Executed(a)

\* When two decisions were accepted for a job, an operator's approval and the
\* automatic approval of RunUpdateJob, the later one is carried out.
LastDecisionHolds ==
  \A a \in Actions : act[a].kind = "update" /\ Dispatches(a) =>
    granted # << >> /\ granted[Len(granted)] = Executed(a)

\* While an APT command may be on the host, the job on record is running in
\* its mutation phase: a cancellation that was accepted stops the runner at
\* requireMutationPhase, and none is accepted later.
CommandIsOnRecord ==
  \A a \in Actions :
    Dispatches(a) =>
      /\ jobs[act[a].job].status = "running"
      /\ jobs[act[a].job].phase = "mutation"

\* An APT mutation of unknown outcome is never forgotten: if the process
\* stopped now, the recovery of initializeJobManager would find a job that
\* requires reconciliation, whether the process dies in the middle of the
\* command, before the outcome is saved, or twice during recovery.
UnknownOutcomeSurvivesRestart ==
  host = "unknown" => ReconciliationRequired(MarkUnfinishedInterrupted(jobs)) # {}

\* While the outcome of an APT mutation is unknown, no update, autoremove or
\* reboot is admitted by BeginActionWithOptions: repair comes first.
RepairComesFirst ==
  \A a \in Actions :
    act[a].kind \in {"update", "autoremove", "reboot"} /\ act[a].pc = "create" =>
      host = "known"

\* From BeginActionRunner to FinishActionRunner, terminal publication and
\* audit included, the server belongs to the runner's job and generation: no
\* later admission takes it, so no withStatus of the runner is dropped.
RunnerOwnsServer ==
  \A a \in Actions :
    act[a].pc \in {"init", "dial_phase", "dial", "work", "publish", "poll",
                  "decide", "revalidate", "mutation_phase", "guard", "dispatch",
                  "command", "postchecks", "finish"} =>
      rt.running /\ rt.job = act[a].job /\ rt.gen = act[a].saw_gen

\* A server in an in-progress status has an action that will end it: whatever
\* database calls failed, no status is left behind that blocks admission
\* until the next restart.
NoOrphanedProgress ==
  Alive /\ rt.status \in ProgressStatuses =>
    \E a \in Actions : act[a].pc # "free" /\ act[a].gen = rt.gen

\* The jobs of the server advance as the job store promises (JobLifecycle),
\* although the runner's transitions read and write in separate steps while
\* operators decide: no write is lost and no terminal job comes back.
JobsAdvance == Lifecycle!Spec

\* With a working database, every job that was created ends: by its runner, by
\* an operator, by the expiry of the approval window or by a restart.
JobsEnd ==
  \A id \in 1 .. MaxJobs :
    (id \in DOMAIN jobs /\ IsActive(jobs[id])) ~> (id \in DOMAIN jobs /\ IsTerminal(jobs[id]))

\* With a working database, a server in progress comes to rest and can be
\* admitted again.
ServerComesToRest == InProgress ~> ~InProgress

\* Jobs end and servers come to rest, shutdown, crash and unanswered approvals
\* included (RunUpdateJob, expireApproval, recovery at startup).
ActionsComeToRest == JobsEnd /\ ServerComesToRest

=============================================================================
