------------------------ MODULE ServerActions_proofs ------------------------
(***************************************************************************)
(* What is proved of ServerActions for all of its constants: its types,    *)
(* the runner's hold on the server, the record of a package command, and   *)
(* that its jobs advance as JobLifecycle promises.  The steps that the     *)
(* lemmas leave come first: admission, the two ends of a runner,           *)
(* operators' decisions, shutdown, crash and recovery.                     *)
(***************************************************************************)
EXTENDS ServerActions_lemmas

-----------------------------------------------------------------------------
(* Admission, and the two ends of a runner                                  *)

\* BeginActionWithOptions
LEMMA StartActionSafe ==
  ASSUME IInv, NEW a \in Actions, NEW kind \in JobKinds, NEW scheduled \in BOOLEAN,
         StartAction(a, kind, scheduled)
  PROVE  Safe'
  <1> DEFINE s == [NoAction EXCEPT !.pc = "create", !.kind = kind, !.gen = rt.gen + 1,
                                   !.prev = rt, !.scheduled = scheduled]
  <1>1. /\ act \in [Actions -> Action] /\ jobs \in Seq(Job) /\ Len(jobs) <= MaxJobs
        /\ rt \in Runtime
    BY Zenon DEF IInv, Safe, Core
  <1>2. rt.gen + 1 \in 0 .. MaxAdmissions /\ rt.gen \in Nat
    BY <1>1, ActionsAssumption DEF StartAction, Runtime
  <1>3. s \in Action /\ s.pc = "create" /\ s.gen = rt.gen + 1 /\ s.prev = rt
    <2>1. "create" \in Points
      BY Zenon DEF Points
    <2> QED BY <1>1, <1>2, <2>1, NoActionType, Zenon DEF Action
  <1>4. act' = [act EXCEPT ![a] = s]
    BY Zenon DEF StartAction, Set
  <1> HIDE DEF s
  <1>5. act'[a] = s /\ \A b \in Actions : b # a => act'[b] = act[b]
    BY <1>1, <1>4, Zenon
  <1>6. proc' = "up" /\ proc = "up" /\ jobs' = jobs
    BY Zenon DEF StartAction
  <1>7. ~rt.running /\ rt.status \notin ProgressStatuses
    BY Zenon DEF StartAction, Admits, InProgress
  <1>8. /\ rt' \in Runtime /\ rt'.gen = rt.gen + 1 /\ rt'.job = 0
        /\ ~rt'.running /\ rt'.status \in ProgressStatuses
    <2>1. StartedStatus(kind) \in ProgressStatuses /\ 0 \in JobIDs
      BY StartedStatusType, ActionsAssumption DEF JobIDs
    <2>2. rt' = [rt EXCEPT !.gen = rt.gen + 1, !.job = 0, !.rev = -1,
                           !.status = StartedStatus(kind)]
      BY Zenon DEF StartAction
    <2> QED BY <1>1, <1>2, <1>7, <2>1, <2>2, Zenon DEF Runtime
  <1>9. \A b \in Actions : ~Owner(act[b]) /\ act[b].pc \notin {"create", "bind"}
    BY <1>7, Zenon DEF IInv, Safe, OwnerInv, AdmissionInv
  <1>10. ~Owner(s) /\ ~Bound(s) /\ ReturnsWell(s) /\ SeenOK(s, jobs'[s.job])
         /\ OnRecord(s, jobs'[s.job]) /\ EntersMutation(s)
    BY <1>3, Zenon DEF Owner, Bound, Within, ReturnsWell, SeenOK, OnRecord, EntersMutation,
                RunnerPoints, PlainPoints, MutationPoints, TransitionPoints
  <1>11. Core'
    BY <1>1, <1>3, <1>4, <1>6, <1>8, Zenon DEF Core
  <1>12. TransitionInv' /\ DownInv'
    BY <1>5, <1>6, <1>10, Zenon DEF IInv, Safe, TransitionInv, DownInv, Alive
  <1>13. JobInv'
    <2>1. rt.job <= Len(jobs) /\ Len(jobs) \in Nat
      BY <1>1 DEF IInv, Safe, JobInv
    <2>2. s.pc \in {"free", "create"} /\ s.prev.job <= Len(jobs) /\ rt'.job <= Len(jobs)
      BY <1>3, <1>8, <2>1
    <2> QED BY <1>5, <1>6, <2>2, JobInvKept, Zenon
  <1>14. GenerationInv'
    BY <1>2, <1>3, <1>5, <1>8 DEF IInv, Safe, GenerationInv, Exists
  <1>15. AdmissionInv'
    BY <1>3, <1>5, <1>8, <1>9, Zenon DEF AdmissionInv
  <1>16. BoundInv'
    <2>1. ASSUME NEW b \in Actions, Bound(act[b]) PROVE act[b].job # 0
      BY <2>1 DEF IInv, Safe, JobInv, Exists, Bound, Within, TransitionPoints
    <2> QED BY <1>5, <1>8, <1>10, <2>1, Zenon DEF BoundInv
  <1>17. OwnerInv'
    BY <1>5, <1>9, <1>10, Zenon DEF OwnerInv
  <1>18. SeenInv' /\ RecordInv'
    BY <1>5, <1>6, <1>10, Zenon DEF IInv, Safe, SeenInv, RecordInv
  <1> QED BY <1>11, <1>12, <1>13, <1>14, <1>15, <1>16, <1>17, <1>18, ZenonT(40) DEF Safe

\* CreateJobRecord, where it succeeds.
LEMMA CreateJobSafe ==
  ASSUME IInv, NEW a \in Actions, At(a, "create"), Len(jobs) < MaxJobs,
         jobs' = Append(jobs, QueuedJob(act[a].kind)),
         Set(a, [act[a] EXCEPT !.pc = "bind", !.job = Len(jobs) + 1, !.saw_gen = rt.gen]),
         UNCHANGED <<rt, proc>>
  PROVE  Safe'
  <1> DEFINE s == [act[a] EXCEPT !.pc = "bind", !.job = Len(jobs) + 1, !.saw_gen = rt.gen]
  <1>1. /\ act \in [Actions -> Action] /\ jobs \in Seq(Job) /\ rt \in Runtime
        /\ act[a] \in Action /\ rt.gen \in 0 .. MaxAdmissions
    BY Zenon DEF IInv, Safe, Core, Runtime
  <1>2. Len(jobs) \in Nat /\ Len(jobs) + 1 \in JobIDs
    BY <1>1, ActionsAssumption DEF JobIDs
  <1>3. /\ s \in Action /\ s.pc = "bind" /\ s.job = Len(jobs) + 1 /\ s.gen = act[a].gen
        /\ s.prev = act[a].prev /\ s.saw_gen = rt.gen
    <2>1. "bind" \in Points
      BY Zenon DEF Points
    <2> QED BY <1>1, <1>2, <2>1, Zenon DEF Action
  <1>4. act' = [act EXCEPT ![a] = s]
    BY Zenon DEF Set
  <1> HIDE DEF s
  <1>5. act'[a] = s /\ \A b \in Actions : b # a => act'[b] = act[b]
    BY <1>1, <1>4, Zenon
  <1>6. Alive /\ act[a].pc = "create"
    BY Zenon DEF At
  <1>7. QueuedJob(act[a].kind) \in Job
    BY <1>1, Zenon DEF Action, QueuedJob, Job, ActiveStatuses, Phases, ErrorClasses
  <1>8. /\ jobs' \in Seq(Job) /\ Len(jobs') = Len(jobs) + 1 /\ Len(jobs') <= MaxJobs
        /\ \A i \in 1 .. Len(jobs) : jobs'[i] = jobs[i]
    BY <1>1, <1>2, <1>7, ActionsAssumption
  <1>9. ~Owner(s) /\ ~Bound(s) /\ ReturnsWell(s) /\ SeenOK(s, jobs'[s.job])
        /\ OnRecord(s, jobs'[s.job]) /\ EntersMutation(s)
    BY <1>3, Zenon DEF Owner, Bound, Within, ReturnsWell, SeenOK, OnRecord, EntersMutation,
                RunnerPoints, PlainPoints, MutationPoints, TransitionPoints
  <1>10. Core'
    BY <1>1, <1>3, <1>4, <1>8, Zenon DEF IInv, Safe, Core
  <1>11. TransitionInv' /\ DownInv'
    BY <1>5, <1>6, <1>9, Zenon DEF IInv, Safe, TransitionInv, DownInv, Alive
  <1>12. JobInv'
    <2>1. rt'.job <= Len(jobs') /\ \A b \in Actions : act'[b].prev.job <= Len(jobs')
      <3>1. /\ rt.job <= Len(jobs) /\ rt.job \in Nat
            /\ \A b \in Actions : act[b].prev.job <= Len(jobs) /\ act[b].prev.job \in Nat
        <4>1. \A b \in Actions : act[b].prev \in Runtime
          BY <1>1, Zenon DEF Action
        <4>2. \A r \in Runtime : r.job \in Nat
          BY ActionsAssumption DEF Runtime, JobIDs
        <4>3. JobInv
          BY Zenon DEF IInv, Safe
        <4>4. \A b \in Actions : act[b].prev.job \in Nat
          BY <4>1, <4>2, Zenon
        <4>5. rt.job \in Nat
          BY <1>1, <4>2, Zenon
        <4>6. rt.job <= Len(jobs) /\ \A b \in Actions : act[b].prev.job <= Len(jobs)
          BY <4>3, Zenon DEF JobInv
        <4> QED BY <4>4, <4>5, <4>6, Zenon
      <3>2. \A b \in Actions : act'[b].prev = act[b].prev
        BY <1>3, <1>5, Zenon
      <3>3. \A n \in Nat : n <= Len(jobs) => n <= Len(jobs')
        BY <1>2, <1>8
      <3> QED BY <3>1, <3>2, <3>3, Zenon
    <2>2. \A b \in Actions : Exists(act'[b]) /\ act'[b].pc # "create" =>
             act'[b].job \in 1 .. Len(jobs')
      BY <1>2, <1>3, <1>5, <1>8 DEF IInv, Safe, JobInv
    <2>3. \A b \in Actions : b # a /\ Exists(act'[b]) /\ act'[b].pc # "create" =>
             act'[b].job \in 1 .. Len(jobs)
      BY <1>5, Zenon DEF IInv, Safe, JobInv
    <2> QED BY <1>2, <1>3, <1>5, <2>1, <2>2, <2>3 DEF IInv, Safe, JobInv
  <1>13. GenerationInv'
    BY <1>3, <1>5, <1>6 DEF IInv, Safe, GenerationInv, Exists
  <1>14. AdmissionInv'
    BY <1>3, <1>5, <1>6, Zenon DEF IInv, Safe, AdmissionInv
  <1>15. ASSUME NEW b \in Actions, OthersAreOld(b) PROVE OthersAreOld(b)'
    BY <1>3, <1>5, <1>6, <1>15, Zenon DEF OthersAreOld, Exists
  <1>16. BoundInv' /\ OwnerInv'
    BY <1>5, <1>9, <1>15, Zenon DEF IInv, Safe, BoundInv, OwnerInv
  <1>17. ASSUME NEW b \in Actions, act[b].pc \notin {"free", "create"}
         PROVE  jobs'[act[b].job] = jobs[act[b].job]
    BY <1>8, <1>17, Zenon DEF IInv, Safe, JobInv, Exists
  <1>18. SeenInv'
    <2>1. ASSUME NEW b \in Actions, b # a PROVE SeenOK(act'[b], jobs'[act'[b].job])
      <3>1. CASE act[b].pc # "write"
        BY <1>5, <2>1, <3>1, Zenon DEF SeenOK
      <3>2. CASE act[b].pc = "write"
        <4>1. jobs'[act[b].job] = jobs[act[b].job]
          BY <1>17, <3>2, Zenon
        <4> QED BY <1>5, <2>1, <4>1, ZenonT(40) DEF IInv, Safe, SeenInv
      <3> QED BY <3>1, <3>2, Zenon
    <2> QED BY <1>5, <1>9, <2>1, Zenon DEF SeenInv
  <1>19. RecordInv'
    <2>1. ASSUME NEW b \in Actions, b # a
          PROVE  OnRecord(act'[b], jobs'[act'[b].job]) /\ EntersMutation(act'[b])
      BY <1>5, <1>17, <2>1, ZenonT(40) DEF IInv, Safe, RecordInv, OnRecord, MutationPoints
    <2> QED BY <1>5, <1>9, <2>1, Zenon DEF RecordInv
  <1> QED BY <1>10, <1>11, <1>12, <1>13, <1>14, <1>16, <1>18, <1>19, Zenon DEF Safe

\* An action that ends (s is NoAction), or has its admission yet to undo.
LEMMA LeavesSafe ==
  ASSUME IInv, NEW a \in Actions, Alive, Exists(act[a]),
         NEW s \in Action, act' = [act EXCEPT ![a] = s],
         \/ s = NoAction
         \/ s.pc = "restore" /\ Same(act[a], s) /\ act[a].pc # "create",
         jobs' = jobs, proc' = proc,
         rt' \in Runtime, rt'.gen = rt.gen, rt'.job <= Len(jobs),
         rt'.job = rt.job \/ (s = NoAction /\ rt.gen = act[a].gen),
         \/ rt' = rt
         \/ \A b \in Actions : b # a => ~Owner(act[b]) /\ act[b].pc \notin {"create", "bind"}
  PROVE  Safe'
  <1>1. /\ act \in [Actions -> Action] /\ jobs \in Seq(Job)
    BY Zenon DEF IInv, Safe, Core
  <1>2. act'[a] = s /\ \A b \in Actions : b # a => act'[b] = act[b]
    BY <1>1, Zenon
  <1>0. NoAction.pc = "free" /\ NoAction.prev.job = 0
    BY Zenon DEF NoAction, IdleStatus
  <1>3. /\ s.pc \in {"free", "restore"}
        /\ s = NoAction => s.pc = "free"
        /\ s.pc = "restore" => Same(act[a], s) /\ act[a].pc # "create"
    BY <1>0, Zenon
  <1>4. s.prev.job <= Len(jobs)
    <2>1. CASE s = NoAction
      BY <1>0, <1>1, <2>1
    <2>2. CASE Same(act[a], s)
      BY <2>2, Zenon DEF Same, IInv, Safe, JobInv
    <2> QED BY <2>1, <2>2, Zenon
  <1>5. ~Owner(s) /\ ~Bound(s) /\ ReturnsWell(s) /\ SeenOK(s, jobs'[s.job])
        /\ OnRecord(s, jobs'[s.job]) /\ EntersMutation(s)
    BY <1>3, Zenon DEF Owner, Bound, Within, ReturnsWell, SeenOK, OnRecord, EntersMutation,
                RunnerPoints, PlainPoints, MutationPoints, TransitionPoints
  <1>6. Core'
    BY <1>1, Zenon DEF IInv, Safe, Core
  <1>7. TransitionInv' /\ DownInv'
    BY <1>2, <1>5, Zenon DEF IInv, Safe, TransitionInv, DownInv, Alive
  <1>8. JobInv'
    <2>1. \/ s.pc \in {"free", "create"}
          \/ Exists(act[a]) /\ act[a].pc # "create" /\ s.job = act[a].job
      BY <1>3, Zenon DEF Same
    <2> QED BY <1>2, <1>4, <2>1, JobInvKept, Zenon
  <1>9. GenerationInv'
    BY <1>2, <1>3 DEF IInv, Safe, GenerationInv, Exists, Same
  <1>10. AdmissionInv'
    BY <1>2, <1>3, ZenonT(40) DEF IInv, Safe, AdmissionInv
  <1>11. ASSUME NEW b \in Actions, b # a, OthersAreOld(b) PROVE OthersAreOld(b)'
    BY <1>2, <1>3, <1>11 DEF OthersAreOld, Exists, Same
  <1>12. BoundInv'
    <2>1. ASSUME NEW b \in Actions, b # a, Bound(act[b]), rt'.job = act[b].job
          PROVE  OthersAreOld(b)'
      <3>1. CASE rt'.job = rt.job
        BY <1>11, <2>1, <3>1, Zenon DEF IInv, Safe, BoundInv
      <3>2. CASE s = NoAction /\ rt.gen = act[a].gen
        <4>1. ASSUME NEW c \in Actions, c # b, Exists(act'[c]) PROVE act'[c].gen # rt'.gen
          <5>1. CASE c # a
            BY <1>2, <3>2, <4>1, <5>1, ZenonT(40) DEF IInv, Safe, GenerationInv
          <5>2. CASE c = a
            BY <1>2, <1>3, <3>2, <4>1, <5>2, Zenon DEF Exists
          <5> QED BY <5>1, <5>2, Zenon
        <4> QED BY <4>1, Zenon DEF OthersAreOld
      <3> QED BY <3>1, <3>2, Zenon
    <2> QED BY <1>2, <1>5, <2>1, Zenon DEF BoundInv
  <1>13. OwnerInv'
    <2>1. ASSUME NEW b \in Actions, Owner(act'[b])
          PROVE  /\ rt'.running /\ rt'.job = act'[b].job /\ rt'.gen = act'[b].saw_gen
                 /\ OthersAreOld(b)'
      <3>1. b # a /\ Owner(act[b]) /\ act'[b] = act[b]
        BY <1>2, <1>5, <2>1, Zenon
      <3>2. rt' = rt
        BY <3>1, Zenon
      <3>3. OwnerInv
        BY Zenon DEF IInv, Safe
      <3> QED BY <1>11, <3>1, <3>2, <3>3, Zenon DEF OwnerInv
    <2> QED BY <2>1, Zenon DEF OwnerInv
  <1>14. SeenInv' /\ RecordInv'
    BY <1>2, <1>5, Zenon DEF IInv, Safe, SeenInv, RecordInv
  <1> QED BY <1>6, <1>7, <1>8, <1>9, <1>10, <1>12, <1>13, <1>14, Zenon DEF Safe

\* RestoreAdmittedAction gives the server back only while nobody else has it.
LEMMA RestoreAdmittedSafe ==
  ASSUME IInv, NEW a \in Actions, Alive, Exists(act[a]), RestoreAdmitted(act[a]),
         Set(a, NoAction), jobs' = jobs, proc' = proc
  PROVE  Safe'
  <1>1. rt \in Runtime /\ act[a] \in Action /\ act' = [act EXCEPT ![a] = NoAction]
    BY TypedState, Zenon DEF IInv, Set
  <1>2. CASE rt.gen # act[a].gen
    <2>1. rt' = rt
      BY <1>2, Zenon DEF RestoreAdmitted
    <2>2. rt.job <= Len(jobs)
      BY Zenon DEF IInv, Safe, JobInv
    <2> QED BY <1>1, <2>1, <2>2, NoActionType, LeavesSafe, Zenon
  <1>3. CASE rt.gen = act[a].gen
    <2>1. act[a].prev \in Runtime /\ rt.gen \in 0 .. MaxAdmissions
      BY <1>1, Zenon DEF Action, Runtime
    <2>2. rt' = [act[a].prev EXCEPT !.gen = rt.gen]
      BY <1>3, Zenon DEF RestoreAdmitted
    <2>3. rt' \in Runtime /\ rt'.gen = rt.gen /\ rt'.job = act[a].prev.job
      BY <2>1, <2>2, Zenon DEF Runtime
    <2>4. rt'.job <= Len(jobs)
      BY <2>3, Zenon DEF IInv, Safe, JobInv
    <2>5. ASSUME NEW b \in Actions, b # a
          PROVE  ~Owner(act[b]) /\ act[b].pc \notin {"create", "bind"}
      <3>1. ~Owner(act[b])
        BY <1>3, <2>5, ZenonT(40) DEF IInv, Safe, OwnerInv, OthersAreOld
      <3>2. act[b].pc \notin {"create", "bind"}
        BY <1>3, <2>5, Zenon DEF IInv, Safe, AdmissionInv, GenerationInv, Exists
      <3> QED BY <3>1, <3>2, Zenon
    <2> QED BY <1>1, <1>3, <2>3, <2>4, <2>5, NoActionType, LeavesSafe, ZenonT(40)
  <1> QED BY <1>2, <1>3, Zenon

\* BindActionJob takes the server over, or the admission is undone.
LEMMA BindActionJobSafe ==
  ASSUME IInv, NEW a \in Actions, BindActionJob(a)
  PROVE  Safe'
  <1>1. /\ act \in [Actions -> Action] /\ jobs \in Seq(Job) /\ rt \in Runtime
        /\ act[a] \in Action /\ jobs' = jobs /\ proc' = proc /\ Alive /\ act[a].pc = "bind"
    BY ZenonT(40) DEF IInv, Safe, Core, BindActionJob, At
  <1>2. CASE RestoreAdmitted(act[a]) /\ Set(a, NoAction)
    BY <1>1, <1>2, RestoreAdmittedSafe, ZenonT(40) DEF Exists
  <1>3. CASE rt' = [rt EXCEPT !.job = act[a].job, !.rev = -1] /\ Goto(a, "start")
    <2> DEFINE s == [act[a] EXCEPT !.pc = "start"]
    <2>1. s \in Action /\ s.pc = "start" /\ Same(act[a], s)
      <3>1. "start" \in Points
        BY Zenon DEF Points
      <3> QED BY <1>1, <3>1, GotoRecord, Zenon
    <2>2. act' = [act EXCEPT ![a] = s]
      BY <1>3, Zenon DEF Goto, Set
    <2> HIDE DEF s
    <2>3. act'[a] = s /\ \A b \in Actions : b # a => act'[b] = act[b]
      BY <1>1, <2>2, ZenonT(40)
    <2>4. rt.gen = act[a].gen /\ ~rt.running
      BY <1>1, Zenon DEF IInv, Safe, AdmissionInv
    <2>5. /\ rt' \in Runtime /\ rt'.job = act[a].job /\ rt'.gen = rt.gen
          /\ rt'.running = rt.running
      BY <1>1, <1>3, Zenon DEF Runtime, Action
    <2>6. \A b \in Actions : b # a => ~Owner(act[b]) /\ act[b].pc \notin {"create", "bind"}
      BY <1>1, <2>4, ZenonT(40) DEF IInv, Safe, OwnerInv, AdmissionInv, GenerationInv, Exists
    <2>7. ~Owner(s) /\ ReturnsWell(s) /\ SeenOK(s, jobs'[s.job])
          /\ OnRecord(s, jobs'[s.job]) /\ EntersMutation(s)
      BY <2>1, Zenon DEF Owner, Within, ReturnsWell, SeenOK, OnRecord, EntersMutation,
                  RunnerPoints, PlainPoints, MutationPoints, TransitionPoints
    <2>8. Core'
      BY <1>1, <2>1, <2>2, <2>5, Zenon DEF IInv, Safe, Core
    <2>9. TransitionInv' /\ DownInv'
      BY <1>1, <2>3, <2>7, ZenonT(40) DEF IInv, Safe, TransitionInv, DownInv, Alive
    <2>10. JobInv'
      <3>1. JobInv
        BY Zenon DEF IInv, Safe
      <3>2. Exists(act[a]) /\ act[a].pc # "create"
        BY <1>1, ZenonT(40) DEF Exists
      <3>3. s.job = act[a].job /\ s.prev.job <= Len(jobs) /\ rt'.job <= Len(jobs)
        BY <1>1, <2>1, <2>5, <3>1, <3>2 DEF JobInv, Same
      <3> QED BY <1>1, <2>3, <3>2, <3>3, JobInvKept, Zenon
    <2>11. GenerationInv'
      BY <1>1, <2>1, <2>3, <2>5 DEF IInv, Safe, GenerationInv, Exists, Same
    <2>12. AdmissionInv' /\ OwnerInv'
      BY <2>1, <2>3, <2>6, <2>7, Zenon DEF AdmissionInv, OwnerInv
    <2>13. BoundInv'
      <3>1. ASSUME NEW b \in Actions, b # a, Bound(act[b]) PROVE act[b].job # act[a].job
        BY <1>1, <3>1, ZenonT(40) DEF IInv, Safe, JobInv, Exists, Bound, Within, TransitionPoints
      <3>2. OthersAreOld(a)'
        BY <1>1, <2>3, <2>4, <2>5, ZenonT(40) DEF OthersAreOld, IInv, Safe, GenerationInv, Exists
      <3> QED BY <2>3, <2>5, <3>1, <3>2, Zenon DEF BoundInv
    <2>14. SeenInv' /\ RecordInv'
      BY <1>1, <2>3, <2>7, Zenon DEF IInv, Safe, SeenInv, RecordInv
    <2> QED BY <2>8, <2>9, <2>10, <2>11, <2>12, <2>13, <2>14, Zenon DEF Safe
  <1> QED BY <1>2, <1>3, Zenon DEF BindActionJob

\* The runner of a sudoers action may have a reconciliation requirement to keep.
LEMMA RunReturnsRecord ==
  ASSUME IInv, NEW a \in Actions, RunReturns(a)
  PROVE  \E s \in Action : /\ act' = [act EXCEPT ![a] = s]
                           /\ s = NoAction \/ (s.pc = "restore" /\ Same(act[a], s))
  <1>1. act[a] \in Action /\ "restore" \in Points
    BY TypedState, Zenon DEF IInv, Points
  <1>2. CASE Set(a, [act[a] EXCEPT !.pc = "restore"])
    BY <1>1, <1>2, GotoRecord, ZenonT(40) DEF Set
  <1>3. CASE Set(a, NoAction)
    BY <1>3, NoActionType, Zenon DEF Set
  <1> QED BY <1>2, <1>3, Zenon DEF RunReturns

\* FinishActionRunner releases the server.
LEMMA FinishActionRunnerSafe ==
  ASSUME IInv, NEW a \in Actions, FinishActionRunner(a)
  PROVE  Safe'
  <1>1. /\ rt \in Runtime /\ jobs' = jobs /\ proc' = proc /\ Alive /\ act[a].pc = "finish"
    BY Zenon DEF IInv, Safe, Core, FinishActionRunner, At
  <1>2. Owner(act[a]) /\ Exists(act[a]) /\ act[a].pc # "create"
    BY <1>1, Zenon DEF Owner, Within, Exists, RunnerPoints, PlainPoints
  <1>3. rt.running /\ rt.job = act[a].job /\ rt.gen = act[a].saw_gen
    BY <1>2, Zenon DEF IInv, Safe, OwnerInv
  <1>4. rt' = [rt EXCEPT !.running = FALSE]
    BY <1>3, Zenon DEF FinishActionRunner
  <1>5. rt' \in Runtime /\ rt'.gen = rt.gen /\ rt'.job = rt.job
    BY <1>1, <1>4, Zenon DEF Runtime
  <1>6. rt.job <= Len(jobs)
    BY Zenon DEF IInv, Safe, JobInv
  <1>7. ASSUME NEW b \in Actions, b # a
        PROVE  ~Owner(act[b]) /\ act[b].pc \notin {"create", "bind"}
    <2>1. act[b].pc \notin {"create", "bind"}
      BY <1>3, Zenon DEF IInv, Safe, AdmissionInv
    <2>2. ASSUME Owner(act[b]) PROVE FALSE
      <3>1. Exists(act[b]) /\ act[b].pc # "create" /\ act[b].job = rt.job
        BY <2>2, Zenon DEF IInv, Safe, OwnerInv, Owner, Within, Exists, RunnerPoints, PlainPoints,
                    MutationPoints, TransitionPoints
      <3> QED BY <1>2, <1>3, <1>7, <3>1, Zenon DEF IInv, Safe, JobInv
    <2> QED BY <2>1, <2>2, ZenonT(40)
  <1>8. PICK s \in Action : /\ act' = [act EXCEPT ![a] = s]
                            /\ s = NoAction \/ (s.pc = "restore" /\ Same(act[a], s))
    BY RunReturnsRecord, Zenon DEF FinishActionRunner
  <1> QED BY <1>1, <1>2, <1>5, <1>6, <1>7, <1>8, LeavesSafe, Zenon

\* BeginActionRunner takes the server for the runner, or ends it.
LEMMA BeginActionRunnerSafe ==
  ASSUME IInv, NEW a \in Actions, BeginActionRunner(a)
  PROVE  Safe'
  <1>1. /\ act \in [Actions -> Action] /\ jobs \in Seq(Job) /\ rt \in Runtime
        /\ act[a] \in Action /\ jobs' = jobs /\ proc' = proc /\ Alive /\ act[a].pc = "begin"
    BY Zenon DEF IInv, Safe, Core, BeginActionRunner, At
  <1>2. Exists(act[a]) /\ act[a].pc # "create" /\ Bound(act[a])
    BY <1>1, Zenon DEF Exists, Bound, Within
  <1>3. CASE RunReturns(a) /\ UNCHANGED rt
    <2>1. PICK s \in Action : /\ act' = [act EXCEPT ![a] = s]
                              /\ s = NoAction \/ (s.pc = "restore" /\ Same(act[a], s))
      BY <1>3, RunReturnsRecord, ZenonT(40)
    <2>2. rt.job <= Len(jobs)
      BY Zenon DEF IInv, Safe, JobInv
    <2> QED BY <1>1, <1>2, <1>3, <2>1, <2>2, LeavesSafe, Zenon
  <1>4. CASE /\ ~ (rt.running \/ (rt.job # act[a].job /\ rt.gen # 0))
             /\ rt' = [rt EXCEPT !.running = TRUE, !.job = act[a].job,
                                 !.rev = IF rt.job = act[a].job THEN rt.rev ELSE -1]
             /\ Set(a, [act[a] EXCEPT !.pc = "init", !.saw_gen = rt.gen])
    <2> DEFINE s == [act[a] EXCEPT !.pc = "init", !.saw_gen = rt.gen]
    <2>1. rt.gen # 0 /\ act[a].job \in 1 .. Len(jobs)
      <3>1. GenerationInv /\ JobInv
        BY Zenon DEF IInv, Safe
      <3> QED BY <1>2, <3>1 DEF GenerationInv, JobInv
    <2>2. ~rt.running /\ rt.job = act[a].job
      BY <1>4, <2>1, Zenon
    <2>3. /\ rt' \in Runtime /\ rt'.running /\ rt'.job = rt.job /\ rt'.gen = rt.gen
      BY <1>1, <1>4, <2>2, Zenon DEF Runtime
    <2>4. /\ s \in Action /\ s.pc = "init" /\ s.job = act[a].job /\ s.gen = act[a].gen
          /\ s.prev = act[a].prev /\ s.saw_gen = rt.gen
      BY <1>1, ZenonT(40) DEF Action, Runtime, Points
    <2>5. act' = [act EXCEPT ![a] = s]
      BY <1>4, Zenon DEF Set
    <2> HIDE DEF s
    <2>6. act'[a] = s /\ \A b \in Actions : b # a => act'[b] = act[b]
      BY <1>1, <2>5, Zenon
    <2>7. \A b \in Actions : ~Owner(act[b]) /\ act[b].pc \notin {"create", "bind"}
      <3>1. OwnerInv /\ AdmissionInv /\ rt.job # 0
        BY <2>1, <2>2 DEF IInv, Safe
      <3> QED BY <2>2, <3>1, Zenon DEF OwnerInv, AdmissionInv
    <2>8. ~Bound(s) /\ ReturnsWell(s) /\ SeenOK(s, jobs'[s.job])
          /\ OnRecord(s, jobs'[s.job]) /\ EntersMutation(s)
      BY <2>4, Zenon DEF Bound, Within, ReturnsWell, SeenOK, OnRecord, EntersMutation,
                  MutationPoints, TransitionPoints
    <2>9. Core'
      BY <1>1, <2>3, <2>4, <2>5, Zenon DEF IInv, Safe, Core
    <2>10. TransitionInv' /\ DownInv'
      BY <1>1, <2>6, <2>8, ZenonT(40) DEF IInv, Safe, TransitionInv, DownInv, Alive
    <2>11. JobInv'
      <3>1. JobInv
        BY Zenon DEF IInv, Safe
      <3>2. s.prev.job <= Len(jobs) /\ rt'.job <= Len(jobs)
        BY <2>3, <2>4, <3>1, Zenon DEF JobInv
      <3> QED BY <1>1, <1>2, <2>4, <2>6, <3>2, JobInvKept, Zenon
    <2>12. GenerationInv'
      BY <1>1, <1>2, <2>3, <2>4, <2>6 DEF IInv, Safe, GenerationInv, Exists
    <2>13. AdmissionInv'
      BY <2>4, <2>6, <2>7, Zenon DEF AdmissionInv
    <2>14. OthersAreOld(a)'
      BY <1>2, <2>2, <2>3, <2>6, Zenon DEF OthersAreOld, IInv, Safe, BoundInv
    <2>15. OwnerInv'
      BY <2>2, <2>3, <2>4, <2>6, <2>7, <2>14, ZenonT(40) DEF OwnerInv
    <2>16. BoundInv'
      <3>1. ASSUME NEW b \in Actions, b # a, Bound(act[b]) PROVE act[b].job # rt.job
        BY <1>2, <2>2, <3>1, Zenon DEF IInv, Safe, JobInv, Exists, Bound, Within, TransitionPoints
      <3> QED BY <2>3, <2>6, <2>8, <3>1, Zenon DEF BoundInv
    <2>17. SeenInv' /\ RecordInv'
      BY <1>1, <2>6, <2>8, Zenon DEF IInv, Safe, SeenInv, RecordInv
    <2> QED BY <2>9, <2>10, <2>11, <2>12, <2>13, <2>15, <2>16, <2>17, Zenon DEF Safe
  <1> QED BY <1>3, <1>4, Zenon DEF BeginActionRunner

-----------------------------------------------------------------------------
(* Operators and the process                                                *)

\* A decision writes the job that waits for it, which nobody mutates under.
LEMMA DecisionSafe ==
  ASSUME IInv, act' = act, proc' = proc, KeepsServer, rt' = rt \/ rt.job # 0,
         jobs' = jobs \/ /\ rt.job \in 1 .. Len(jobs) /\ Rewrites(rt.job)
                         /\ jobs[rt.job].status = "waiting_approval"
  PROVE  Safe'
  <1>1. /\ jobs \in Seq(Job)
        /\ rt' \in Runtime /\ rt'.job = rt.job /\ rt'.gen = rt.gen /\ rt'.running = rt.running
    BY Zenon DEF IInv, Safe, Core, KeepsServer
  <1>2. /\ jobs' \in Seq(Job) /\ Len(jobs') = Len(jobs)
        /\ \A i \in 1 .. Len(jobs) :
             /\ jobs'[i] = jobs[i] \/ jobs'[i].rev = jobs[i].rev + 1
             /\ InMutation(jobs[i]) => jobs'[i] = jobs[i]
    <2>1. CASE jobs' = jobs
      BY <1>1, <2>1, Zenon
    <2>2. CASE /\ rt.job \in 1 .. Len(jobs) /\ Rewrites(rt.job)
               /\ jobs[rt.job].status = "waiting_approval"
      <3>1. /\ jobs' \in Seq(Job) /\ Len(jobs') = Len(jobs)
            /\ \A i \in 1 .. Len(jobs) : i # rt.job => jobs'[i] = jobs[i]
            /\ jobs'[rt.job] = jobs[rt.job] \/ jobs'[rt.job].rev = jobs[rt.job].rev + 1
        BY <1>1, <2>2, RewritesJobs, Zenon
      <3>2. ~InMutation(jobs[rt.job])
        BY <2>2, Zenon DEF InMutation
      <3> QED BY <3>1, <3>2, Zenon
    <2> QED BY <2>1, <2>2, Zenon
  <1>3. Core'
    BY <1>1, <1>2, Zenon DEF IInv, Safe, Core
  <1>4. TransitionInv' /\ DownInv'
    BY Zenon DEF IInv, Safe, TransitionInv, DownInv, Alive
  <1>5. JobInv' /\ GenerationInv'
    BY <1>1, <1>2, ZenonT(40) DEF IInv, Safe, JobInv, GenerationInv
  <1>6. AdmissionInv'
    BY <1>1, Zenon DEF IInv, Safe, AdmissionInv
  <1>7. BoundInv' /\ OwnerInv'
    BY <1>1, ZenonT(40) DEF IInv, Safe, BoundInv, OwnerInv, OthersAreOld
  <1>8. SeenInv'
    <2>1. ASSUME NEW a \in Actions, act[a].pc = "write"
          PROVE  SeenOK(act[a], jobs'[act[a].job])
      <3>1. act[a].pc \in TransitionPoints
        BY <2>1, Zenon DEF TransitionPoints
      <3>2. /\ act[a].job \in 1 .. Len(jobs) /\ jobs[act[a].job].rev \in Nat
            /\ act[a].tx.seen.rev \in Nat
        BY <3>1, TransitionType, Zenon DEF Transition, Job
      <3>3. jobs'[act[a].job] = jobs[act[a].job]
            \/ jobs'[act[a].job].rev = jobs[act[a].job].rev + 1
        BY <1>2, <3>2, Zenon
      <3>4. SeenOK(act[a], jobs[act[a].job])
        BY Zenon DEF IInv, Safe, SeenInv
      <3>5. CASE jobs'[act[a].job] = jobs[act[a].job]
        BY <3>4, <3>5, Zenon
      <3>6. CASE jobs'[act[a].job].rev = jobs[act[a].job].rev + 1
        <4>1. act[a].tx.seen.rev <= jobs[act[a].job].rev
          BY <2>1, <3>4, ZenonT(40) DEF SeenOK
        <4>2. /\ act[a].tx.seen.rev <= jobs'[act[a].job].rev
              /\ act[a].tx.seen.rev # jobs'[act[a].job].rev
          BY <3>2, <3>6, <4>1
        <4> QED BY <2>1, <3>4, <4>2, Zenon DEF SeenOK
      <3> QED BY <3>3, <3>5, <3>6, Zenon
    <2> QED BY <2>1, Zenon DEF SeenInv, SeenOK
  <1>9. RecordInv'
    <2>1. ASSUME NEW a \in Actions PROVE OnRecord(act[a], jobs'[act[a].job])
      <3>1. CASE act[a].pc \in {"free", "create"}
        BY <3>1, Zenon DEF OnRecord, MutationPoints
      <3>2. CASE act[a].pc \notin {"free", "create"}
        <4>1. act[a].job \in 1 .. Len(jobs)
          BY <3>2, Zenon DEF IInv, Safe, JobInv, Exists
        <4> QED BY <1>2, <4>1, ZenonT(40) DEF IInv, Safe, RecordInv, OnRecord
      <3> QED BY <3>1, <3>2, Zenon
    <2> QED BY <2>1, Zenon DEF IInv, Safe, RecordInv
  <1> QED BY <1>3, <1>4, <1>5, <1>6, <1>7, <1>8, <1>9, ZenonT(40) DEF Safe

\* ResolvePendingApproval writes the job that the server waits for.
LEMMA ResolvesRewrites ==
  ASSUME IInv, DecisionIsCurrent, NEW intent \in Intent, ResolvesJob(intent)
  PROVE  /\ rt.job \in 1 .. Len(jobs) /\ jobs[rt.job] \in Job /\ jobs[rt.job].rev + 1 \in Nat
         /\ Rewrites(rt.job)
  <1>1. rt.job \in 1 .. Len(jobs) /\ jobs \in Seq(Job)
    <2>1. rt.job # 0
      BY Zenon DEF DecisionIsCurrent
    <2>2. rt.job \in Nat /\ jobs \in Seq(Job)
      BY ActionsAssumption DEF IInv, TypeOK, Runtime, JobIDs
    <2>3. rt.job <= Len(jobs)
      BY Zenon DEF IInv, Safe, JobInv
    <2> QED BY <2>1, <2>2, <2>3
  <1>2. jobs[rt.job] \in Job
    BY <1>1
  <1>3. jobs[rt.job].rev + 1 \in Nat
    BY <1>2 DEF Job
  <1> DEFINE new == ApplyIntent(jobs[rt.job], intent)
  <1>4. new \in Job /\ new.rev = jobs[rt.job].rev + 1
    BY <1>2, ApplyIntentType, Zenon
  <1>5. jobs' = [jobs EXCEPT ![rt.job] = new]
    BY Zenon DEF ResolvesJob
  <1> HIDE DEF new
  <1> QED BY <1>1, <1>2, <1>3, <1>4, <1>5, Zenon DEF Rewrites

\* What operators do keeps the invariant.
LEMMA OperatorSafe ==
  ASSUME IInv, OperatorStep
  PROVE  Safe'
  <1>1. rt \in Runtime
    BY Zenon DEF IInv, TypeOK
  <1>2. CASE Refresh \/ EditRules
    BY <1>1, <1>2, ServerUnchanged, DecisionSafe, Zenon DEF Refresh, EditRules
  <1>3. ASSUME NEW scope \in {"all", "security"}, Approve(scope) PROVE Safe'
    <2>1. /\ rt.job \in 1 .. Len(jobs) /\ jobs[rt.job].rev + 1 \in Nat /\ Rewrites(rt.job)
      BY <1>3, EndIntents, ResolvesRewrites, Zenon DEF Approve, IntoMutation
    <2>2. scope \in Scopes
      BY Zenon DEF Scopes
    <2>3. rt' = [rt EXCEPT !.status = "approved", !.scope = scope,
                           !.rev = jobs[rt.job].rev + 1]
      BY <1>3, Zenon DEF Approve
    <2>4. KeepsServer
      BY <1>1, <2>1, <2>2, <2>3, Zenon DEF KeepsServer, Runtime, ProgressStatuses
    <2>5. act' = act /\ proc' = proc /\ jobs[rt.job].status = "waiting_approval"
      BY <1>3, ZenonT(40) DEF Approve, ResolvesJob
    <2> QED BY <2>1, <2>4, <2>5, DecisionSafe
  <1>4. CASE Cancel
    <2>1. /\ rt.job \in 1 .. Len(jobs) /\ jobs[rt.job].rev + 1 \in Nat /\ Rewrites(rt.job)
      BY <1>4, EndIntents, ResolvesRewrites, Zenon DEF Cancel
    <2>2. Published(StatusWithoutPlan("cancelled"))
      BY <1>1, StatusIsPublished, Zenon DEF RestStatuses
    <2>3. rt' = [StatusWithoutPlan("cancelled") EXCEPT !.rev = jobs[rt.job].rev + 1]
      BY <1>4, Zenon DEF Cancel
    <2>4. KeepsServer
      BY <2>1, <2>2, <2>3, Zenon DEF KeepsServer, Published, Runtime
    <2>5. act' = act /\ proc' = proc /\ jobs[rt.job].status = "waiting_approval"
      BY <1>4, Zenon DEF Cancel, ResolvesJob
    <2> QED BY <2>1, <2>4, <2>5, DecisionSafe
  <1> QED BY <1>2, <1>3, <1>4, Zenon DEF OperatorStep

\* While no action exists only the records' types and indices matter.
LEMMA QuietSafe ==
  ASSUME Core', rt'.job <= Len(jobs'),
         \A a \in Actions : act'[a].pc = "free" /\ act'[a].prev.job <= Len(jobs')
  PROVE  Safe'
  <1> USE DEF Exists, Owner, Bound, Within, RunnerPoints, PlainPoints, MutationPoints,
              TransitionPoints
  <1>1. TransitionInv' /\ DownInv'
    BY Zenon DEF TransitionInv, ReturnsWell, DownInv
  <1>2. JobInv' /\ GenerationInv' /\ AdmissionInv'
    BY Zenon DEF JobInv, GenerationInv, AdmissionInv
  <1>3. BoundInv' /\ OwnerInv'
    BY Zenon DEF BoundInv, OwnerInv
  <1>4. SeenInv' /\ RecordInv'
    BY Zenon DEF SeenInv, SeenOK, RecordInv, OnRecord, EntersMutation
  <1> QED BY <1>1, <1>2, <1>3, <1>4, Zenon DEF Safe

\* MarkUnfinishedInterrupted writes well-formed jobs, and creates and deletes none.
LEMMA MarkedJobs ==
  ASSUME jobs \in Seq(Job)
  PROVE  /\ MarkUnfinishedInterrupted(jobs) \in Seq(Job)
         /\ Len(MarkUnfinishedInterrupted(jobs)) = Len(jobs)
  <1>1. ASSUME NEW job \in Job PROVE InterruptedByRestart(job) \in Job
    <2>1. /\ Intend("interrupted", Keep, "other") \in Intent
          /\ Intend("failed", Keep, "reconciliation_required") \in Intent
      BY Zenon DEF Intend, Intent, TerminalStatuses, ErrorClasses
    <2> QED BY <1>1, <2>1, ApplyIntentType, Zenon DEF InterruptedByRestart, InterruptedAsUsual
  <1>2. \A id \in DOMAIN jobs : InterruptedByRestart(jobs[id]) \in Job
    BY <1>1
  <1>3. DOMAIN jobs = 1 .. Len(jobs) /\ Len(jobs) \in Nat
    OBVIOUS
  <1>4. MarkUnfinishedInterrupted(jobs) \in [1 .. Len(jobs) -> Job]
    BY <1>2, <1>3, Zenon DEF MarkUnfinishedInterrupted
  <1> QED BY <1>3, <1>4

\* Shutdown, crash and recovery keep the invariant.
LEMMA ProcessSafe ==
  ASSUME IInv, ProcessStep
  PROVE  Safe'
  <1>1. Core /\ DownInv /\ JobInv
    BY Zenon DEF IInv, Safe
  <1>2. CASE Shutdown
    <2>1. /\ Alive /\ Alive' /\ proc' = "stopping"
          /\ rt' = rt /\ jobs' = jobs /\ act' = act
      BY <1>2, Zenon DEF Shutdown, Alive
    <2>2. Core' /\ DownInv'
      BY <1>1, <2>1, ZenonT(40) DEF Core, DownInv
    <2>3. TransitionInv' /\ JobInv' /\ GenerationInv' /\ AdmissionInv'
      BY <2>1, Zenon DEF IInv, Safe, TransitionInv, JobInv, GenerationInv, AdmissionInv
    <2>4. BoundInv' /\ OwnerInv' /\ SeenInv' /\ RecordInv'
      BY <2>1, Zenon DEF IInv, Safe, BoundInv, OwnerInv, OthersAreOld, SeenInv, RecordInv
    <2> QED BY <2>2, <2>3, <2>4, Zenon DEF Safe
  <1>3. CASE Exit
    <2>1. \A a \in Actions : act'[a].pc = "free" /\ act'[a].prev.job = 0
      BY <1>3, Zenon DEF Exit, NoAction, IdleStatus
    <2>2. Core'
      BY <1>1, <1>3, NoActionType, IdleStatusType, Zenon DEF Exit, Core
    <2>3. rt'.job = 0 /\ Len(jobs') \in Nat
      BY <1>1, <1>3 DEF Exit, IdleStatus, Core
    <2> QED BY <2>1, <2>2, <2>3, QuietSafe
  <1>4. CASE RecoverJobs
    <2>1. proc' = "recovering" /\ rt' = rt /\ act' = act /\ ~Alive
      BY <1>4, Zenon DEF RecoverJobs, Alive
    <2>2. jobs' \in Seq(Job) /\ Len(jobs') = Len(jobs)
      BY <1>1, <1>4, MarkedJobs, ZenonT(40) DEF RecoverJobs, Core
    <2>3. Core'
      BY <1>1, <2>1, <2>2, Zenon DEF Core
    <2>4. \A a \in Actions : act'[a].pc = "free"
      BY <1>1, <2>1, Zenon DEF DownInv, Exists
    <2> QED BY <1>1, <2>1, <2>2, <2>3, <2>4, QuietSafe, Zenon DEF JobInv
  <1>5. CASE RestoreReconciliation
    <2>1. proc' = "up" /\ jobs' = jobs /\ act' = act /\ ~Alive
      BY <1>5, Zenon DEF RestoreReconciliation, Alive
    <2>2. rt' \in Runtime /\ rt'.job <= Len(jobs)
      <3>1. ASSUME NEW id \in ReconciliationRequired(jobs), rt' = SyncedRuntime(id, jobs[id])
            PROVE  rt' \in Runtime /\ rt'.job <= Len(jobs)
        <4>1. id \in 1 .. Len(jobs)
          <5>1. DOMAIN jobs = 1 .. Len(jobs)
            BY <1>1 DEF Core
          <5> QED BY <5>1, Zenon DEF ReconciliationRequired
        <4>2. id \in JobIDs /\ jobs[id] \in Job
          BY <1>1, <4>1, ActionsAssumption DEF Core, JobIDs
        <4>3. rt' \in Runtime /\ (rt' = rt \/ rt'.job = id)
          BY <1>1, <3>1, <4>2, SyncedRuntimeType, Zenon DEF Core
        <4> QED BY <1>1, <4>1, <4>3 DEF JobInv
      <3> QED BY <1>1, <1>5, <3>1, Zenon DEF RestoreReconciliation, Core, JobInv
    <2>3. Core'
      BY <1>1, <2>1, <2>2, Zenon DEF Core
    <2>4. \A a \in Actions : act'[a].pc = "free"
      BY <1>1, <2>1, Zenon DEF DownInv, Exists
    <2> QED BY <1>1, <2>1, <2>2, <2>3, <2>4, QuietSafe, ZenonT(40) DEF JobInv
  <1> QED BY <1>2, <1>3, <1>4, <1>5, Zenon DEF ProcessStep

-----------------------------------------------------------------------------
(* The invariant                                                            *)

\* Every step of one action keeps the inductive invariant.
LEMMA ActionSafe ==
  ASSUME IInv, NEW a \in Actions,
         \/ StartStep(a) \/ JobStep(a) \/ PrepareStep(a) \/ ApprovalStep(a) \/ MutationStep(a)
  PROVE  Safe'
  <1>1. CASE \E kind \in Kinds, scheduled \in BOOLEAN : StartAction(a, kind, scheduled)
    BY <1>1, StartActionSafe, ActionsAssumption, Zenon
  <1>2. CASE CreateJob(a)
    <2>1. Alive /\ Exists(act[a]) /\ proc' = proc
      BY <1>2, Zenon DEF CreateJob, At, Exists
    <2> QED BY <1>2, <2>1, CreateJobSafe, RestoreAdmittedSafe, ZenonT(40) DEF CreateJob
  <1>3. CASE RestoreAdmittedAction(a)
    <2>1. Alive /\ Exists(act[a]) /\ proc' = proc
      BY <1>3, ZenonT(40) DEF RestoreAdmittedAction, At, Exists
    <2> QED BY <1>3, <2>1, RestoreAdmittedSafe, Zenon DEF RestoreAdmittedAction
  <1>4. CASE BindActionJob(a) \/ StartJobRunner(a) \/ RunnerAdmissionFails(a)
    BY <1>4, BindActionJobSafe, StartJobRunnerSafe, RunnerAdmissionFailsSafe, Zenon
  <1>5. CASE JobStep(a)
    BY <1>5, ReadJobSafe, WriteJobSafe, RereadJobSafe, PublishJobSafe, Zenon DEF JobStep
  <1>6. CASE \/ InitStatus(a) \/ SetDialPhase(a) \/ SetupSSH(a) \/ RunSystemCommand(a)
             \/ GuardUnplannedMutation(a) \/ DiscoverPackages(a) \/ ApprovalStep(a)
             \/ RefuseMutation(a) \/ CommandReturns(a) \/ SetPostcheckPhase(a)
             \/ RunPostchecks(a)
    <2>1. TypeOK /\ JobInv
      BY Zenon DEF IInv, Safe
    <2> QED BY <1>6, <2>1, RunnerWorks, WorksSafe, ZenonT(40)
  <1>7. CASE \/ RequireMutationPhase(a) \/ PublishUpgrading(a) \/ GuardPackageDeferrals(a)
             \/ SendCommand(a) \/ FinishActionRunner(a) \/ BeginActionRunner(a)
    BY <1>7, RequireMutationPhaseSafe, PublishUpgradingSafe, GuardPackageDeferralsSafe,
       SendCommandSafe, FinishActionRunnerSafe, BeginActionRunnerSafe, Zenon
  <1> QED BY <1>1, <1>2, <1>3, <1>4, <1>5, <1>6, <1>7, ZenonT(40)
          DEF StartStep, PrepareStep, MutationStep

\* The variables that the invariant leaves out keep their types.
LEMMA RestKept ==
  ASSUME IInv, Next
  PROVE  Rest'
  <1>1. Rest
    BY Zenon DEF IInv, TypeOK, Rest
  <1>2. CASE UNCHANGED <<rules, edits, screen, granted, host>>
    BY <1>1, <1>2, Zenon DEF Rest
  <1>3. ASSUME NEW a \in Actions, AutoApprove(a) PROVE Rest'
    <2>1. act[a].job \in JobIDs /\ act[a].plan \in Plan
      BY <1>3, ZenonT(40) DEF IInv, TypeOK, Action
    <2>2. granted' = granted \/ \E grant \in Grant : granted' = Append(granted, grant)
      <3>1. \A scope \in {"all", "security"} :
              [job |-> act[a].job, scope |-> scope, plan |-> act[a].plan] \in Grant
        BY <2>1, Zenon DEF Grant, Scopes
      <3> QED BY <1>3, <3>1, Zenon DEF AutoApprove
    <2>3. granted' \in Seq(Grant)
      BY <1>1, <2>2 DEF Rest
    <2> QED BY <1>1, <1>3, <2>3, Zenon DEF AutoApprove, Rest
  <1>4. ASSUME NEW a \in Actions, SendCommand(a) \/ CommandReturns(a) PROVE Rest'
    <2> DEFINE r == [act[a] EXCEPT !.gate = UsesApt(act[a])]
    <2>1. act[a].before \in {"known", "unknown"} /\ r.before = act[a].before
      BY ZenonT(40) DEF IInv, TypeOK, Action
    <2>2. CASE SendCommand(a)
      BY <1>1, <2>2, Zenon DEF SendCommand, Rest
    <2>3. CASE CommandReturns(a)
      <3>1. host' \in {"known", "unknown", r.before}
        BY <2>3, ZenonT(40) DEF CommandReturns
      <3> HIDE DEF r
      <3> QED BY <1>1, <2>1, <2>3, <3>1, Zenon DEF CommandReturns, Rest
    <2> QED BY <1>4, <2>2, <2>3, Zenon
  <1>5. CASE Refresh
    <2>1. rt.job \in JobIDs /\ rt.approval \in 0 .. MaxApprovals /\ rt.plan \in Plan
      BY Zenon DEF IInv, TypeOK, Runtime
    <2> QED BY <1>1, <1>5, <2>1, Zenon DEF Refresh, Rest, Screen
  <1>6. ASSUME NEW scope \in {"all", "security"}, Approve(scope) PROVE Rest'
    <2>1. [job |-> screen.job, scope |-> scope, plan |-> screen.plan] \in Grant
      BY <1>1, Zenon DEF Rest, Screen, Grant, Scopes
    <2> QED BY <1>1, <1>6, <2>1 DEF Approve, Rest
  <1>7. CASE EditRules
    BY <1>1, <1>7, ActionsAssumption DEF EditRules, Rest
  <1>8. CASE Exit
    BY <1>1, <1>8 DEF Exit, Rest
  <1>9. ASSUME NEW a \in Actions, StartStep(a) \/ JobStep(a)
        PROVE  UNCHANGED <<rules, edits, screen, granted, host>>
    BY <1>9, Zenon DEF StartStep, StartAction, CreateJob, BindActionJob, StartJobRunner,
                RunnerAdmissionFails, RestoreAdmittedAction, JobStep, ReadJob, WriteJob,
                RereadJob, PublishJob
  <1>10. ASSUME NEW a \in Actions, PrepareStep(a)
         PROVE  UNCHANGED <<rules, edits, screen, granted, host>>
    BY <1>10, Zenon DEF PrepareStep, BeginActionRunner, InitStatus, SetDialPhase, SetupSSH,
                 RunSystemCommand, GuardUnplannedMutation, DiscoverPackages
  <1>11. ASSUME NEW a \in Actions, ApprovalStep(a), ~AutoApprove(a)
         PROVE  UNCHANGED <<rules, edits, screen, granted, host>>
    BY <1>11, Zenon DEF ApprovalStep, PublishPlan, PollRules, DecideApproved, DecidePending,
                 DecideClosed, DecideExpired, Reconnect, Revalidate, NothingLeft, Republish
  <1>12. ASSUME NEW a \in Actions, MutationStep(a), ~SendCommand(a), ~CommandReturns(a)
         PROVE  UNCHANGED <<rules, edits, screen, granted, host>>
    BY <1>12, Zenon DEF MutationStep, RequireMutationPhase, RefuseMutation, PublishUpgrading,
                 GuardPackageDeferrals, SetPostcheckPhase, RunPostchecks, FinishActionRunner
  <1>13. Cancel \/ Shutdown \/ RecoverJobs \/ RestoreReconciliation
         => UNCHANGED <<rules, edits, screen, granted, host>>
    BY Zenon DEF Cancel, Shutdown, RecoverJobs, RestoreReconciliation
  <1> QED BY <1>2, <1>3, <1>4, <1>5, <1>6, <1>7, <1>8, <1>9, <1>10, <1>11, <1>12, <1>13, ZenonT(40)
          DEF Next, OperatorStep, ProcessStep

\* The invariant holds at the start.
LEMMA InitIInv == Init => IInv
  <1> SUFFICES ASSUME Init PROVE IInv
    BY Zenon
  <1>1. Core
    BY NoActionType, IdleStatusType, ActionsAssumption DEF Init, Core
  <1>2. Rest
    <2>1. NoScreen \in Screen
      BY NoRecords, ActionsAssumption DEF NoScreen, Screen, JobIDs
    <2> QED BY <2>1, ActionsAssumption DEF Init, Rest, RuleSets
  <1>3. /\ rt.job = 0 /\ Len(jobs) = 0
        /\ \A a \in Actions : act[a].pc = "free" /\ act[a].prev.job = 0
    BY Zenon DEF Init, IdleStatus, NoAction
  <1>4. TransitionInv /\ DownInv /\ JobInv /\ GenerationInv /\ AdmissionInv
    BY <1>3 DEF TransitionInv, ReturnsWell, TransitionPoints, DownInv, JobInv, GenerationInv,
                AdmissionInv, Exists
  <1>5. BoundInv /\ OwnerInv /\ SeenInv /\ RecordInv
    BY <1>3, Zenon DEF BoundInv, OwnerInv, SeenInv, SeenOK, RecordInv, OnRecord, EntersMutation,
                Bound, Owner, Within, RunnerPoints, PlainPoints, MutationPoints,
                TransitionPoints
  <1> QED BY <1>1, <1>2, <1>4, <1>5, ZenonT(40) DEF IInv, TypeOK, Safe, Core, Rest

\* Every step keeps the invariant.
LEMMA NextIInv == IInv /\ [Next]_vars => IInv'
  <1> SUFFICES ASSUME IInv, [Next]_vars PROVE IInv'
    BY Zenon
  <1>1. CASE Next
    <2>1. Safe'
      BY <1>1, ActionSafe, OperatorSafe, ProcessSafe, Zenon DEF Next
    <2>2. Rest'
      BY <1>1, RestKept, Zenon
    <2>3. Core'
      BY <2>1, Zenon DEF Safe
    <2>4. TypeOK'
      BY <2>2, <2>3, Zenon DEF TypeOK, Core, Rest
    <2> QED BY <2>1, <2>4, ZenonT(40) DEF IInv
  <1>2. CASE UNCHANGED vars
    <2>1. TypeOK'
      BY <1>2, ZenonT(40) DEF vars, IInv, TypeOK
    <2>2. Core' /\ DownInv'
      BY <1>2, ZenonT(40) DEF vars, IInv, Safe, Core, DownInv, Alive
    <2>3. TransitionInv' /\ JobInv' /\ GenerationInv' /\ AdmissionInv'
      BY <1>2, Zenon DEF vars, IInv, Safe, TransitionInv, JobInv, GenerationInv, AdmissionInv
    <2>4. BoundInv' /\ OwnerInv' /\ SeenInv' /\ RecordInv'
      BY <1>2, Zenon DEF vars, IInv, Safe, BoundInv, OwnerInv, OthersAreOld, SeenInv, RecordInv
    <2> QED BY <2>1, <2>2, <2>3, <2>4, Zenon DEF IInv, Safe
  <1> QED BY <1>1, <1>2, Zenon

-----------------------------------------------------------------------------
(* Jobs                                                                     *)

\* An unset field of an intent stands for the job's own value.
LEMMA IntentInFull ==
  ASSUME NEW job \in Job, NEW intent \in Intent
  PROVE  ApplyIntent(job, intent)
           = ApplyIntent(job, Intend(Or(intent.status, job.status),
                                     Or(intent.phase, job.phase),
                                     Or(intent.class, job.class)))
  <1>1. \A x, y : Or(Or(x, y), y) = Or(x, y)
    BY Zenon DEF Or
  <1> DEFINE full == Intend(Or(intent.status, job.status), Or(intent.phase, job.phase),
                            Or(intent.class, job.class))
  <1>2. /\ full.status = Or(intent.status, job.status)
        /\ full.phase = Or(intent.phase, job.phase)
        /\ full.class = Or(intent.class, job.class)
    BY Zenon DEF Intend
  <1> HIDE DEF full
  <1>3. /\ Or(full.status, job.status) = Or(intent.status, job.status)
        /\ Or(full.phase, job.phase) = Or(intent.phase, job.phase)
        /\ Or(full.class, job.class) = Or(intent.class, job.class)
    BY <1>1, <1>2, ZenonT(40)
  <1>4. ApplyIntent(job, intent) = ApplyIntent(job, full)
    BY <1>3, Zenon DEF ApplyIntent
  <1> QED BY <1>4, Zenon DEF full

\* JobLifecycle means by a job what ServerActions does.
LEMMA LifecycleRecords ==
  /\ Lifecycle!ActiveStatuses = ActiveStatuses
  /\ Lifecycle!TerminalStatuses = TerminalStatuses
  /\ Lifecycle!Phases = Phases
  /\ Lifecycle!ErrorClasses = ErrorClasses
  /\ Lifecycle!JobKinds = JobKinds
  /\ \A kind : Lifecycle!QueuedJob(kind) = QueuedJob(kind)
  /\ \A job : Lifecycle!IsActive(job) <=> IsActive(job)
  /\ \A from, to : Lifecycle!ValidTransition(from, to) <=> ValidTransition(from, to)
  /\ \A s, p, c : Lifecycle!Intend(s, p, c) = Intend(s, p, c)
  /\ \A job, intent : Lifecycle!ApplyIntent(job, intent) = ApplyIntent(job, intent)
  /\ \A store : Lifecycle!MarkUnfinishedInterrupted(store) = MarkUnfinishedInterrupted(store)
  <1>1. /\ Lifecycle!ActiveStatuses = ActiveStatuses
        /\ Lifecycle!TerminalStatuses = TerminalStatuses
        /\ Lifecycle!Phases = Phases
        /\ Lifecycle!ErrorClasses = ErrorClasses
        /\ Lifecycle!PackageKinds = PackageKinds
    BY Zenon DEF ActiveStatuses, TerminalStatuses, Phases, ErrorClasses, PackageKinds,
           Lifecycle!ActiveStatuses, Lifecycle!TerminalStatuses, Lifecycle!Phases,
           Lifecycle!ErrorClasses, Lifecycle!PackageKinds
  <1>2. Lifecycle!JobKinds = JobKinds
    BY <1>1, Zenon DEF JobKinds, Lifecycle!JobKinds
  <1>3. /\ \A kind : Lifecycle!QueuedJob(kind) = QueuedJob(kind)
        /\ \A job : Lifecycle!IsActive(job) <=> IsActive(job)
        /\ \A from, to : Lifecycle!ValidTransition(from, to) <=> ValidTransition(from, to)
        /\ \A s, p, c : Lifecycle!Intend(s, p, c) = Intend(s, p, c)
    BY <1>1, Zenon DEF QueuedJob, IsActive, ValidTransition, Intend, Lifecycle!QueuedJob,
                Lifecycle!IsActive, Lifecycle!ValidTransition, Lifecycle!Intend
  <1>4. \A x, y : Lifecycle!Or(x, y) = Or(x, y)
    BY Zenon DEF Or, Keep, Lifecycle!Or, Lifecycle!Keep
  <1>5. \A job, intent : Lifecycle!ApplyIntent(job, intent) = ApplyIntent(job, intent)
    BY <1>1, <1>4, Zenon DEF ApplyIntent, Lifecycle!ApplyIntent
  <1>6. \A job : Lifecycle!InterruptedByRestart(job) = InterruptedByRestart(job)
    BY <1>1, <1>3, <1>5, Zenon DEF InterruptedByRestart, InterruptedAsUsual, Keep,
                            Lifecycle!InterruptedByRestart, Lifecycle!InterruptedAsUsual,
                            Lifecycle!Keep
  <1>7. \A store : Lifecycle!MarkUnfinishedInterrupted(store) = MarkUnfinishedInterrupted(store)
    BY <1>6, Zenon DEF MarkUnfinishedInterrupted, Lifecycle!MarkUnfinishedInterrupted
  <1> QED BY <1>1, <1>2, <1>3, <1>5, <1>7, Zenon

\* A write of an active job along ValidTransition is a step of the abstract store.
LEMMA WriteAdvances ==
  ASSUME jobs \in Seq(Job), NEW id \in 1 .. Len(jobs), NEW intent \in Intent,
         IsActive(jobs[id]),
         ValidTransition(jobs[id].status, Or(intent.status, jobs[id].status)),
         jobs' = [jobs EXCEPT ![id] = ApplyIntent(jobs[id], intent)]
  PROVE  Lifecycle!Next
  <1> DEFINE job    == jobs[id]
             status == Or(intent.status, job.status)
             phase  == Or(intent.phase, job.phase)
             class  == Or(intent.class, job.class)
             new    == ApplyIntent(job, Intend(status, phase, class))
  <1>1. job \in Job
    OBVIOUS
  <1>2. status \in ActiveStatuses \cup TerminalStatuses /\ phase \in Phases /\ class \in ErrorClasses
    BY <1>1, OrType, Zenon DEF Job, Intent
  <1>3. ApplyIntent(job, intent) = new
    BY <1>1, IntentInFull, Zenon
  <1>4. ApplyIntent(job, intent).rev = job.rev + 1
    BY <1>1, ApplyIntentType, Zenon
  <1>5. jobs'[id].rev = job.rev + 1
    BY <1>4
  <1>6. jobs' = [jobs EXCEPT ![id] = new]
    BY <1>3, Zenon
  <1>7. id \in DOMAIN jobs
    OBVIOUS
  <1>8. IsActive(job) /\ ValidTransition(job.status, status)
    BY Zenon
  <1> HIDE DEF status, phase, class
  <1>9. /\ Lifecycle!IsActive(jobs[id])
        /\ Lifecycle!ValidTransition(jobs[id].status, status)
        /\ status \in Lifecycle!ActiveStatuses \cup Lifecycle!TerminalStatuses
        /\ phase \in Lifecycle!Phases /\ class \in Lifecycle!ErrorClasses
    BY <1>2, <1>8, LifecycleRecords, Zenon
  <1>10. jobs' = [jobs EXCEPT ![id] = Lifecycle!ApplyIntent(jobs[id],
                                        Lifecycle!Intend(status, phase, class))]
    BY <1>6, LifecycleRecords, Zenon
  <1> HIDE DEF job, new
  <1>11. jobs'[id].rev = jobs[id].rev + 1
    BY <1>5, ZenonT(40) DEF job
  <1>12. Lifecycle!Advance(id)
    BY <1>9, <1>10, <1>11, ZenonT(40) DEF Lifecycle!Advance
  <1> QED BY <1>7, <1>12, Zenon DEF Lifecycle!Next

\* Every step of ServerActions is a step of the abstract store, or leaves the jobs alone.
LEMMA NextAdvances ==
  ASSUME IInv, Next
  PROVE  Lifecycle!Next \/ UNCHANGED jobs
  <1>1. jobs \in Seq(Job) /\ TypeOK /\ JobInv
    BY Zenon DEF IInv, Safe, TypeOK
  <1>2. ASSUME NEW a \in Actions, CreateJob(a) PROVE Lifecycle!Next \/ UNCHANGED jobs
    <2>1. act[a].kind \in Lifecycle!JobKinds
      BY <1>1, TypedState, LifecycleRecords, Zenon
    <2>2. CASE Len(jobs) < MaxJobs /\ jobs' = Append(jobs, QueuedJob(act[a].kind))
      <3>1. jobs' = Append(jobs, Lifecycle!QueuedJob(act[a].kind))
        BY <2>2, LifecycleRecords, Zenon
      <3> QED BY <2>1, <2>2, <3>1, ZenonT(40) DEF Lifecycle!Next, Lifecycle!Create
    <2> QED BY <1>2, <2>2, Zenon DEF CreateJob
  <1>3. ASSUME NEW a \in Actions, WriteJob(a) PROVE Lifecycle!Next \/ UNCHANGED jobs
    <2>1. act[a].pc = "write" /\ act[a].pc \in TransitionPoints
      BY <1>3, ZenonT(40) DEF WriteJob, At, TransitionPoints
    <2>2. CASE /\ jobs[act[a].job].rev = act[a].tx.seen.rev
               /\ jobs' = [jobs EXCEPT ![act[a].job] =
                             ApplyIntent(act[a].tx.seen, act[a].tx.intent)]
      <3>1. /\ act[a].tx.seen = jobs[act[a].job]
            /\ jobs' = [jobs EXCEPT ![act[a].job] =
                          ApplyIntent(jobs[act[a].job], act[a].tx.intent)]
        BY <2>1, <2>2, WriteRewrites, Zenon
      <3>2. act[a].job \in 1 .. Len(jobs) /\ act[a].tx.intent \in Intent
        BY <2>1, TransitionType, Zenon DEF Transition
      <3>3. /\ IsActive(act[a].tx.seen)
            /\ ValidTransition(act[a].tx.seen.status,
                               Or(act[a].tx.intent.status, act[a].tx.seen.status))
        BY <2>1, Zenon DEF IInv, Safe, SeenInv, SeenOK
      <3> QED BY <1>1, <3>1, <3>2, <3>3, WriteAdvances, Zenon
    <2> QED BY <1>3, <2>2, Zenon DEF WriteJob
  <1>4. ASSUME NEW a \in Actions, Works(a) PROVE Lifecycle!Next \/ UNCHANGED jobs
    <2>1. CASE Waits(act[a].job)
      <3> DEFINE job    == jobs[act[a].job]
                 intent == Intend("waiting_approval", Keep, Keep)
      <3>1. act[a].job \in 1 .. Len(jobs) /\ job \in Job
        BY <1>1, <1>4, JobType, Zenon DEF Works
      <3>2. intent \in Intent /\ Or(intent.status, job.status) = "waiting_approval"
        BY Zenon DEF Intend, Intent, ActiveStatuses, Or, Keep
      <3>3. jobs' = [jobs EXCEPT ![act[a].job] = ApplyIntent(job, intent)]
        BY <2>1, ZenonT(40) DEF Waits, Waiting
      <3>4. IsActive(job) /\ ValidTransition(job.status, "waiting_approval")
        BY <2>1, Zenon DEF Waits, CanWait, IsActive, ActiveStatuses, ValidTransition
      <3> HIDE DEF intent
      <3> QED BY <1>1, <3>1, <3>2, <3>3, <3>4, WriteAdvances, ZenonT(40)
    <2> QED BY <1>4, <2>1, Zenon DEF Works
  <1>5. ASSUME DecisionIsCurrent, NEW intent \in Intent, intent.status \in {"running", "cancelled"},
               ResolvesJob(intent)
        PROVE  Lifecycle!Next
    <2>1. rt.job \in 1 .. Len(jobs)
      BY <1>5, ResolvesRewrites, ZenonT(40)
    <2>2. /\ IsActive(jobs[rt.job])
          /\ ValidTransition(jobs[rt.job].status, Or(intent.status, jobs[rt.job].status))
      BY <1>5, Zenon DEF ResolvesJob, IsActive, ActiveStatuses, TerminalStatuses, ValidTransition,
                  Or, Keep
    <2> QED BY <1>1, <1>5, <2>1, <2>2, WriteAdvances, Zenon DEF ResolvesJob
  <1>6. CASE Cancel \/ \E scope \in {"all", "security"} : Approve(scope)
    <2>1. /\ Intend("running", "mutation", Keep) \in Intent
          /\ Intend("cancelled", "complete", Keep) \in Intent
          /\ Intend("running", "mutation", Keep).status = "running"
          /\ Intend("cancelled", "complete", Keep).status = "cancelled"
      BY Zenon DEF Intend, Intent, Phases, ActiveStatuses, TerminalStatuses
    <2> QED BY <1>5, <1>6, <2>1, Zenon DEF Cancel, Approve
  <1>7. CASE RecoverJobs
    BY <1>7, LifecycleRecords, Zenon DEF RecoverJobs, Lifecycle!Next, Lifecycle!Restart
  <1>8. ASSUME NEW a \in Actions,
               \/ StartStep(a) /\ ~CreateJob(a)
               \/ JobStep(a) /\ ~WriteJob(a)
               \/ BeginActionRunner(a) \/ RequireMutationPhase(a) \/ PublishUpgrading(a)
               \/ GuardPackageDeferrals(a) \/ SendCommand(a) \/ FinishActionRunner(a)
        PROVE  UNCHANGED jobs
    BY <1>8, Zenon DEF StartStep, StartAction, BindActionJob, StartJobRunner, RunnerAdmissionFails,
                RestoreAdmittedAction, JobStep, ReadJob, RereadJob, PublishJob,
                BeginActionRunner, RequireMutationPhase, PublishUpgrading,
                GuardPackageDeferrals, SendCommand, FinishActionRunner
  <1>9. Refresh \/ EditRules \/ Shutdown \/ Exit \/ RestoreReconciliation => UNCHANGED jobs
    BY ZenonT(40) DEF Refresh, EditRules, Shutdown, Exit, RestoreReconciliation
  <1>10. ASSUME NEW a \in Actions,
                \/ StartStep(a) \/ JobStep(a) \/ PrepareStep(a) \/ ApprovalStep(a)
                \/ MutationStep(a)
         PROVE  Lifecycle!Next \/ UNCHANGED jobs
    BY <1>1, <1>2, <1>3, <1>4, <1>8, <1>10, RunnerWorks, ZenonT(40) DEF PrepareStep, MutationStep
  <1> QED BY <1>6, <1>7, <1>9, <1>10, Zenon DEF Next, OperatorStep, ProcessStep

-----------------------------------------------------------------------------
(* The theorems                                                             *)

\* The invariant holds throughout.
THEOREM Invariance == Spec => []IInv
  BY InitIInv, NextIInv, PTL DEF Spec

\* Whatever the runners, operators, policies, crashes and failing database
\* calls, the runtime status, the job records and the variables of runners and
\* browsers keep their types: applyIntent installs no unset field, and no
\* runner reads a job that is not there.
THEOREM TypeCorrect == Spec => []TypeOK
  <1>1. IInv => TypeOK
    BY Zenon DEF IInv
  <1> QED BY <1>1, Invariance, PTL

\* From BeginActionRunner to FinishActionRunner the server belongs to the
\* runner's job and generation, for any number of concurrent callers of
\* startAction: neither an admission nor the RestoreAdmittedAction of an
\* earlier one takes it away.
THEOREM RunnerHoldsServer == Spec => []RunnerOwnsServer
  <1>1. IInv => RunnerOwnsServer
    BY ZenonT(40) DEF IInv, Safe, OwnerInv, RunnerOwnsServer, Owner, Within, RunnerPoints, PlainPoints,
           MutationPoints
  <1> QED BY <1>1, Invariance, PTL

\* While a runner of server_action_lifecycle.go may have an APT command on the
\* host, its job on record is running in its mutation phase: an operator's
\* cancellation that was accepted stops it at requireMutationPhase, and none is
\* accepted later.
THEOREM CommandsAreOnRecord == Spec => []CommandIsOnRecord
  <1>1. IInv => CommandIsOnRecord
    BY Zenon DEF IInv, Safe, RecordInv, OnRecord, InMutation, MutationPoints, CommandIsOnRecord,
           Dispatches
  <1> QED BY <1>1, Invariance, PTL

\* The jobs of a server advance as JobLifecycle promises, although a
\* transition of Manager.transition reads and writes in separate steps: no
\* write is lost, no terminal job comes back, and only a restart ends several
\* jobs at once.
THEOREM JobsRefineLifecycle == Spec => JobsAdvance
  <1>1. Init => Lifecycle!Init
    BY Zenon DEF Init, Lifecycle!Init
  <1>2. IInv /\ [Next]_vars => [Lifecycle!Next]_jobs
    BY NextAdvances, Zenon DEF vars
  <1> QED BY <1>1, <1>2, Invariance, PTL DEF Spec, JobsAdvance, Lifecycle!Spec

=============================================================================
