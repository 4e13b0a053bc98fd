-------------------- MODULE MaintenanceCoordinator_proofs --------------------
(***************************************************************************)
(* Proofs about the Maintenance Coordinator for any sets of requests and   *)
(* exclusive leases: the inductive invariant; the lemmas its proof rests   *)
(* on (what the data operators return, what each way of leaving releaseMu  *)
(* changes); that every action preserves it; and the theorems.             *)
(***************************************************************************)
EXTENDS MaintenanceCoordinator, TLAPS

-------------------------------------------------------------------------------
(* The inductive invariant *)

\* The lease has not begun to close, or is in its first Close: it holds the gate.
HoldsGate(l) ==
    \/ lease[l].pc \in {"recover", "check", "open", "activating"}
    \/ lease[l].pc \in {"active", "closing"} /\ ~lease[l].releasePending

GateInv ==
    /\ \A r \in Requests : r \in readers <=> request[r] # "idle"
    /\ writer # Nobody => readers = {}
    /\ \A l \in Leases : writer = l <=> HoldsGate(l)

StateInv ==
    /\ ~state.active => state = EmptyState
    /\ pendingRelease # EmptyState => pendingRelease.active /\ ~pendingRelease.recovery
    /\ state.recovery => state.active /\ NeedsRecovery(store)

LeaseInv ==
    \A l \in Leases :
        /\ lease[l].pc \in {"active", "closing"} /\ ~lease[l].releasePending => state = Own(l)
        /\ lease[l].pc \in {"recover", "check", "open", "activating"} => ~lease[l].releasePending
        /\ lease[l].pc = "activating" => store = Own(l)
        /\ lease[l].pc = "retaining" => lease[l].operation = Restore /\ state = MarkedForRecovery(Own(l))

\* A caller inside releaseMu that has compared the states: nobody has published
\* anything since.
ReleaseInv ==
    /\ releasing.by = Nobody <=> releasing.step = "none"
    /\ releasing.step # "none" =>
          /\ state = releasing.expected
          /\ state.active
          /\ ~state.recovery
          /\ \/ releasing.by \in Requests /\ request[releasing.by] = "recover"
             \/ releasing.by \in Leases /\ lease[releasing.by].pc = "recover"
             \/ /\ releasing.by \in Leases
                /\ lease[releasing.by].pc = "closing"
                /\ releasing.expected = Own(releasing.by)

\* A Close that is under way was one of the allowed calls.
CloseInv ==
    \A l \in Leases : lease[l].pc = "closing" => lease[l].closeCalls < CloseCalls

DownInv ==
    ~up =>
        /\ state = EmptyState
        /\ releasing = NotReleasing
        /\ \A r \in Requests : request[r] = "idle"
        /\ \A l \in Leases : lease[l] = NewLease

IInv ==
    /\ TypeOK
    /\ GateInv
    /\ StateInv
    /\ LeaseInv
    /\ ReleaseInv
    /\ CloseInv
    /\ DownInv
    /\ OperationOwnsState
    /\ AdmittedMeansInactive
    /\ RestoreLeavesMarker

-------------------------------------------------------------------------------
(* Type correctness *)

\* The constant records and the states Activate and RetainForRecovery build
\* have their types.
LEMMA StatesAreTyped ==
    /\ EmptyState \in State
    /\ NewLease \in ExclusiveLease
    /\ NotReleasing \in Release
    /\ \A l \in Leases, kind \in Kinds : ActiveState(l, kind) \in State
    /\ \A s \in State : MarkedForRecovery(s) \in State
  <1>1. EmptyState \in State
    BY Zenon DEF EmptyState, State
  <1>2. NewLease \in ExclusiveLease
    BY DEF NewLease, ExclusiveLease, Kinds, CloseCalls
  <1>3. NotReleasing \in Release
    BY <1>1, Zenon DEF NotReleasing, Release
  <1>4. \A l \in Leases, kind \in Kinds : ActiveState(l, kind) \in State
    BY Zenon DEF ActiveState, State
  <1>5. \A s \in State : MarkedForRecovery(s) \in State
    BY Zenon DEF MarkedForRecovery, State
  <1> QED BY <1>1, <1>2, <1>3, <1>4, <1>5, Zenon

\* The updates of a lease's record that do not count a Close keep its type.
LEMMA LeaseUpdatesTyped ==
    ASSUME NEW rec \in ExclusiveLease
    PROVE  /\ \A pc \in {"check", "open", "activating", "closing", "done"} :
                  [rec EXCEPT !.pc = pc] \in ExclusiveLease
           /\ [rec EXCEPT !.pc = "active", !.activated = TRUE] \in ExclusiveLease
           /\ [rec EXCEPT !.pc = "done", !.closed = TRUE] \in ExclusiveLease
           /\ [rec EXCEPT !.pc = "retaining", !.closed = TRUE] \in ExclusiveLease
           /\ [rec EXCEPT !.prepared = TRUE] \in ExclusiveLease
  <1>1. \A pc \in {"check", "open", "activating", "closing", "done"} :
            [rec EXCEPT !.pc = pc] \in ExclusiveLease
    BY Zenon DEF ExclusiveLease
  <1>2. [rec EXCEPT !.pc = "active", !.activated = TRUE] \in ExclusiveLease
    BY Zenon DEF ExclusiveLease
  <1>3. [rec EXCEPT !.pc = "done", !.closed = TRUE] \in ExclusiveLease
    BY Zenon DEF ExclusiveLease
  <1>4. [rec EXCEPT !.pc = "retaining", !.closed = TRUE] \in ExclusiveLease
    BY Zenon DEF ExclusiveLease
  <1>5. [rec EXCEPT !.prepared = TRUE] \in ExclusiveLease
    BY Zenon DEF ExclusiveLease
  <1> QED BY <1>1, <1>2, <1>3, <1>4, <1>5, Zenon

\* Replacing one lease's record by a typed one keeps the types of all leases.
LEMMA SetLeaseTyped ==
    ASSUME TypeOK, NEW l \in Leases, NEW rec \in ExclusiveLease, SetLease(l, rec)
    PROVE  lease' \in [Leases -> ExclusiveLease]
  BY Zenon DEF TypeOK, SetLease

\* The end of a critical section under releaseMu, where the number of Close
\* calls grows, keeps the types.
LEMMA AfterReleaseTyped ==
    ASSUME TypeOK, CloseInv, NEW p \in Requests \cup Leases, NEW ok \in BOOLEAN,
           p \in Leases /\ lease[p].pc = "active" => lease[p].closeCalls < CloseCalls,
           AfterRelease(p, ok)
    PROVE  /\ writer' \in Leases \cup {Nobody}
           /\ request' \in [Requests -> {"idle", "recover", "check", "held"}]
           /\ lease' \in [Leases -> ExclusiveLease]
  <1>1. CASE p \in Requests /\ SetRequest(p, "check") /\ UNCHANGED <<writer, lease>>
    BY <1>1, Zenon DEF TypeOK, SetRequest
  <1>2. CASE /\ p \in Leases
             /\ SetLease(p, [lease[p] EXCEPT !.pc = "check"])
             /\ UNCHANGED <<writer, request>>
    BY <1>2 DEF TypeOK, SetLease, ExclusiveLease
  <1>3. CASE /\ p \in Leases
             /\ lease[p].pc \in {"active", "closing"}
             /\ SetLease(p, [lease[p] EXCEPT !.pc = IF ok THEN "done" ELSE "active",
                                             !.closed = ok,
                                             !.releasePending = ~ok,
                                             !.closeCalls = @ + 1])
             /\ writer' = (IF writer = p THEN Nobody ELSE writer)
             /\ UNCHANGED request
    <2>1. lease[p] \in ExclusiveLease /\ lease[p].closeCalls < CloseCalls
      BY <1>3, Zenon DEF TypeOK, CloseInv
    <2>2. lease[p].closeCalls + 1 \in 0 .. CloseCalls
      BY <2>1 DEF ExclusiveLease, CloseCalls
    <2>3. [lease[p] EXCEPT !.pc = IF ok THEN "done" ELSE "active", !.closed = ok,
                           !.releasePending = ~ok, !.closeCalls = @ + 1] \in ExclusiveLease
      BY <2>1, <2>2, Zenon DEF ExclusiveLease
    <2> QED BY <1>3, <2>3, Zenon DEF TypeOK, SetLease
  <1> QED BY <1>1, <1>2, <1>3, Zenon DEF AfterRelease

\* Entering releaseMu with a state to clear keeps the types.
LEMMA KeepReleasingTyped ==
    ASSUME TypeOK, NEW p \in Requests \cup Leases, NEW expected \in State, KeepReleasing(p, expected)
    PROVE  releasing' \in Release /\ lease' \in [Leases -> ExclusiveLease]
  BY DEF TypeOK, KeepReleasing, Release, SetLease, ExclusiveLease

\* Each of the three outcomes of releaseLocked keeps the types.
LEMMA ReleaseLockedTyped ==
    ASSUME TypeOK, CloseInv, NEW p \in Requests \cup Leases, NEW expected \in State,
           p \in Leases /\ lease[p].pc = "active" => lease[p].closeCalls < CloseCalls,
           ReleaseLocked(p, expected), UNCHANGED <<up, readers, state, store>>
    PROVE  TypeOK'
  BY AfterReleaseTyped, KeepReleasingTyped, StatesAreTyped, Zenon DEF TypeOK, ReleaseLocked, KeepReleasing

\* Every step of the coordinator, and a stuttering step, keeps the types.
LEMMA TypePreserved == IInv /\ [Next]_vars => TypeOK'
  <1> SUFFICES ASSUME IInv, [Next]_vars PROVE TypeOK'
    BY Zenon
  <1> USE StatesAreTyped, CallersAssumption
  <1>0. TypeOK /\ CloseInv /\ ReleaseInv
    BY Zenon DEF IInv
  <1>1. CASE Initialize
    BY <1>0, <1>1, Zenon DEF Initialize, TypeOK
  <1>2. CASE Crash
    BY <1>0, <1>2, Zenon DEF Crash, TypeOK
  <1>3. CASE ReleaseSaved
    BY <1>0, <1>3, Zenon DEF ReleaseSaved, TypeOK, Release
  <1>4. CASE ReleaseSaveFailed \/ ReleasePublished
    <2>1. /\ releasing.by \in Requests \cup Leases
          /\ releasing.by \in Leases => lease[releasing.by].pc # "active"
          /\ releasing.expected \in State
      BY <1>0, <1>4, Zenon DEF ReleaseInv, ReleaseSaveFailed, ReleasePublished, TypeOK, Release
    <2> QED BY <1>0, <1>4, <2>1, AfterReleaseTyped, Zenon DEF ReleaseSaveFailed, ReleasePublished, TypeOK
  <1>5. ASSUME NEW r \in Requests, SharedStep(r) PROVE TypeOK'
    <2>1. CASE TryShared(r) \/ TryProbe(r) \/ CheckShared(r) \/ CloseShared(r)
      BY <1>0, <2>1, Zenon DEF TryShared, TryProbe, CheckShared, CloseShared, SetRequest, TypeOK
    <2>2. CASE RecoverShared(r)
      <3>1. CASE pendingRelease = EmptyState
        BY <1>0, <2>2, <3>1, Zenon DEF RecoverShared, SetRequest, TypeOK
      <3>2. CASE pendingRelease # EmptyState
        <4>1. pendingRelease \in State /\ r \notin Leases
          BY <1>0, Zenon DEF TypeOK
        <4> QED BY <1>0, <2>2, <3>2, <4>1, ReleaseLockedTyped, Zenon DEF RecoverShared
      <3> QED BY <3>1, <3>2, Zenon
    <2> QED BY <1>5, <2>1, <2>2, Zenon DEF SharedStep
  <1>6. ASSUME NEW l \in Leases, LeaseStep(l) PROVE TypeOK'
    <2>0. lease[l] \in ExclusiveLease /\ Own(l) \in State /\ MarkedForRecovery(Own(l)) \in State
      BY <1>0, Zenon DEF TypeOK, Own, ExclusiveLease
    <2>1. ASSUME NEW kind \in Kinds, TryExclusive(l, kind) PROVE TypeOK'
      <3>1. [NewLease EXCEPT !.pc = "recover", !.operation = kind] \in ExclusiveLease
        BY Zenon DEF ExclusiveLease
      <3> QED BY <1>0, <2>1, <3>1, Zenon DEF TryExclusive, SetLease, TypeOK
    <2>2. CASE RecoverExclusive(l)
      <3>1. CASE pendingRelease = EmptyState
        <4>1. lease' \in [Leases -> ExclusiveLease]
          BY <1>0, <2>0, <2>2, <3>1, LeaseUpdatesTyped, SetLeaseTyped, Zenon DEF RecoverExclusive
        <4> QED BY <1>0, <2>2, <3>1, <4>1, Zenon DEF RecoverExclusive, TypeOK
      <3>2. CASE pendingRelease # EmptyState
        BY <1>0, <2>2, <3>2, ReleaseLockedTyped, Zenon DEF RecoverExclusive, TypeOK
      <3> QED BY <3>1, <3>2, Zenon
    <2>3. CASE CheckExclusive(l) \/ CloseUnactivated(l)
      <3>1. lease' \in [Leases -> ExclusiveLease]
        BY <1>0, <2>0, <2>3, LeaseUpdatesTyped, SetLeaseTyped, Zenon DEF CheckExclusive, CloseUnactivated
      <3> QED BY <1>0, <2>3, <3>1, Zenon DEF CheckExclusive, CloseUnactivated, TypeOK
    <2>4. CASE Activate(l) \/ PublishActivation(l)
      <3>1. lease' \in [Leases -> ExclusiveLease]
        BY <1>0, <2>0, <2>4, LeaseUpdatesTyped, SetLeaseTyped, Zenon DEF Activate, PublishActivation
      <3> QED BY <1>0, <2>0, <2>4, <3>1, Zenon DEF Activate, PublishActivation, TypeOK
    <2>5. CASE CloseActivated(l)
      BY <1>0, <2>0, <2>5, ReleaseLockedTyped, Zenon DEF CloseActivated
    <2>6. CASE PrepareReplacement(l)
      <3>1. lease' \in [Leases -> ExclusiveLease]
        BY <1>0, <2>0, <2>6, LeaseUpdatesTyped, SetLeaseTyped, Zenon DEF PrepareReplacement
      <3> QED BY <1>0, <2>6, <3>1, Zenon DEF PrepareReplacement, TypeOK
    <2>7. CASE InstallReplacement(l) \/ ReinstateOriginal(l) \/ Handoff(l)
      BY <1>0, <2>0, <2>7, Zenon DEF InstallReplacement, ReinstateOriginal, Handoff, TypeOK
    <2>8. CASE RetainForRecovery(l) \/ RetainSaved(l)
      <3>1. lease' \in [Leases -> ExclusiveLease]
        BY <1>0, <2>0, <2>8, LeaseUpdatesTyped, SetLeaseTyped, Zenon DEF RetainForRecovery, RetainSaved
      <3> QED BY <1>0, <2>0, <2>8, <3>1, Zenon DEF RetainForRecovery, RetainSaved, TypeOK
    <2> QED BY <1>6, <2>1, <2>2, <2>3, <2>4, <2>5, <2>6, <2>7, <2>8, Zenon DEF LeaseStep
  <1>7. CASE UNCHANGED vars
    BY <1>0, <1>7, Zenon DEF vars, TypeOK
  <1> QED BY <1>1, <1>2, <1>3, <1>4, <1>5, <1>6, <1>7, Zenon DEF Next, ReleaseStep

-------------------------------------------------------------------------------
(* The effect of leaving releaseMu on each kind of caller *)

\* A request that leaves releaseMu goes on to check the published state.
LEMMA RequestEffect ==
    ASSUME NEW p \in Requests, NEW ok \in BOOLEAN, AfterRelease(p, ok)
    PROVE  request' = [request EXCEPT ![p] = "check"] /\ UNCHANGED <<writer, lease>>
  BY CallersAssumption, Zenon DEF AfterRelease, SetRequest

\* A TryExclusive that leaves releaseMu goes on to check the published state.
LEMMA RecoverEffect ==
    ASSUME TypeOK, NEW p \in Leases, NEW ok \in BOOLEAN, lease[p].pc = "recover", AfterRelease(p, ok)
    PROVE  /\ lease'[p].pc = "check"
           /\ lease'[p].operation = lease[p].operation
           /\ lease'[p].releasePending = lease[p].releasePending
           /\ \A m \in Leases \ {p} : lease'[m] = lease[m]
           /\ UNCHANGED <<writer, request>>
  BY CallersAssumption DEF AfterRelease, SetLease, TypeOK, ExclusiveLease

\* A Close that leaves releaseMu is done, or is left pending for a second
\* call; either way the lease gives up the gate.
LEMMA CloseEffect ==
    ASSUME TypeOK, NEW p \in Leases, NEW ok \in BOOLEAN, lease[p].pc \in {"active", "closing"},
           AfterRelease(p, ok)
    PROVE  /\ ok => lease'[p].pc = "done"
           /\ ~ok => lease'[p].pc = "active" /\ lease'[p].releasePending = TRUE
           /\ lease'[p].operation = lease[p].operation
           /\ \A m \in Leases \ {p} : lease'[m] = lease[m]
           /\ writer' = IF writer = p THEN Nobody ELSE writer
           /\ request' = request
  <1>1. /\ lease' = [lease EXCEPT ![p] = [lease[p] EXCEPT !.pc = IF ok THEN "done" ELSE "active",
                                                          !.closed = ok,
                                                          !.releasePending = ~ok,
                                                          !.closeCalls = @ + 1]]
        /\ writer' = IF writer = p THEN Nobody ELSE writer
        /\ request' = request
    BY CallersAssumption, Zenon DEF AfterRelease, SetLease
  <1>2. lease[p] \in ExclusiveLease /\ lease \in [Leases -> ExclusiveLease]
    BY Zenon DEF TypeOK
  <1>3. /\ lease'[p].pc = IF ok THEN "done" ELSE "active"
        /\ lease'[p].operation = lease[p].operation
        /\ lease'[p].releasePending = ~ok
    BY <1>1, <1>2, Zenon DEF ExclusiveLease
  <1>4. \A m \in Leases \ {p} : lease'[m] = lease[m]
    BY <1>1, <1>2, Zenon
  <1> QED BY <1>1, <1>3, <1>4, Zenon

\* A Close that leaves releaseMu has given up the gate, so the gate still
\* belongs to those that GateInv says.
LEMMA CloseKeepsGate ==
    ASSUME TypeOK, GateInv, NEW p \in Leases, NEW ok \in BOOLEAN, lease[p].pc = "closing",
           AfterRelease(p, ok), UNCHANGED readers
    PROVE  GateInv'
  <1>1. /\ ok => lease'[p].pc = "done"
        /\ ~ok => lease'[p].pc = "active" /\ lease'[p].releasePending = TRUE
        /\ \A m \in Leases \ {p} : lease'[m] = lease[m]
        /\ writer' = IF writer = p THEN Nobody ELSE writer
        /\ request' = request
    BY CloseEffect, Zenon
  <1>2. ~HoldsGate(p)' /\ writer' # p
    BY <1>1, CallersAssumption, Zenon DEF HoldsGate
  <1>3. \A m \in Leases \ {p} : HoldsGate(m)' <=> HoldsGate(m)
    BY <1>1, Zenon DEF HoldsGate
  <1>4. \A m \in Leases \ {p} : writer' = m <=> writer = m
    BY <1>1, CallersAssumption, Zenon
  <1>5. \A m \in Leases : writer' = m <=> HoldsGate(m)'
    BY <1>2, <1>3, <1>4, Zenon DEF GateInv
  <1>6. writer' # Nobody => readers' = {}
    BY <1>1, Zenon DEF GateInv
  <1> QED BY <1>1, <1>5, <1>6, Zenon DEF GateInv

\* Any other update of one lease leaves the other leases alone.
LEMMA LeaseEffect ==
    ASSUME TypeOK, NEW l \in Leases, NEW rec, SetLease(l, rec)
    PROVE  lease'[l] = rec /\ \A m \in Leases \ {l} : lease'[m] = lease[m]
  BY Zenon DEF TypeOK, SetLease

\* What the argument uses of the values of State.
StateFacts ==
    /\ ~EmptyState.active
    /\ ~EmptyState.recovery
    /\ \A l \in Leases :
          /\ Own(l).active
          /\ ~Own(l).recovery
          /\ Own(l).kind = lease[l].operation
          /\ MarkedForRecovery(Own(l)).active
          /\ MarkedForRecovery(Own(l)).recovery
          /\ MarkedForRecovery(Own(l)).kind = lease[l].operation
          /\ \A m \in Leases : Own(l) = Own(m) => l = m
          /\ lease'[l].operation = lease[l].operation => Own(l)' = Own(l)

\* Distinct leases publish distinct states, and marks keep kind and activity.
LEMMA StateFactsHold == TypeOK => StateFacts
  BY Zenon DEF StateFacts, TypeOK, ExclusiveLease, Own, ActiveState, MarkedForRecovery, EmptyState

-------------------------------------------------------------------------------
(* The inductive step, one lemma per group of actions *)

\* Initialize and a crash preserve the inductive invariant.
LEMMA ProcessPreserves == IInv /\ TypeOK' /\ (Initialize \/ Crash) => IInv'
  <1> SUFFICES ASSUME IInv, TypeOK', Initialize \/ Crash PROVE IInv'
    BY Zenon
  <1> USE CallersAssumption
      DEF IInv, GateInv, HoldsGate, StateInv, LeaseInv, ReleaseInv, CloseInv, DownInv,
          OperationOwnsState, AdmittedMeansInactive, RestoreLeavesMarker
  <1>1. CASE Initialize
    <2>1. state' = EmptyState \/ (state'.active /\ state'.recovery /\ NeedsRecovery(store'))
      <3>1. store \in State
        BY Zenon DEF TypeOK
      <3>2. store.active => MarkedForRecovery(store).recovery /\ MarkedForRecovery(store).active
        BY <3>1, Zenon DEF State, MarkedForRecovery
      <3> QED BY <1>1, <3>2, Zenon DEF Initialize, NeedsRecovery
    <2>2. /\ releasing.step = "none" /\ releasing.by = Nobody
          /\ \A l \in Leases : lease[l].pc = "new"
      BY <1>1 DEF Initialize, NotReleasing, NewLease
    <2>3. ~EmptyState.active /\ ~EmptyState.recovery
      BY Zenon DEF EmptyState
    <2> QED BY <1>1, <2>1, <2>2, <2>3, Zenon DEF Initialize
  <1>2. CASE Crash
    <2>1. /\ releasing'.step = "none" /\ releasing'.by = Nobody
          /\ \A l \in Leases : lease'[l] = NewLease /\ lease'[l].pc = "new"
          /\ ~EmptyState.active /\ ~EmptyState.recovery
      BY <1>2, Zenon DEF Crash, NotReleasing, NewLease, EmptyState
    <2> QED BY <1>2, <2>1, Zenon DEF Crash
  <1> QED BY <1>1, <1>2, Zenon

\* The steps of releaseLocked under releaseMu preserve the inductive invariant.
LEMMA ReleasePreserves == IInv /\ TypeOK' /\ ReleaseStep => IInv'
  <1> SUFFICES ASSUME IInv, TypeOK', ReleaseStep PROVE IInv'
    BY Zenon
  <1> USE CallersAssumption
  <1> DEFINE p == releasing.by
  <1>1. TypeOK /\ StateFacts
    BY StateFactsHold, Zenon DEF IInv
  <1>2. releasing.step # "none" /\ releasing # NotReleasing
    <2>1. releasing.step # "none"
      BY Zenon DEF ReleaseStep, ReleaseSaved, ReleaseSaveFailed, ReleasePublished
    <2> QED BY <2>1 DEF NotReleasing
  <1>3. /\ state = releasing.expected /\ state.active /\ ~state.recovery
        /\ up /\ p \in Requests \cup Leases
    BY <1>1, <1>2, Zenon DEF IInv, ReleaseInv, DownInv, TypeOK
  <1>4. CASE ReleaseSaved
    <2>1. releasing'.step = "publish" /\ releasing'.by = p /\ releasing'.expected = releasing.expected
      BY <1>1, <1>4, Zenon DEF ReleaseSaved, TypeOK, Release
    <2>2. GateInv' /\ CloseInv' /\ DownInv' /\ ReleaseInv'
      BY <1>2, <1>3, <1>4, <2>1, Zenon
         DEF ReleaseSaved, IInv, GateInv, HoldsGate, CloseInv, DownInv, ReleaseInv, Own
    <2>3. StateInv'
      BY <1>3, <1>4, Zenon DEF ReleaseSaved, IInv, StateInv
    <2>4. LeaseInv'
      <3> SUFFICES ASSUME NEW m \in Leases, lease[m].pc = "activating" PROVE FALSE
        BY <1>4, Zenon DEF ReleaseSaved, IInv, LeaseInv, Own
      <3> QED BY <1>3, Zenon DEF IInv, AdmittedMeansInactive
    <2>5. OperationOwnsState'
      <3> SUFFICES ASSUME NEW m \in Leases, lease[m].pc = "active", ~lease[m].releasePending
                   PROVE  FALSE
        BY <1>4, Zenon DEF ReleaseSaved, OperationOwnsState
      <3>1. HoldsGate(m) /\ state = Own(m) /\ writer = m
        BY Zenon DEF HoldsGate, IInv, GateInv, OperationOwnsState
      <3>2. readers = {} /\ p \in Leases
        BY <1>2, <3>1, Zenon DEF IInv, GateInv, ReleaseInv
      <3>3. lease[p].pc = "recover" \/ (lease[p].pc = "closing" /\ Own(p) = Own(m))
        BY <1>2, <1>3, <3>1, <3>2, Zenon DEF IInv, ReleaseInv, GateInv
      <3>4. lease[p].pc = "recover" => HoldsGate(p)
        BY Zenon DEF HoldsGate
      <3> QED BY <1>1, <3>1, <3>2, <3>3, <3>4, Zenon DEF IInv, GateInv, StateFacts
    <2>6. AdmittedMeansInactive' /\ RestoreLeavesMarker'
      BY <1>4, <2>1, Zenon DEF ReleaseSaved, IInv, AdmittedMeansInactive, RestoreLeavesMarker
    <2> QED BY <2>2, <2>3, <2>4, <2>5, <2>6, Zenon DEF IInv
  <1>5. ASSUME NEW ok \in BOOLEAN, AfterRelease(p, ok), releasing' = NotReleasing,
               UNCHANGED <<up, readers>>, pendingRelease' \in {state, EmptyState},
               ~ok => releasing.step = "save" /\ UNCHANGED <<state, store>>,
               ok => state' = EmptyState /\ UNCHANGED store
        PROVE  IInv'
    <2> DEFINE Quiet(m) ==
          /\ lease[m].pc \in {"active", "closing"} => lease[m].releasePending
          /\ lease[m].pc \notin {"open", "activating", "retaining"}
    <2>0. NotReleasing.by = Nobody /\ NotReleasing.step = "none"
      BY Zenon DEF NotReleasing
    <2>1. StateInv' /\ RestoreLeavesMarker' /\ ReleaseInv' /\ DownInv'
      <3>1. CASE ok
        BY <1>1, <1>3, <1>5, <2>0, <3>1, Zenon
           DEF StateFacts, IInv, StateInv, RestoreLeavesMarker, ReleaseInv, DownInv
      <3>2. CASE ~ok
        BY <1>1, <1>2, <1>3, <1>5, <2>0, <3>2, Zenon
           DEF StateFacts, IInv, StateInv, RestoreLeavesMarker, ReleaseInv, DownInv
      <3> QED BY <3>1, <3>2, Zenon
    <2>2. ASSUME NEW m \in Leases, m # p PROVE Quiet(m)
      <3>1. lease[m].pc \notin {"open", "activating"}
        BY <1>3, Zenon DEF IInv, AdmittedMeansInactive
      <3>2. lease[m].pc # "retaining"
        BY <1>1, <1>3, Zenon DEF IInv, LeaseInv, StateFacts
      <3>3. ASSUME lease[m].pc \in {"active", "closing"}, ~lease[m].releasePending PROVE FALSE
        <4>1. HoldsGate(m) /\ writer = m /\ state = Own(m) /\ readers = {}
          BY <3>3, Zenon DEF HoldsGate, IInv, GateInv, LeaseInv
        <4>2. p \in Leases
          BY <1>2, <4>1, Zenon DEF IInv, ReleaseInv, GateInv
        <4>3. lease[p].pc = "recover" => writer = p
          BY <4>2, Zenon DEF HoldsGate, IInv, GateInv
        <4>4. lease[p].pc = "recover" \/ state = Own(p)
          BY <1>2, <1>3, <4>1, <4>2, Zenon DEF IInv, ReleaseInv, GateInv
        <4> QED BY <1>1, <2>2, <4>1, <4>2, <4>3, <4>4, Zenon DEF StateFacts
      <3>4. lease[m].releasePending \in BOOLEAN
        BY <1>1, Zenon DEF TypeOK, ExclusiveLease
      <3> QED BY <3>1, <3>2, <3>3, <3>4, Zenon
    <2>3. CASE p \in Requests /\ request[p] = "recover"
      <3>1. request' = [request EXCEPT ![p] = "check"] /\ UNCHANGED <<writer, lease>>
        BY <1>5, <2>3, RequestEffect, Zenon
      <3>2. \A m \in Leases : Quiet(m) /\ Own(m)' = Own(m)
        BY <1>1, <2>2, <2>3, <3>1, Zenon DEF StateFacts
      <3>3. request'[p] = "check" /\ \A r \in Requests \ {p} : request'[r] = request[r]
        BY <1>1, <2>3, <3>1, Zenon DEF TypeOK
      <3>4. GateInv' /\ CloseInv'
        BY <1>5, <2>3, <3>1, <3>3, Zenon DEF IInv, GateInv, HoldsGate, CloseInv
      <3>5. LeaseInv' /\ OperationOwnsState'
        BY <3>1, <3>2, Zenon DEF IInv, LeaseInv, OperationOwnsState
      <3>6. AdmittedMeansInactive'
        BY <1>3, <3>1, <3>2, <3>3, Zenon DEF IInv, AdmittedMeansInactive
      <3> QED BY <2>1, <3>4, <3>5, <3>6, Zenon DEF IInv
    <2>4. CASE p \in Leases /\ lease[p].pc = "recover"
      <3>1. /\ lease'[p].pc = "check"
            /\ lease'[p].operation = lease[p].operation
            /\ lease'[p].releasePending = lease[p].releasePending
            /\ \A m \in Leases \ {p} : lease'[m] = lease[m]
            /\ UNCHANGED <<writer, request>>
        BY <1>1, <1>5, <2>4, RecoverEffect, Zenon
      <3>2. \A m \in Leases \ {p} : Quiet(m) /\ lease'[m] = lease[m]
        BY <2>2, <3>1, Zenon
      <3>3. GateInv'
        BY <1>5, <2>4, <3>1, Zenon DEF IInv, GateInv, HoldsGate
      <3>4. CloseInv'
        BY <2>4, <3>1, Zenon DEF IInv, CloseInv
      <3>5. LeaseInv' /\ OperationOwnsState'
        BY <2>4, <3>1, <3>2 DEF IInv, LeaseInv, OperationOwnsState
      <3>6. AdmittedMeansInactive'
        BY <1>3, <2>4, <3>1, <3>2, Zenon DEF IInv, AdmittedMeansInactive
      <3> QED BY <2>1, <3>3, <3>4, <3>5, <3>6, Zenon DEF IInv
    <2>5. CASE p \in Leases /\ lease[p].pc = "closing" /\ state = Own(p)
      <3>1. /\ ok => lease'[p].pc = "done"
            /\ ~ok => lease'[p].pc = "active" /\ lease'[p].releasePending = TRUE
            /\ \A m \in Leases \ {p} : lease'[m] = lease[m]
            /\ request' = request
        BY <1>1, <1>5, <2>5, CloseEffect, ZenonT(40)
      <3>2. \A m \in Leases \ {p} : Quiet(m) /\ lease'[m] = lease[m]
        BY <2>2, <3>1, Zenon
      <3>3. GateInv'
        BY <1>1, <1>5, <2>5, CloseKeepsGate, Zenon DEF IInv
      <3>4. CloseInv'
        BY <1>5, <2>5, <3>1, Zenon DEF IInv, CloseInv
      <3>5. LeaseInv' /\ OperationOwnsState'
        <4>1. /\ lease'[p].pc \in {"done", "active"}
              /\ lease'[p].pc = "active" => lease'[p].releasePending
          BY <1>5, <3>1, Zenon
        <4>2. LeaseInv'
          BY <3>2, <4>1, Zenon DEF IInv, LeaseInv
        <4>3. OperationOwnsState'
          BY <3>2, <4>1, Zenon DEF OperationOwnsState
        <4> QED BY <4>2, <4>3, Zenon
      <3>6. AdmittedMeansInactive'
        BY <1>3, <1>5, <2>5, <3>1, <3>2, Zenon DEF IInv, AdmittedMeansInactive
      <3> QED BY <2>1, <3>3, <3>4, <3>5, <3>6, Zenon DEF IInv
    <2> QED BY <1>2, <1>3, <2>3, <2>4, <2>5, Zenon DEF IInv, ReleaseInv
  <1>6. CASE ReleaseSaveFailed
    BY <1>3, <1>5, <1>6, Zenon DEF ReleaseSaveFailed
  <1>7. CASE ReleasePublished
    BY <1>3, <1>5, <1>7, Zenon DEF ReleasePublished
  <1> QED BY <1>4, <1>6, <1>7, Zenon DEF ReleaseStep

\* The steps of TryShared, TryProbe and SharedLease.Close preserve the
\* inductive invariant.
LEMMA SharedPreserves == IInv /\ TypeOK' /\ (\E r \in Requests : SharedStep(r)) => IInv'
  <1> SUFFICES ASSUME IInv, TypeOK', NEW r \in Requests, SharedStep(r) PROVE IInv'
    BY Zenon
  <1> USE CallersAssumption
  <1>1. TypeOK /\ StateFacts
    BY StateFactsHold, Zenon DEF IInv
  <1>2. SUFFICES /\ GateInv' /\ ReleaseInv' /\ CloseInv' /\ DownInv'
                 /\ StateInv' /\ LeaseInv'
                 /\ OperationOwnsState' /\ AdmittedMeansInactive' /\ RestoreLeavesMarker'
    BY Zenon DEF IInv
  <1>3. CASE TryShared(r) \/ TryProbe(r)
    <2>1. /\ up /\ up'
          /\ request' \in {[request EXCEPT ![r] = "recover"], [request EXCEPT ![r] = "check"]}
          /\ readers' = readers \cup {r} /\ writer = Nobody /\ request[r] = "idle"
          /\ UNCHANGED <<writer, state, store, pendingRelease, releasing, lease>>
      BY <1>3 DEF TryShared, TryProbe, SetRequest
    <2>2. request'[r] \in {"recover", "check"} /\ \A s \in Requests \ {r} : request'[s] = request[s]
      BY <1>1, <2>1, Zenon DEF TypeOK
    <2>3. GateInv'
      BY <2>1, <2>2, Zenon DEF IInv, GateInv, HoldsGate
    <2>4. ReleaseInv'
      BY <2>1, <2>2, Zenon DEF IInv, ReleaseInv, Own
    <2>5. CloseInv' /\ DownInv'
      BY <2>1, <2>2, Zenon DEF IInv, CloseInv, DownInv
    <2>6. StateInv' /\ LeaseInv'
      BY <2>1, Zenon DEF IInv, StateInv, LeaseInv, Own
    <2>7. OperationOwnsState' /\ RestoreLeavesMarker'
      BY <2>1, Zenon DEF IInv, OperationOwnsState, RestoreLeavesMarker, Own
    <2>8. AdmittedMeansInactive'
      BY <2>1, <2>2, Zenon DEF IInv, AdmittedMeansInactive
    <2> QED BY <2>3, <2>4, <2>5, <2>6, <2>7, <2>8, Zenon
  <1>4. CASE CheckShared(r) \/ CloseShared(r)
    <2>1. /\ \/ request' = [request EXCEPT ![r] = "idle"] /\ readers' = readers \ {r}
             \/ request' = [request EXCEPT ![r] = "held"] /\ readers' = readers /\ ~state.active
          /\ request[r] \in {"check", "held"}
          /\ UNCHANGED <<up, writer, state, store, pendingRelease, releasing, lease>>
      BY <1>4, Zenon DEF CheckShared, CloseShared, SetRequest
    <2>2. /\ request'[r] = "idle" \/ (request'[r] = "held" /\ ~state.active)
          /\ r \in readers' <=> request'[r] # "idle"
          /\ \A s \in Requests \ {r} : request'[s] = request[s] /\ (s \in readers' <=> s \in readers)
      BY <1>1, <2>1, Zenon DEF TypeOK, IInv, GateInv
    <2>3. GateInv'
      BY <2>1, <2>2, Zenon DEF IInv, GateInv, HoldsGate
    <2>4. ReleaseInv'
      BY <2>1, <2>2, Zenon DEF IInv, ReleaseInv, Own
    <2>5. CloseInv' /\ DownInv'
      BY <2>1, <2>2, Zenon DEF IInv, CloseInv, DownInv
    <2>6. StateInv' /\ LeaseInv'
      BY <2>1, Zenon DEF IInv, StateInv, LeaseInv, Own
    <2>7. OperationOwnsState' /\ RestoreLeavesMarker'
      BY <2>1, Zenon DEF IInv, OperationOwnsState, RestoreLeavesMarker, Own
    <2>8. AdmittedMeansInactive'
      BY <2>1, <2>2, Zenon DEF IInv, AdmittedMeansInactive
    <2> QED BY <2>3, <2>4, <2>5, <2>6, <2>7, <2>8, Zenon
  <1>5. CASE RecoverShared(r)
    <2>1. request[r] = "recover" /\ r \notin Leases /\ UNCHANGED <<up, readers, state, store>>
      BY <1>5, Zenon DEF RecoverShared
    <2>2. \/ /\ request' = [request EXCEPT ![r] = "check"]
             /\ pendingRelease' \in {EmptyState, pendingRelease}
             /\ releasing.by = Nobody
             /\ UNCHANGED <<writer, releasing, lease>>
          \/ /\ releasing.by = Nobody
             /\ pendingRelease # EmptyState
             /\ state.active
             /\ state = pendingRelease
             /\ releasing' = [by |-> r, expected |-> pendingRelease, step |-> "save"]
             /\ UNCHANGED <<writer, pendingRelease, request, lease>>
      BY <1>5, <2>1, RequestEffect, Zenon DEF RecoverShared, ReleaseLocked, KeepReleasing, SetRequest
    <2>3. /\ request'[r] \in {"recover", "check"} /\ UNCHANGED <<writer, lease>>
          /\ \A s \in Requests \ {r} : request'[s] = request[s]
          /\ pendingRelease' \in {EmptyState, pendingRelease}
      BY <1>1, <2>1, <2>2, Zenon DEF TypeOK
    <2>4. GateInv'
      BY <2>1, <2>3, Zenon DEF IInv, GateInv, HoldsGate
    <2>5. ReleaseInv'
      <3>1. CASE UNCHANGED releasing /\ releasing.by = Nobody
        BY <2>1, <3>1, Zenon DEF IInv, ReleaseInv
      <3>2. CASE /\ releasing' = [by |-> r, expected |-> pendingRelease, step |-> "save"]
                 /\ state = pendingRelease /\ pendingRelease # EmptyState /\ UNCHANGED request
        <4>1. state.active /\ ~state.recovery
          BY <3>2, Zenon DEF IInv, StateInv
        <4> QED BY <2>1, <3>2, <4>1, Zenon DEF ReleaseInv
      <3> QED BY <2>2, <3>1, <3>2, Zenon
    <2>6. CloseInv' /\ DownInv'
      BY <2>1, <2>3, Zenon DEF IInv, CloseInv, DownInv
    <2>7. StateInv' /\ LeaseInv'
      BY <2>1, <2>3, Zenon DEF IInv, StateInv, LeaseInv, Own
    <2>8. releasing.step = "none"
      BY <2>2, Zenon DEF IInv, ReleaseInv
    <2>9. OperationOwnsState' /\ RestoreLeavesMarker'
      BY <2>1, <2>3, <2>8, Zenon DEF IInv, OperationOwnsState, RestoreLeavesMarker, Own
    <2>10. AdmittedMeansInactive'
      BY <2>1, <2>3, Zenon DEF IInv, AdmittedMeansInactive
    <2> QED BY <2>4, <2>5, <2>6, <2>7, <2>9, <2>10, Zenon
  <1> QED BY <1>3, <1>4, <1>5, Zenon DEF SharedStep

-------------------------------------------------------------------------------
(* The actions of an exclusive lease, and the theorems *)

\* The steps of an exclusive lease, from TryExclusive to Close, Handoff or
\* RetainForRecovery, preserve the inductive invariant.
LEMMA LeasePreserves == IInv /\ TypeOK' /\ (\E l \in Leases : LeaseStep(l)) => IInv'
  <1> SUFFICES ASSUME IInv, TypeOK', NEW l \in Leases, LeaseStep(l) PROVE IInv'
    BY Zenon
  <1> USE CallersAssumption
  <1>1. TypeOK /\ StateFacts /\ lease[l] \in ExclusiveLease
    BY StateFactsHold, Zenon DEF IInv, TypeOK
  <1>2. up /\ UNCHANGED up /\ UNCHANGED readers
    <2>1. UNCHANGED up /\ UNCHANGED readers
      BY Zenon DEF LeaseStep, TryExclusive, RecoverExclusive, CheckExclusive, Activate, PublishActivation,
             CloseUnactivated, CloseActivated, PrepareReplacement, InstallReplacement, ReinstateOriginal,
             Handoff, RetainForRecovery, RetainSaved
    <2>2. up \/ lease[l].pc # "new"
      BY Zenon DEF LeaseStep, TryExclusive, RecoverExclusive, CheckExclusive, Activate, PublishActivation,
             CloseUnactivated, CloseActivated, PrepareReplacement, InstallReplacement, ReinstateOriginal,
             Handoff, RetainForRecovery, RetainSaved, Restoring
    <2> QED BY <2>1, <2>2 DEF IInv, DownInv, NewLease
  <1>3. SUFFICES /\ GateInv' /\ ReleaseInv' /\ CloseInv'
                 /\ StateInv' /\ LeaseInv'
                 /\ OperationOwnsState' /\ AdmittedMeansInactive' /\ RestoreLeavesMarker'
    BY <1>2, Zenon DEF IInv, DownInv
  <1>4. ASSUME NEW kind \in Kinds, TryExclusive(l, kind) PROVE IInv'
    <2>1. /\ lease'[l] = [NewLease EXCEPT !.pc = "recover", !.operation = kind]
          /\ \A m \in Leases \ {l} : lease'[m] = lease[m]
      BY <1>1, <1>4, LeaseEffect, Zenon DEF TryExclusive
    <2>2. /\ lease'[l].pc = "recover"
          /\ ~lease'[l].releasePending
          /\ \A m \in Leases \ {l} : lease'[m] = lease[m]
      BY <1>1, <2>1, Zenon DEF ExclusiveLease, NewLease
    <2>3. /\ lease[l].pc = "new" /\ writer = Nobody /\ readers = {} /\ writer' = l
          /\ UNCHANGED <<state, store, pendingRelease, releasing, request>>
      BY <1>4, Zenon DEF TryExclusive
    <2>4. GateInv' /\ ReleaseInv' /\ CloseInv'
      BY <1>1, <1>2, <2>2, <2>3 DEF IInv, GateInv, HoldsGate, ReleaseInv, CloseInv, LeaseInv,
                                      AdmittedMeansInactive, TypeOK, StateFacts
    <2>5. StateInv'
      BY <2>3, Zenon DEF IInv, StateInv
    <2>6. LeaseInv'
      BY <1>1, <1>2, <2>2, <2>3, ZenonT(40) DEF IInv, LeaseInv, StateFacts
    <2>7. OperationOwnsState' /\ AdmittedMeansInactive' /\ RestoreLeavesMarker'
      BY <1>1, <1>2, <2>2, <2>3, ZenonT(40) DEF IInv, GateInv, HoldsGate, StateInv, LeaseInv, ReleaseInv, NeedsRecovery,
             OperationOwnsState, AdmittedMeansInactive, RestoreLeavesMarker, StateFacts
    <2> QED BY <1>2, <2>4, <2>5, <2>6, <2>7, Zenon DEF IInv, DownInv
  <1>5. CASE CheckExclusive(l)
    <2>1. /\ lease'[l] = [lease[l] EXCEPT !.pc = IF state.active THEN "done" ELSE "open"]
          /\ \A m \in Leases \ {l} : lease'[m] = lease[m]
      BY <1>1, <1>5, LeaseEffect, Zenon DEF CheckExclusive
    <2>2. /\ state.active => lease'[l].pc = "done"
          /\ ~state.active => lease'[l].pc = "open"
          /\ lease'[l].operation = lease[l].operation /\ lease'[l].releasePending = lease[l].releasePending
          /\ lease'[l].closeCalls = lease[l].closeCalls
          /\ \A m \in Leases \ {l} : lease'[m] = lease[m]
      BY <1>1, <2>1, Zenon DEF ExclusiveLease, NewLease
    <2>3. /\ lease[l].pc = "check"
          /\ state.active => writer' = Nobody
          /\ ~state.active => writer' = writer
          /\ UNCHANGED <<state, store, pendingRelease, releasing, request>>
      BY <1>5, Zenon DEF CheckExclusive
    <2>4. GateInv' /\ ReleaseInv' /\ CloseInv'
      BY <1>1, <1>2, <2>2, <2>3 DEF IInv, GateInv, HoldsGate, ReleaseInv, CloseInv, LeaseInv,
                                      AdmittedMeansInactive, TypeOK, StateFacts
    <2>5. StateInv'
      BY <2>3, Zenon DEF IInv, StateInv
    <2>6. LeaseInv'
      BY <1>1, <1>2, <2>2, <2>3 DEF IInv, LeaseInv, StateFacts
    <2>7. OperationOwnsState' /\ AdmittedMeansInactive' /\ RestoreLeavesMarker'
      BY <1>1, <1>2, <2>2, <2>3 DEF IInv, GateInv, HoldsGate, StateInv, LeaseInv, ReleaseInv, NeedsRecovery,
             OperationOwnsState, AdmittedMeansInactive, RestoreLeavesMarker, StateFacts
    <2> QED BY <2>4, <2>5, <2>6, <2>7, Zenon
  <1>6. CASE CloseUnactivated(l)
    <2>1. /\ lease'[l] = [lease[l] EXCEPT !.pc = "done", !.closed = TRUE]
          /\ \A m \in Leases \ {l} : lease'[m] = lease[m]
      BY <1>1, <1>6, LeaseEffect, Zenon DEF CloseUnactivated
    <2>2. /\ lease'[l].pc = "done"
          /\ lease'[l].operation = lease[l].operation /\ lease'[l].releasePending = lease[l].releasePending
          /\ lease'[l].closeCalls = lease[l].closeCalls
          /\ \A m \in Leases \ {l} : lease'[m] = lease[m]
      BY <1>1, <2>1, Zenon DEF ExclusiveLease, NewLease
    <2>3. /\ lease[l].pc = "open" /\ writer' = Nobody
          /\ UNCHANGED <<state, store, pendingRelease, releasing, request>>
      BY <1>6, Zenon DEF CloseUnactivated
    <2>4. GateInv' /\ ReleaseInv' /\ CloseInv'
      BY <1>1, <1>2, <2>2, <2>3 DEF IInv, GateInv, HoldsGate, ReleaseInv, CloseInv, LeaseInv,
                                      AdmittedMeansInactive, TypeOK, StateFacts
    <2>5. StateInv'
      BY <2>3, Zenon DEF IInv, StateInv
    <2>6. LeaseInv'
      BY <1>1, <1>2, <2>2, <2>3 DEF IInv, LeaseInv, StateFacts
    <2>7. OperationOwnsState' /\ AdmittedMeansInactive' /\ RestoreLeavesMarker'
      BY <1>1, <1>2, <2>2, <2>3 DEF IInv, GateInv, HoldsGate, StateInv, LeaseInv, ReleaseInv, NeedsRecovery,
             OperationOwnsState, AdmittedMeansInactive, RestoreLeavesMarker, StateFacts
    <2> QED BY <2>4, <2>5, <2>6, <2>7, Zenon
  <1>7. CASE Activate(l)
    <2>1. /\ lease'[l] = [lease[l] EXCEPT !.pc = "activating"]
          /\ \A m \in Leases \ {l} : lease'[m] = lease[m]
      BY <1>1, <1>7, LeaseEffect, Zenon DEF Activate
    <2>2. /\ lease'[l].pc = "activating"
          /\ lease'[l].operation = lease[l].operation /\ lease'[l].releasePending = lease[l].releasePending
          /\ lease'[l].closeCalls = lease[l].closeCalls
          /\ \A m \in Leases \ {l} : lease'[m] = lease[m]
      BY <1>1, <2>1, Zenon DEF ExclusiveLease, NewLease
    <2>3. /\ lease[l].pc = "open" /\ store' = Own(l)
          /\ UNCHANGED <<writer, state, pendingRelease, releasing, request>>
      BY <1>7, Zenon DEF Activate
    <2>4. GateInv' /\ ReleaseInv' /\ CloseInv'
      BY <1>1, <1>2, <2>2, <2>3 DEF IInv, GateInv, HoldsGate, ReleaseInv, CloseInv, LeaseInv,
                                      AdmittedMeansInactive, TypeOK, StateFacts
    <2>5. StateInv'
      BY <1>1, <1>2, <2>2, <2>3, Zenon DEF IInv, StateInv, AdmittedMeansInactive
    <2>6. LeaseInv'
      BY <1>1, <1>2, <2>2, <2>3 DEF IInv, LeaseInv, StateFacts, GateInv, HoldsGate
    <2>7. OperationOwnsState' /\ AdmittedMeansInactive' /\ RestoreLeavesMarker'
      BY <1>1, <1>2, <2>2, <2>3 DEF IInv, GateInv, HoldsGate, StateInv, LeaseInv, ReleaseInv, NeedsRecovery,
             OperationOwnsState, AdmittedMeansInactive, RestoreLeavesMarker, StateFacts
    <2> QED BY <2>4, <2>5, <2>6, <2>7, Zenon
  <1>8. CASE PublishActivation(l)
    <2>1. /\ lease'[l] = [lease[l] EXCEPT !.pc = "active", !.activated = TRUE]
          /\ \A m \in Leases \ {l} : lease'[m] = lease[m]
      BY <1>1, <1>8, LeaseEffect, Zenon DEF PublishActivation
    <2>2. /\ lease'[l].pc = "active"
          /\ lease'[l].operation = lease[l].operation /\ lease'[l].releasePending = lease[l].releasePending
          /\ lease'[l].closeCalls = lease[l].closeCalls
          /\ \A m \in Leases \ {l} : lease'[m] = lease[m]
      BY <1>1, <2>1, Zenon DEF ExclusiveLease, NewLease
    <2>3. /\ lease[l].pc = "activating" /\ state' = Own(l)
          /\ UNCHANGED <<writer, store, pendingRelease, releasing, request>>
      BY <1>8, Zenon DEF PublishActivation
    <2>4. GateInv' /\ ReleaseInv' /\ CloseInv'
      BY <1>1, <1>2, <2>2, <2>3 DEF IInv, GateInv, HoldsGate, ReleaseInv, CloseInv, LeaseInv,
                                      AdmittedMeansInactive, TypeOK, StateFacts
    <2>5. StateInv'
      BY <1>1, <1>2, <2>2, <2>3, Zenon DEF IInv, StateInv, StateFacts
    <2>6. LeaseInv'
      BY <1>1, <1>2, <2>2, <2>3 DEF IInv, LeaseInv, StateFacts, GateInv, HoldsGate, AdmittedMeansInactive
    <2>7. OperationOwnsState' /\ AdmittedMeansInactive' /\ RestoreLeavesMarker'
      BY <1>1, <1>2, <2>2, <2>3 DEF IInv, GateInv, HoldsGate, StateInv, LeaseInv, ReleaseInv, NeedsRecovery,
             OperationOwnsState, AdmittedMeansInactive, RestoreLeavesMarker, StateFacts
    <2> QED BY <2>4, <2>5, <2>6, <2>7, Zenon
  <1>9. CASE PrepareReplacement(l)
    <2>1. /\ lease'[l] = [lease[l] EXCEPT !.prepared = TRUE]
          /\ \A m \in Leases \ {l} : lease'[m] = lease[m]
      BY <1>1, <1>9, LeaseEffect, Zenon DEF PrepareReplacement, Restoring
    <2>2. /\ lease'[l].pc = lease[l].pc
          /\ lease'[l].operation = lease[l].operation /\ lease'[l].releasePending = lease[l].releasePending
          /\ lease'[l].closeCalls = lease[l].closeCalls
          /\ \A m \in Leases \ {l} : lease'[m] = lease[m]
      BY <1>1, <2>1, Zenon DEF ExclusiveLease, NewLease
    <2>3. /\ lease[l].pc = "active" /\ ~lease[l].releasePending
          /\ UNCHANGED <<writer, state, store, pendingRelease, releasing, request>>
      BY <1>9, Zenon DEF PrepareReplacement, Restoring
    <2>4. GateInv' /\ ReleaseInv' /\ CloseInv'
      BY <1>1, <1>2, <2>2, <2>3 DEF IInv, GateInv, HoldsGate, ReleaseInv, CloseInv, LeaseInv,
                                      AdmittedMeansInactive, TypeOK, StateFacts
    <2>5. StateInv'
      BY <2>3, Zenon DEF IInv, StateInv
    <2>6. LeaseInv'
      BY <1>1, <1>2, <2>2, <2>3, ZenonT(40) DEF IInv, LeaseInv, StateFacts
    <2>7. OperationOwnsState' /\ AdmittedMeansInactive' /\ RestoreLeavesMarker'
      BY <1>1, <1>2, <2>2, <2>3 DEF IInv, GateInv, HoldsGate, StateInv, LeaseInv, ReleaseInv, NeedsRecovery,
             OperationOwnsState, AdmittedMeansInactive, RestoreLeavesMarker, StateFacts
    <2> QED BY <2>4, <2>5, <2>6, <2>7, Zenon
  <1>10. CASE RetainForRecovery(l)
    <2>1. /\ lease'[l] = [lease[l] EXCEPT !.pc = "retaining", !.closed = TRUE]
          /\ \A m \in Leases \ {l} : lease'[m] = lease[m]
      BY <1>1, <1>10, LeaseEffect, Zenon DEF RetainForRecovery, Restoring
    <2>2. /\ lease'[l].pc = "retaining"
          /\ lease'[l].operation = lease[l].operation /\ lease'[l].releasePending = lease[l].releasePending
          /\ lease'[l].closeCalls = lease[l].closeCalls
          /\ \A m \in Leases \ {l} : lease'[m] = lease[m]
      BY <1>1, <2>1, Zenon DEF ExclusiveLease, NewLease
    <2>3. /\ lease[l].pc = "active" /\ ~lease[l].releasePending /\ lease[l].operation = Restore
          /\ writer' = Nobody /\ state' = MarkedForRecovery(Own(l))
          /\ UNCHANGED <<store, pendingRelease, releasing, request>>
      BY <1>10, Zenon DEF RetainForRecovery, Restoring
    <2>4. GateInv' /\ ReleaseInv' /\ CloseInv'
      BY <1>1, <1>2, <2>2, <2>3 DEF IInv, GateInv, HoldsGate, ReleaseInv, CloseInv, LeaseInv,
                                      AdmittedMeansInactive, TypeOK, StateFacts
    <2>5. StateInv'
      BY <1>1, <1>2, <2>2, <2>3, Zenon DEF IInv, StateInv, OperationOwnsState, NeedsRecovery, StateFacts
    <2>6. LeaseInv'
      BY <1>1, <1>2, <2>2, <2>3 DEF IInv, LeaseInv, StateFacts, GateInv, HoldsGate
    <2>7. OperationOwnsState' /\ AdmittedMeansInactive' /\ RestoreLeavesMarker'
      BY <1>1, <1>2, <2>2, <2>3 DEF IInv, GateInv, HoldsGate, StateInv, LeaseInv, ReleaseInv, NeedsRecovery,
             OperationOwnsState, AdmittedMeansInactive, RestoreLeavesMarker, StateFacts
    <2> QED BY <2>4, <2>5, <2>6, <2>7, Zenon
  <1>11. CASE RetainSaved(l)
    <2>1. /\ lease'[l] = [lease[l] EXCEPT !.pc = "done"]
          /\ \A m \in Leases \ {l} : lease'[m] = lease[m]
      BY <1>1, <1>11, LeaseEffect, Zenon DEF RetainSaved
    <2>2. /\ lease'[l].pc = "done"
          /\ lease'[l].operation = lease[l].operation /\ lease'[l].releasePending = lease[l].releasePending
          /\ lease'[l].closeCalls = lease[l].closeCalls
          /\ \A m \in Leases \ {l} : lease'[m] = lease[m]
      BY <1>1, <2>1, Zenon DEF ExclusiveLease, NewLease
    <2>3. /\ lease[l].pc = "retaining" /\ store' \in {store, MarkedForRecovery(Own(l))}
          /\ UNCHANGED <<writer, state, pendingRelease, releasing, request>>
      BY <1>11, Zenon DEF RetainSaved
    <2>4. GateInv' /\ ReleaseInv' /\ CloseInv'
      BY <1>1, <1>2, <2>2, <2>3 DEF IInv, GateInv, HoldsGate, ReleaseInv, CloseInv, LeaseInv,
                                      AdmittedMeansInactive, TypeOK, StateFacts
    <2>5. StateInv'
      BY <1>1, <1>2, <2>2, <2>3, Zenon DEF IInv, StateInv, LeaseInv, NeedsRecovery, StateFacts
    <2>6. LeaseInv'
      BY <1>1, <1>2, <2>2, <2>3 DEF IInv, LeaseInv, StateFacts, AdmittedMeansInactive
    <2>7. OperationOwnsState' /\ AdmittedMeansInactive' /\ RestoreLeavesMarker'
      BY <1>1, <1>2, <2>2, <2>3 DEF IInv, GateInv, HoldsGate, StateInv, LeaseInv, ReleaseInv, NeedsRecovery,
             OperationOwnsState, AdmittedMeansInactive, RestoreLeavesMarker, StateFacts
    <2> QED BY <2>4, <2>5, <2>6, <2>7, Zenon
  <1>12. CASE InstallReplacement(l) \/ ReinstateOriginal(l) \/ Handoff(l)
    <2>1. /\ lease[l].pc = "active" /\ ~lease[l].releasePending /\ lease[l].operation = Restore
          /\ state.active
          /\ store' \in {Own(l), MarkedForRecovery(Own(l))}
          /\ UNCHANGED <<writer, state, pendingRelease, releasing, request, lease>>
      BY <1>1, <1>12, Zenon DEF InstallReplacement, ReinstateOriginal, Handoff, Restoring, IInv, OperationOwnsState,
                         StateFacts
    <2>2. GateInv' /\ ReleaseInv' /\ CloseInv'
      BY <1>1, <1>2, <2>1, Zenon DEF IInv, GateInv, HoldsGate, ReleaseInv, CloseInv, Own
    <2>3. StateInv' /\ LeaseInv'
      BY <1>1, <2>1, ZenonT(40) DEF IInv, StateInv, LeaseInv, OperationOwnsState, AdmittedMeansInactive,
                        NeedsRecovery, StateFacts
    <2>4. OperationOwnsState' /\ AdmittedMeansInactive' /\ RestoreLeavesMarker'
      BY <1>1, <2>1 DEF IInv, GateInv, HoldsGate, OperationOwnsState, AdmittedMeansInactive,
                        RestoreLeavesMarker, NeedsRecovery, StateFacts
    <2> QED BY <2>2, <2>3, <2>4, Zenon
  <1>13. CASE RecoverExclusive(l)
    <2>1. lease[l].pc = "recover" /\ UNCHANGED <<state, store>>
      BY <1>13, Zenon DEF RecoverExclusive
    <2>2. \/ /\ releasing.by = Nobody
             /\ pendingRelease' \in {EmptyState, pendingRelease}
             /\ lease'[l].pc = "check"
             /\ lease'[l].operation = lease[l].operation
             /\ lease'[l].releasePending = lease[l].releasePending
             /\ \A m \in Leases \ {l} : lease'[m] = lease[m]
             /\ UNCHANGED <<writer, request, releasing>>
          \/ /\ releasing.by = Nobody
             /\ pendingRelease # EmptyState
             /\ state.active
             /\ state = pendingRelease
             /\ releasing' = [by |-> l, expected |-> pendingRelease, step |-> "save"]
             /\ UNCHANGED <<writer, pendingRelease, request, lease>>
      <3>1. CASE pendingRelease = EmptyState
        <4>1. lease'[l] = [lease[l] EXCEPT !.pc = "check"] /\ \A m \in Leases \ {l} : lease'[m] = lease[m]
          BY <1>1, <1>13, <3>1, LeaseEffect, Zenon DEF RecoverExclusive
        <4>2. /\ lease'[l].pc = "check"
              /\ lease'[l].operation = lease[l].operation
              /\ lease'[l].releasePending = lease[l].releasePending
          BY <1>1, <4>1, Zenon DEF ExclusiveLease
        <4> QED BY <1>13, <3>1, <4>1, <4>2, Zenon DEF RecoverExclusive
      <3>2. CASE pendingRelease # EmptyState
        BY <1>1, <1>13, <2>1, <3>2, RecoverEffect, Zenon DEF RecoverExclusive, ReleaseLocked, KeepReleasing
      <3> QED BY <3>1, <3>2, Zenon
    <2>3. GateInv' /\ ReleaseInv' /\ CloseInv'
      BY <1>1, <1>2, <2>1, <2>2 DEF IInv, GateInv, HoldsGate, ReleaseInv, CloseInv, StateInv, TypeOK
    <2>4. StateInv' /\ LeaseInv'
      BY <1>1, <2>1, <2>2 DEF IInv, StateInv, LeaseInv, StateFacts
    <2>5. OperationOwnsState' /\ AdmittedMeansInactive' /\ RestoreLeavesMarker'
      BY <1>1, <2>1, <2>2, ZenonT(40) DEF IInv, ReleaseInv, OperationOwnsState, AdmittedMeansInactive,
                              RestoreLeavesMarker, StateFacts
    <2> QED BY <2>3, <2>4, <2>5, Zenon
  <1>14. CASE CloseActivated(l)
    <2>1. /\ lease[l].pc = "active" /\ lease[l].closeCalls < CloseCalls
          /\ releasing.by = Nobody
          /\ UNCHANGED <<state, store>>
      BY <1>14, Zenon DEF CloseActivated, ReleaseLocked
    <2>2. \/ /\ ~state.active
             /\ pendingRelease' = EmptyState
             /\ AfterRelease(l, TRUE)
             /\ UNCHANGED releasing
          \/ /\ state.active
             /\ state # Own(l)
             /\ pendingRelease' \in {EmptyState, pendingRelease}
             /\ AfterRelease(l, FALSE)
             /\ UNCHANGED releasing
          \/ /\ state.active
             /\ state = Own(l)
             /\ KeepReleasing(l, Own(l))
      BY <1>14, Zenon DEF CloseActivated, ReleaseLocked
    <2>3. CASE ~state.active /\ pendingRelease' = EmptyState /\ AfterRelease(l, TRUE) /\ UNCHANGED releasing
      <3>1. /\ lease'[l].pc = "done"
            /\ \A m \in Leases \ {l} : lease'[m] = lease[m]
            /\ writer' = IF writer = l THEN Nobody ELSE writer
            /\ request' = request
        BY <1>1, <2>1, <2>3, CloseEffect, Zenon
      <3>2. GateInv' /\ ReleaseInv' /\ CloseInv'
        BY <1>1, <1>2, <2>1, <2>3, <3>1, ZenonT(40) DEF IInv, GateInv, HoldsGate, ReleaseInv, CloseInv, StateFacts
      <3>3. StateInv' /\ LeaseInv'
        BY <1>1, <2>1, <2>3, <3>1 DEF IInv, StateInv, LeaseInv, StateFacts
      <3>4. OperationOwnsState' /\ AdmittedMeansInactive' /\ RestoreLeavesMarker'
        BY <1>1, <2>1, <2>3, <3>1, Zenon DEF IInv, OperationOwnsState, AdmittedMeansInactive, RestoreLeavesMarker,
                                      StateFacts
      <3> QED BY <3>2, <3>3, <3>4, Zenon
    <2>4. CASE /\ state.active /\ state # Own(l) /\ pendingRelease' \in {EmptyState, pendingRelease}
               /\ AfterRelease(l, FALSE) /\ UNCHANGED releasing
      <3>1. /\ lease'[l].pc = "active" /\ lease'[l].releasePending = TRUE
            /\ lease'[l].operation = lease[l].operation
            /\ \A m \in Leases \ {l} : lease'[m] = lease[m]
            /\ writer' = IF writer = l THEN Nobody ELSE writer
            /\ request' = request
        BY <1>1, <2>1, <2>4, CloseEffect, Zenon
      <3>2. writer # l /\ writer' = writer
        BY <2>1, <2>4, <3>1, Zenon DEF IInv, GateInv, HoldsGate, LeaseInv
      <3>3. GateInv' /\ ReleaseInv' /\ CloseInv'
        BY <1>1, <1>2, <2>1, <2>4, <3>1, <3>2, ZenonT(40) DEF IInv, GateInv, HoldsGate, ReleaseInv, CloseInv, StateFacts
      <3>4. StateInv'
        BY <1>1, <2>1, <2>4, Zenon DEF IInv, StateInv, StateFacts
      <3>5. LeaseInv'
        <4>1. \A m \in Leases \ {l} : Own(m)' = Own(m)
          BY <3>1, Zenon DEF Own
        <4> QED BY <2>1, <3>1, <4>1, ZenonT(40) DEF IInv, LeaseInv
      <3>6. OperationOwnsState' /\ AdmittedMeansInactive' /\ RestoreLeavesMarker'
        BY <1>1, <2>1, <2>4, <3>1, <3>2, ZenonT(40)
           DEF IInv, OperationOwnsState, AdmittedMeansInactive, RestoreLeavesMarker, StateFacts
      <3> QED BY <3>3, <3>4, <3>5, <3>6, Zenon
    <2>5. CASE state.active /\ state = Own(l) /\ KeepReleasing(l, Own(l))
      <3>1. lease'[l] = [lease[l] EXCEPT !.pc = "closing"] /\ \A m \in Leases \ {l} : lease'[m] = lease[m]
        BY <1>1, <2>1, <2>5, LeaseEffect, Zenon DEF KeepReleasing
      <3>2. /\ lease'[l].pc = "closing"
            /\ lease'[l].operation = lease[l].operation /\ lease'[l].releasePending = lease[l].releasePending
            /\ lease'[l].closeCalls = lease[l].closeCalls
            /\ \A m \in Leases \ {l} : lease'[m] = lease[m]
        BY <1>1, <3>1, Zenon DEF ExclusiveLease
      <3>3. /\ releasing'.by = l /\ releasing'.expected = Own(l) /\ releasing'.step = "save"
            /\ UNCHANGED <<pendingRelease, writer, request>>
        BY <2>5, Zenon DEF KeepReleasing
      <3>4. GateInv' /\ ReleaseInv' /\ CloseInv'
        BY <1>1, <1>2, <2>1, <2>5, <3>2, <3>3
           DEF IInv, GateInv, HoldsGate, ReleaseInv, CloseInv, StateFacts
      <3>5. StateInv' /\ LeaseInv'
        BY <1>1, <2>1, <2>5, <3>2, <3>3 DEF IInv, StateInv, LeaseInv, StateFacts
      <3>6. OperationOwnsState' /\ AdmittedMeansInactive' /\ RestoreLeavesMarker'
        BY <1>1, <2>1, <2>5, <3>2, <3>3, ZenonT(40)
           DEF IInv, ReleaseInv, OperationOwnsState, AdmittedMeansInactive, RestoreLeavesMarker, StateFacts
      <3> QED BY <3>4, <3>5, <3>6, Zenon
    <2> QED BY <2>2, <2>3, <2>4, <2>5, Zenon
  <1> QED BY <1>4, <1>5, <1>6, <1>7, <1>8, <1>9, <1>10, <1>11, <1>12, <1>13, <1>14, Zenon DEF LeaseStep, IInv, DownInv

-------------------------------------------------------------------------------
(* Theorems *)

\* The inductive invariant holds in every reachable state.
LEMMA Invariance == Spec => []IInv
  <1>1. Init => IInv
    <2>1. ASSUME Init PROVE TypeOK
      BY <2>1, StatesAreTyped, Zenon DEF Init, TypeOK
    <2>2. /\ EmptyState.active = FALSE /\ EmptyState.recovery = FALSE
          /\ NotReleasing.by = Nobody /\ NotReleasing.step = "none"
          /\ NewLease.pc = "new"
      BY Zenon DEF EmptyState, NotReleasing, NewLease
    <2>3. ASSUME Init PROVE GateInv /\ StateInv /\ LeaseInv /\ ReleaseInv /\ CloseInv /\ DownInv
      BY <2>2, <2>3, CallersAssumption, Zenon
         DEF Init, GateInv, HoldsGate, StateInv, LeaseInv, ReleaseInv, CloseInv, DownInv
    <2>4. ASSUME Init PROVE OperationOwnsState /\ AdmittedMeansInactive /\ RestoreLeavesMarker
      BY <2>2, <2>4, Zenon DEF Init, OperationOwnsState, AdmittedMeansInactive, RestoreLeavesMarker
    <2> QED BY <2>1, <2>3, <2>4, Zenon DEF IInv
  <1>2. IInv /\ [Next]_vars => IInv'
    <2> SUFFICES ASSUME IInv, [Next]_vars PROVE IInv'
      BY Zenon
    <2>1. TypeOK'
      BY TypePreserved, Zenon
    <2>2. CASE Next
      BY <2>1, <2>2, ProcessPreserves, ReleasePreserves, SharedPreserves, LeasePreserves, Zenon DEF Next
    <2>3. CASE UNCHANGED vars
      BY <2>1, <2>3, ZenonT(40) DEF vars, IInv, GateInv, HoldsGate, StateInv, LeaseInv, ReleaseInv, CloseInv, DownInv,
                        OperationOwnsState, AdmittedMeansInactive, RestoreLeavesMarker, Own
    <2> QED BY <2>2, <2>3, Zenon
  <1> QED BY <1>1, <1>2, PTL DEF Spec

\* Every variable of the coordinator keeps its type; in particular Close is
\* called no more often than its callers call it.
THEOREM TypeCorrect == Spec => []TypeOK
  BY Invariance, PTL DEF IInv

\* For any number of requests and leases: a running export or restore holds the
\* gate and owns the published and the stored state, whatever pending releases
\* and second Close calls of other leases do meanwhile.
THEOREM OperationOwnsStateAlways == Spec => []OperationOwnsState
  BY Invariance, PTL DEF IInv

\* For any number of requests and leases: while the published state is active,
\* no shared lease is held and no exclusive lease waits to activate.
THEOREM AdmissionIsExclusive == Spec => []AdmittedMeansInactive
  BY Invariance, PTL DEF IInv

\* For any number of requests and leases: at every moment of a published
\* restore, the database file in place makes the next start latch.
THEOREM InterruptedRestoreLatches == Spec => []RestoreLeavesMarker
  BY Invariance, PTL DEF IInv

\* No step of the process, crash and start included, takes a recovery latch back.
THEOREM LatchIsPermanent == Spec => LatchSticks
  <1> DEFINE Sticks ==
        /\ up /\ state.recovery => IF up' THEN state'.recovery ELSE NeedsRecovery(store')
        /\ ~up /\ NeedsRecovery(store) => NeedsRecovery(store') /\ (up' => state'.recovery)
  <1>1. IInv /\ [Next]_vars => [Sticks]_vars
    <2> SUFFICES ASSUME IInv, Next PROVE Sticks
      BY Zenon
    <2>1. TypeOK /\ StateFacts
      BY StateFactsHold, Zenon DEF IInv
    <2>2. CASE ~up
      <3>1. releasing.step = "none" /\ (\A r \in Requests : request[r] = "idle")
            /\ \A l \in Leases : lease[l].pc = "new"
        BY <2>2 DEF IInv, DownInv, NotReleasing, NewLease
      <3>2. Initialize
        BY <2>2, <3>1, Zenon
           DEF Next, Crash, ReleaseStep, ReleaseSaved, ReleaseSaveFailed, ReleasePublished,
               SharedStep, TryShared, TryProbe, RecoverShared, CheckShared, CloseShared,
               LeaseStep, TryExclusive, RecoverExclusive, CheckExclusive, Activate, PublishActivation,
               CloseUnactivated, CloseActivated, PrepareReplacement, InstallReplacement, ReinstateOriginal,
               Handoff, RetainForRecovery, RetainSaved, Restoring
      <3>3. MarkedForRecovery(store).recovery
        BY <2>1, Zenon DEF TypeOK, State, MarkedForRecovery
      <3> QED BY <2>2, <3>2, <3>3, Zenon DEF Initialize
    <2>3. CASE up /\ state.recovery
      <3>1. /\ state.active /\ NeedsRecovery(store)
            /\ releasing.step = "none"
            /\ \A l \in Leases : lease[l].pc # "activating"
        BY <2>3, Zenon DEF IInv, StateInv, ReleaseInv, AdmittedMeansInactive
      <3>2. CASE Initialize
        BY <2>3, <3>2, Zenon DEF Initialize
      <3>3. CASE Crash
        BY <2>3, <3>1, <3>3, Zenon DEF Crash
      <3>4. CASE ReleaseStep
        BY <3>1, <3>4, Zenon DEF ReleaseStep, ReleaseSaved, ReleaseSaveFailed, ReleasePublished
      <3>5. ASSUME NEW r \in Requests, SharedStep(r) PROVE Sticks
        BY <2>3, <3>5, Zenon DEF SharedStep, TryShared, TryProbe, RecoverShared, CheckShared, CloseShared
      <3>6. ASSUME NEW l \in Leases, LeaseStep(l) PROVE Sticks
        BY <2>1, <2>3, <3>1, <3>6, Zenon
           DEF LeaseStep, TryExclusive, RecoverExclusive, CheckExclusive, Activate, PublishActivation,
               CloseUnactivated, CloseActivated, PrepareReplacement, InstallReplacement, ReinstateOriginal,
               Handoff, RetainForRecovery, RetainSaved, StateFacts
      <3> QED BY <3>2, <3>3, <3>4, <3>5, <3>6, Zenon DEF Next
    <2> QED BY <2>2, <2>3, Zenon
  <1> QED BY <1>1, Invariance, PTL DEF Spec, LatchSticks
===============================================================================
