------------------------ MODULE MaintenanceCoordinator ------------------------
(***************************************************************************)
(* The Maintenance Coordinator (internal/maintenance/coordinator.go and    *)
(* persistence.go): an RWMutex gate, the maintenance state it publishes in *)
(* memory, the copy of that state in the settings table, and the pending   *)
(* release that is left behind when the copy cannot be cleared.            *)
(*                                                                         *)
(* Requests take shared leases (HTTP handlers, schedulers, audit writers,  *)
(* health probes).  Each member of Leases is one exclusive lease: a backup *)
(* export or a backup restore.  A lease is one Go object and is used once  *)
(* per process lifetime.  Its StartedAt and JobID make the State it        *)
(* publishes different from every other lease's, so the lease itself is    *)
(* the identity of that State here.                                        *)
(***************************************************************************)
EXTENDS Naturals

CONSTANTS Requests,  \* callers of TryShared and TryProbe
          Leases,    \* exclusive leases
          Nobody     \* no lease, no caller

\* Callers are told apart from each other and from nobody.
ASSUME CallersAssumption ==
    /\ Nobody \notin Requests \cup Leases
    /\ Requests \cap Leases = {}

VARIABLES
    up,              \* the process runs and has initialised the coordinator
    writer,          \* gate: the lease that holds it for writing, or Nobody
    readers,         \* gate: the requests that hold it for reading
    state,           \* Coordinator.state
    store,           \* the State in the settings table of the database file
    pendingRelease,  \* Coordinator.pendingRelease; EmptyState stands for nil
    releasing,       \* the caller inside releaseMu, and how far it is
    request,         \* control state of each request
    lease            \* the ExclusiveLease objects and the control state of their owners

vars == <<up, writer, readers, state, store, pendingRelease, releasing, request, lease>>

-------------------------------------------------------------------------------
(* Data *)

Export  == "backup_export"
Restore == "backup_restore"
Kinds   == {Export, Restore}

State == [active: BOOLEAN, recovery: BOOLEAN, kind: Kinds \cup {"none"}, owner: Leases \cup {Nobody}]

\* The zero State{}.
EmptyState == [active |-> FALSE, recovery |-> FALSE, kind |-> "none", owner |-> Nobody]

\* The State that Activate builds for lease l.
ActiveState(l, kind) == [active |-> TRUE, recovery |-> FALSE, kind |-> kind, owner |-> l]

\* The same State as RetainForRecovery and PrepareReplacement mark it.
MarkedForRecovery(s) == [s EXCEPT !.recovery = TRUE]

\* What Initialize takes for an interrupted operation that an operator must finish.
NeedsRecovery(s) == s.active /\ (s.recovery \/ s.kind = Restore)

\* The deferred Close of the lifecycle (or of the backup scheduler) and the
\* deferred Close of the middleware that took the lease.
CloseCalls == 2

ExclusiveLease ==
    [pc: {"new", "recover", "check", "open", "activating", "active", "closing", "retaining", "done"},
     operation: Kinds, activated: BOOLEAN, releasePending: BOOLEAN, closed: BOOLEAN,
     prepared: BOOLEAN, closeCalls: 0 .. CloseCalls]

NewLease == [pc |-> "new", operation |-> Export, activated |-> FALSE, releasePending |-> FALSE,
             closed |-> FALSE, prepared |-> FALSE, closeCalls |-> 0]

Release ==
    [by: Requests \cup Leases \cup {Nobody}, expected: State, step: {"none", "save", "publish"}]

NotReleasing == [by |-> Nobody, expected |-> EmptyState, step |-> "none"]

Own(l) == ActiveState(l, lease[l].operation)

SetLease(l, rec) == lease' = [lease EXCEPT ![l] = rec]
SetRequest(r, pc) == request' = [request EXCEPT ![r] = pc]

\* Published and durable state, the gate, the requests and the leases keep
\* their types, whatever the order of activations, closes and releases.
TypeOK ==
    /\ up \in BOOLEAN
    /\ writer \in Leases \cup {Nobody}
    /\ readers \in SUBSET Requests
    /\ state \in State
    /\ store \in State
    /\ pendingRelease \in State
    /\ releasing \in Release
    /\ request \in [Requests -> {"idle", "recover", "check", "held"}]
    /\ lease \in [Leases -> ExclusiveLease]

Init ==
    /\ up = FALSE
    /\ writer = Nobody
    /\ readers = {}
    /\ state = EmptyState
    /\ store = EmptyState
    /\ pendingRelease = EmptyState
    /\ releasing = NotReleasing
    /\ request = [r \in Requests |-> "idle"]
    /\ lease = [l \in Leases |-> NewLease]

-------------------------------------------------------------------------------
(* Start and crash *)

\* Mutant: a start that trusts the recovery flag alone.
InitializeByFlagOnly ==
    /\ ~up
    /\ up' = TRUE
    /\ IF store.active /\ store.recovery
       THEN state' = store /\ UNCHANGED store
       ELSE state' = EmptyState /\ store' = EmptyState
    /\ UNCHANGED <<writer, readers, pendingRelease, releasing, request, lease>>

\* Initialize.  A failed Load, or a failed Save of the cleared state, stops the
\* start and leaves everything as it was.
Initialize ==
    /\ ~up
    /\ up' = TRUE
    /\ IF NeedsRecovery(store)
       THEN state' = MarkedForRecovery(store) /\ UNCHANGED store
       ELSE state' = EmptyState /\ store' = EmptyState
    /\ UNCHANGED <<writer, readers, pendingRelease, releasing, request, lease>>

\* The process ends at any point: only the database file survives.
Crash ==
    /\ up
    /\ up' = FALSE
    /\ writer' = Nobody
    /\ readers' = {}
    /\ state' = EmptyState
    /\ pendingRelease' = EmptyState
    /\ releasing' = NotReleasing
    /\ request' = [r \in Requests |-> "idle"]
    /\ lease' = [l \in Leases |-> NewLease]
    /\ UNCHANGED store

-------------------------------------------------------------------------------
(* releaseMu: releaseLocked, in the steps at which others can interleave *)

\* What a caller goes on with when its part under releaseMu is over: a recovering
\* caller ignores the error, Close records it and unlocks the gate in both cases.
AfterRelease(p, ok) ==
    \/ /\ p \in Requests
       /\ SetRequest(p, "check")
       /\ UNCHANGED <<writer, lease>>
    \/ /\ p \in Leases
       /\ lease[p].pc = "recover"
       /\ SetLease(p, [lease[p] EXCEPT !.pc = "check"])
       /\ UNCHANGED <<writer, request>>
    \/ /\ p \in Leases
       /\ lease[p].pc \in {"active", "closing"}
       /\ SetLease(p, [lease[p] EXCEPT !.pc = IF ok THEN "done" ELSE "active",
                                       !.closed = ok,
                                       !.releasePending = ~ok,
                                       !.closeCalls = @ + 1])
       /\ writer' = IF writer = p THEN Nobody ELSE writer
       /\ UNCHANGED request

\* A caller that goes on to save the cleared state keeps releaseMu.
KeepReleasing(p, expected) ==
    /\ releasing' = [by |-> p, expected |-> expected, step |-> "save"]
    /\ IF p \in Leases /\ lease[p].pc = "active"
       THEN SetLease(p, [lease[p] EXCEPT !.pc = "closing"])
       ELSE UNCHANGED lease
    /\ UNCHANGED <<pendingRelease, writer, request>>

\* Mutant: a release that does not compare the published state with its own.
ReleaseWhateverIsActive(p, expected) ==
    /\ releasing.by = Nobody
    /\ \/ /\ ~state.active
          /\ pendingRelease' = EmptyState
          /\ AfterRelease(p, TRUE)
          /\ UNCHANGED releasing
       \/ /\ state.active
          /\ KeepReleasing(p, expected)

\* releaseLocked up to its first Save: only the owner of the published state
\* may clear it.
ReleaseLocked(p, expected) ==
    /\ releasing.by = Nobody
    /\ \/ /\ ~state.active
          /\ pendingRelease' = EmptyState
          /\ AfterRelease(p, TRUE)
          /\ UNCHANGED releasing
       \/ /\ state.active
          /\ state # expected
          /\ pendingRelease' = IF pendingRelease = expected THEN EmptyState ELSE pendingRelease
          /\ AfterRelease(p, FALSE)
          /\ UNCHANGED releasing
       \/ /\ state.active
          /\ state = expected
          /\ KeepReleasing(p, expected)

\* One of the five attempts to save State{} succeeds.
ReleaseSaved ==
    /\ releasing.step = "save"
    /\ store' = EmptyState
    /\ releasing' = [releasing EXCEPT !.step = "publish"]
    /\ UNCHANGED <<up, writer, readers, state, pendingRelease, request, lease>>

\* All five attempts fail: the release stays pending.
ReleaseSaveFailed ==
    /\ releasing.step = "save"
    /\ pendingRelease' = releasing.expected
    /\ releasing' = NotReleasing
    /\ AfterRelease(releasing.by, FALSE)
    /\ UNCHANGED <<up, readers, state, store>>

ReleasePublished ==
    /\ releasing.step = "publish"
    /\ state' = EmptyState
    /\ pendingRelease' = EmptyState
    /\ releasing' = NotReleasing
    /\ AfterRelease(releasing.by, TRUE)
    /\ UNCHANGED <<up, readers, store>>

-------------------------------------------------------------------------------
(* Shared leases and probes *)

\* TryShared, TryRLock succeeded.  A failed TryRLock changes nothing.
TryShared(r) ==
    /\ up
    /\ request[r] = "idle"
    /\ writer = Nobody
    /\ readers' = readers \cup {r}
    /\ SetRequest(r, "recover")
    /\ UNCHANGED <<up, writer, state, store, pendingRelease, releasing, lease>>

\* TryProbe does not retry a pending release.
TryProbe(r) ==
    /\ up
    /\ request[r] = "idle"
    /\ writer = Nobody
    /\ readers' = readers \cup {r}
    /\ SetRequest(r, "check")
    /\ UNCHANGED <<up, writer, state, store, pendingRelease, releasing, lease>>

\* Mutant: an admission that leaves a pending release to somebody else.
SkipRecovery(r) ==
    /\ request[r] = "recover"
    /\ SetRequest(r, "check")
    /\ UNCHANGED <<up, writer, readers, state, store, pendingRelease, releasing, lease>>

\* recoverPendingRelease of a request that holds the gate for reading.
RecoverShared(r) ==
    /\ request[r] = "recover"
    /\ \/ /\ releasing.by = Nobody
          /\ pendingRelease = EmptyState
          /\ SetRequest(r, "check")
          /\ UNCHANGED <<writer, pendingRelease, releasing, lease>>
       \/ /\ pendingRelease # EmptyState
          /\ ReleaseLocked(r, pendingRelease)
    /\ UNCHANGED <<up, readers, state, store>>

\* Mutant: the gate alone decides.
AdmitByGate(r) ==
    /\ request[r] = "check"
    /\ SetRequest(r, "held")
    /\ UNCHANGED <<up, writer, readers, state, store, pendingRelease, releasing, lease>>

\* The check of the published state: admitted, or refused and unlocked.
CheckShared(r) ==
    /\ request[r] = "check"
    /\ IF state.active
       THEN SetRequest(r, "idle") /\ readers' = readers \ {r}
       ELSE SetRequest(r, "held") /\ UNCHANGED readers
    /\ UNCHANGED <<up, writer, state, store, pendingRelease, releasing, lease>>

\* SharedLease.Close.
CloseShared(r) ==
    /\ request[r] = "held"
    /\ SetRequest(r, "idle")
    /\ readers' = readers \ {r}
    /\ UNCHANGED <<up, writer, state, store, pendingRelease, releasing, lease>>

-------------------------------------------------------------------------------
(* Exclusive leases *)

TryExclusive(l, kind) ==
    /\ up
    /\ lease[l].pc = "new"
    /\ writer = Nobody
    /\ readers = {}
    /\ writer' = l
    /\ SetLease(l, [NewLease EXCEPT !.pc = "recover", !.operation = kind])
    /\ UNCHANGED <<up, readers, state, store, pendingRelease, releasing, request>>

RecoverExclusive(l) ==
    /\ lease[l].pc = "recover"
    /\ \/ /\ releasing.by = Nobody
          /\ pendingRelease = EmptyState
          /\ SetLease(l, [lease[l] EXCEPT !.pc = "check"])
          /\ UNCHANGED <<writer, pendingRelease, releasing, request>>
       \/ /\ pendingRelease # EmptyState
          /\ ReleaseLocked(l, pendingRelease)
    /\ UNCHANGED <<up, readers, state, store>>

CheckExclusive(l) ==
    /\ lease[l].pc = "check"
    /\ IF state.active
       THEN SetLease(l, [lease[l] EXCEPT !.pc = "done"]) /\ writer' = Nobody
       ELSE SetLease(l, [lease[l] EXCEPT !.pc = "open"]) /\ UNCHANGED writer
    /\ UNCHANGED <<up, readers, state, store, pendingRelease, releasing, request>>

\* Activate saves the state before it publishes it.  After a failed Save the
\* lease stays open and unactivated.
Activate(l) ==
    /\ lease[l].pc = "open"
    /\ store' = Own(l)
    /\ SetLease(l, [lease[l] EXCEPT !.pc = "activating"])
    /\ UNCHANGED <<up, writer, readers, state, pendingRelease, releasing, request>>

PublishActivation(l) ==
    /\ lease[l].pc = "activating"
    /\ state' = Own(l)
    /\ SetLease(l, [lease[l] EXCEPT !.pc = "active", !.activated = TRUE])
    /\ UNCHANGED <<up, writer, readers, store, pendingRelease, releasing, request>>

\* Close of a lease that was never activated.
CloseUnactivated(l) ==
    /\ lease[l].pc = "open"
    /\ ~lease[l].activated
    /\ SetLease(l, [lease[l] EXCEPT !.pc = "done", !.closed = TRUE])
    /\ writer' = Nobody
    /\ UNCHANGED <<up, readers, state, store, pendingRelease, releasing, request>>

\* Close of an activated lease, and its repetition after a failure, when the
\* gate has been unlocked and other callers may be at work.
CloseActivated(l) ==
    /\ lease[l].pc = "active"
    /\ ~lease[l].closed
    /\ lease[l].closeCalls < CloseCalls
    /\ ReleaseLocked(l, Own(l))
    /\ UNCHANGED <<up, readers, state, store>>

-------------------------------------------------------------------------------
(* The lease operations of a restore, which replaces the database file *)

\* The restore is at work: activated and not yet closing.
Restoring(l) ==
    /\ lease[l].pc = "active"
    /\ lease[l].operation = Restore
    /\ lease[l].activated
    /\ ~lease[l].closed
    /\ ~lease[l].releasePending

\* The marker is written into the replacement, which is not in place yet.
PrepareReplacement(l) ==
    /\ Restoring(l)
    /\ SetLease(l, [lease[l] EXCEPT !.prepared = TRUE])
    /\ UNCHANGED <<up, writer, readers, state, store, pendingRelease, releasing, request>>

\* Mutant: the replacement comes without the marker.
InstallUnstamped(l) ==
    /\ Restoring(l)
    /\ lease[l].prepared
    /\ store' = EmptyState
    /\ UNCHANGED <<up, writer, readers, state, pendingRelease, releasing, request, lease>>

\* The prepared file is renamed over the database.
InstallReplacement(l) ==
    /\ Restoring(l)
    /\ lease[l].prepared
    /\ store' = MarkedForRecovery(Own(l))
    /\ UNCHANGED <<up, writer, readers, state, pendingRelease, releasing, request, lease>>

\* The snapshot of the original database, copied after activation, is put back.
ReinstateOriginal(l) ==
    /\ Restoring(l)
    /\ lease[l].prepared
    /\ store' = Own(l)
    /\ UNCHANGED <<up, writer, readers, state, pendingRelease, releasing, request, lease>>

\* Handoff saves the published state into whichever file is in place.
Handoff(l) ==
    /\ Restoring(l)
    /\ state.active
    /\ store' = state
    /\ UNCHANGED <<up, writer, readers, state, pendingRelease, releasing, request, lease>>

\* RetainForRecovery publishes the latch and unlocks the gate, then saves.
RetainForRecovery(l) ==
    /\ Restoring(l)
    /\ lease[l].prepared
    /\ state' = MarkedForRecovery(Own(l))
    /\ SetLease(l, [lease[l] EXCEPT !.pc = "retaining", !.closed = TRUE])
    /\ writer' = Nobody
    /\ UNCHANGED <<up, readers, store, pendingRelease, releasing, request>>

\* The Save of RetainForRecovery, which may fail: the database may be closed.
RetainSaved(l) ==
    /\ lease[l].pc = "retaining"
    /\ store' \in {store, MarkedForRecovery(Own(l))}
    /\ SetLease(l, [lease[l] EXCEPT !.pc = "done"])
    /\ UNCHANGED <<up, writer, readers, state, pendingRelease, releasing, request>>

-------------------------------------------------------------------------------

SharedStep(r) ==
    \/ TryShared(r) \/ TryProbe(r) \/ RecoverShared(r) \/ CheckShared(r) \/ CloseShared(r)

LeaseStep(l) ==
    \/ \E kind \in Kinds : TryExclusive(l, kind)
    \/ RecoverExclusive(l) \/ CheckExclusive(l)
    \/ Activate(l) \/ PublishActivation(l)
    \/ CloseUnactivated(l) \/ CloseActivated(l)
    \/ PrepareReplacement(l) \/ InstallReplacement(l) \/ ReinstateOriginal(l)
    \/ Handoff(l) \/ RetainForRecovery(l) \/ RetainSaved(l)

ReleaseStep == ReleaseSaved \/ ReleaseSaveFailed \/ ReleasePublished

Next ==
    \/ Initialize
    \/ Crash
    \/ ReleaseStep
    \/ \E r \in Requests : SharedStep(r)
    \/ \E l \in Leases : LeaseStep(l)

Spec == Init /\ [][Next]_vars

\* The callers run their code to the end once they have started it (goroutines
\* are scheduled); the periodic schedulers keep calling TryShared; and a save
\* that is tried again and again is in the end accepted by the database.
\* Nothing is assumed of crashes, of exclusive operations being started or of
\* probes.
Fairness ==
    /\ WF_vars(Initialize)
    /\ SF_vars(ReleaseSaved)
    /\ WF_vars(ReleasePublished)
    /\ \A r \in Requests :
          /\ SF_vars(TryShared(r))
          /\ SF_vars(RecoverShared(r))
          /\ WF_vars(CheckShared(r))
          /\ WF_vars(CloseShared(r))
    /\ \A l \in Leases :
          /\ SF_vars(RecoverExclusive(l))
          /\ WF_vars(CheckExclusive(l))
          /\ WF_vars(PublishActivation(l))
          /\ SF_vars(CloseUnactivated(l))
          /\ SF_vars(CloseActivated(l))

FairSpec == Spec /\ Fairness

-------------------------------------------------------------------------------
(* Properties *)

\* While an export or a restore runs (activated, Close not yet called) it holds
\* the gate, the published state is its own, and so is the state in the database
\* file, plain or marked: neither the pending release of an earlier lease, nor
\* that lease's second Close, which runs without the gate, has cleared it.
OperationOwnsState ==
    \A l \in Leases :
        lease[l].pc = "active" /\ ~lease[l].releasePending =>
            /\ writer = l
            /\ state = Own(l)
            /\ store \in {Own(l), MarkedForRecovery(Own(l))}

\* No shared lease is held, and no exclusive lease is open, while the published
\* state is active, in particular after a failed Close or RetainForRecovery has
\* unlocked the gate and left the state active.
AdmittedMeansInactive ==
    state.active =>
        /\ \A r \in Requests : request[r] # "held"
        /\ \A l \in Leases : lease[l].pc \notin {"open", "activating"}

\* As long as a restore is published, running or retained, the database file in
\* place makes the next start latch, whichever of the original and the
\* replacement it is and whether or not the Save of RetainForRecovery worked;
\* only a release that has saved State{} ends this.
RestoreLeavesMarker ==
    state.active /\ state.kind = Restore /\ releasing.step # "publish" => NeedsRecovery(store)

\* A recovery latch is never cleared by the process: it stays published until
\* the process ends, survives in the database file, and is published again by
\* the next start.
LatchSticks ==
    [][/\ up /\ state.recovery => IF up' THEN state'.recovery ELSE NeedsRecovery(store')
       /\ ~up /\ NeedsRecovery(store) => NeedsRecovery(store') /\ (up' => state'.recovery)]_vars

\* A release that could not be saved does not lock the application out: some
\* later admission clears it.
PendingReleaseClears == (pendingRelease # EmptyState) ~> (pendingRelease = EmptyState)
===============================================================================
