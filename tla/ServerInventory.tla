--------------------------- MODULE ServerInventory ---------------------------
(***************************************************************************)
(* The server inventory and what the database keeps about each server      *)
(* (internal/servers/service.go, import.go, bulk.go, availability.go,      *)
(* internal/health/endpoint.go and repository.go, and the wiring of        *)
(* server_inventory_service.go, server_inventory_bulk.go,                  *)
(* server_scheduler_revision_repository.go and                             *)
(* automatic_host_facts_refresh.go).                                       *)
(*                                                                         *)
(* Servers are keyed by name, and so is every row about them, so a rename, *)
(* a new endpoint, a deletion and a name used again have to carry the rows *)
(* along, cut them off or remove them.  Every server gets a number when it *)
(* is created (id, not in the code): it tells a server from a later one of *)
(* the same name.  An endpoint stands for the machine behind it.           *)
(*                                                                         *)
(* The state lock makes an inventory command one step.  A bulk command     *)
(* holds that lock while it reads the policies and their revision, which   *)
(* do not wait for it, so it takes several.  A refresh of facts and a      *)
(* maintenance job are long: they own the server's status, not the lock.   *)
(***************************************************************************)
EXTENDS Integers, FiniteSets, Functions, FiniteSetsExt, TLC

CONSTANTS
  Names, Endpoints,
  First,        \* what is registered at the start: pairs of name and endpoint
  Drafts,       \* bulk drafts: [names, tag, disabled]
  MaxCommands,  \* inventory commands, policy edits and restores
  MaxJobs,      \* maintenance jobs and refreshes
  MaxFaults,    \* database failures
  MaxTickets    \* bulkTickets: 128 in the code

VARIABLES
  servers,   \* State.servers: name -> server
  status,    \* State.statusMap: name -> [status, running]
  db,        \* the tables
  backup,    \* the database a restore installs
  work,      \* the refresh or the job in progress
  late,      \* completions of scheduled jobs that are not yet audited
  tickets,   \* BulkCommands.tickets
  bulk,      \* the bulk command that holds the locks
  override,  \* the override request between its check and its write
  epoch,     \* identity of the open database handle
  clock,     \* moves when an endpoint changes
  created, commands, jobs, faults

vars == <<servers, status, db, backup, work, late, tickets, bulk, override,
          epoch, clock, created, commands, jobs, faults>>

memory == <<servers, status>>
budget == <<created, commands, jobs, faults>>
aside == <<backup, work, late, tickets, bulk, override, epoch>>

-----------------------------------------------------------------------------
(* Values.                                                                 *)

Empty == [n \in {} |-> 0]
Idle == [status |-> "idle", running |-> FALSE]
NewServer(seq, ep, off) ==
  [id |-> <<seq, ep>>, ep |-> ep, tagged |-> FALSE, disabled |-> off,
   key |-> FALSE, pass |-> ~off]

NoWork == [pc |-> "off"]
NoBulk == [pc |-> "off"]
NoOverride == [pc |-> "off"]

Without(f, n) == Restrict(f, DOMAIN f \ {n})
With(f, n, v) == (n :> v) @@ f
Renamed(f, old, new) == IF old \in DOMAIN f THEN With(Without(f, old), new, f[old]) ELSE f

\* server_facts, server_health_endpoints, server_health_snapshots; the rows
\* of the other tables that the rename and delete hooks cover; the overrides;
\* the jobs whose outcome is unknown; the policies and the scheduler revision.
Fresh(list) ==
           [servers |-> list, facts |-> Empty, ends |-> Empty, snaps |-> {},
            rows |-> Empty, overrides |-> Empty, unknown |-> {}, policy |-> 0, rev |-> 0]

\* One server is registered, by a name and an endpoint of the inventory.
Init ==
  /\ created = 0
  /\ \E n \in First : servers = (n[1] :> NewServer(0, n[2], FALSE))
  /\ status = [n \in DOMAIN servers |-> Idle]
  /\ db = Fresh(servers) /\ backup = db
  /\ work = NoWork /\ late = {} /\ tickets = {} /\ bulk = NoBulk /\ override = NoOverride
  /\ epoch = 0 /\ clock = 0 /\ commands = 0 /\ jobs = 0 /\ faults = 0

-----------------------------------------------------------------------------
(* The lock and the save.                                                  *)

Free == bulk.pc = "off"

Command == Free /\ commands < MaxCommands /\ commands' = commands + 1
Fault == faults < MaxFaults /\ faults' = faults + 1

Busy(n) == n \in DOMAIN status /\ status[n].running

ServerNameExists(n) == n \in DOMAIN servers
ServerEndpointExists(ep, skip) == \E m \in DOMAIN servers \ {skip} : servers[m].ep = ep

\* schedulerServerMatchingStateChanged: name, tags and availability.
MatchingState(list) == [n \in DOMAIN list |-> <<list[n].tagged, list[n].disabled>>]

\* The whole table is written again; the revision moves with what the
\* scheduler matches on.  PruneOverridesForServersTx is part of the hook of
\* every save but the bulk one.
Save(list, rows) ==
  [rows EXCEPT !.servers = list,
               !.rev = @ + IF MatchingState(list) # MatchingState(rows.servers) THEN 1 ELSE 0]

Pruned(list, rows) == [rows EXCEPT !.overrides = Restrict(@, DOMAIN @ \cap DOMAIN list)]

SaveOrRollbackLocked(list, st, rows) ==
  \/ servers' = list /\ status' = st /\ db' = Save(list, Pruned(list, rows)) /\ UNCHANGED faults
  \/ Fault /\ UNCHANGED <<memory, db>>

-----------------------------------------------------------------------------
(* Commands on one server.                                                 *)

Create(n, ep) ==
  /\ Command /\ ~ServerNameExists(n) /\ ~ServerEndpointExists(ep, n)
  /\ created' = created + 1
  /\ SaveOrRollbackLocked(With(servers, n, NewServer(created + 1, ep, FALSE)), With(status, n, Idle), db)
  /\ UNCHANGED <<aside, clock, jobs>>

\* RenameServerFacts and the other rename hooks.  server_name is the key of
\* facts, endpoints and rows: an UPDATE onto a name that has a row fails.
RenameRows(rows, old, new) ==
  [rows EXCEPT !.facts = Renamed(@, old, new), !.ends = Renamed(@, old, new),
               !.rows = Renamed(@, old, new), !.overrides = Renamed(@, old, new),
               !.snaps = {[s EXCEPT !.name = IF @ = old THEN new ELSE @] : s \in @},
               !.unknown = {[j EXCEPT !.name = IF @ = old THEN new ELSE @] : j \in @}]
RenameCollides(old, new) ==
  \E keys \in {DOMAIN db.facts, DOMAIN db.ends, DOMAIN db.rows} : {old, new} \subseteq keys

\* DeleteVulnerabilityObservation and InvalidateEndpointTx: history keeps the
\* endpoint it was taken from, current facts go, and the change is a boundary.
InvalidateEndpoint(rows, n, from, to) ==
  [rows EXCEPT !.facts = Without(@, n),
               !.ends = With(@, n, [ep |-> to, at |-> clock + 1]),
               !.snaps = {[s EXCEPT !.mark = IF s.name = n /\ @ = "" THEN from ELSE @] : s \in @}]

\* A new name and a new endpoint get an idle status, except that an unknown
\* outcome stays on display.
EditedStatus(n) == IF status[n].status = "needs_reconciliation" THEN status[n] ELSE Idle

Update(n, new, ep) ==
  LET next == With(Without(servers, n), new, [servers[n] EXCEPT !.ep = ep])
      moved == IF new # n THEN RenameRows(db, n, new) ELSE db
      rows == IF ep # servers[n].ep THEN InvalidateEndpoint(moved, new, servers[n].ep, ep) ELSE moved
  IN /\ Command /\ n \in DOMAIN servers /\ ~Busy(n)
     /\ new = n \/ ~ServerNameExists(new)
     /\ ~ServerEndpointExists(ep, n)
     /\ <<new, ep>> # <<n, servers[n].ep>>
     /\ clock' = IF ep # servers[n].ep THEN clock + 1 ELSE clock
     /\ IF new # n /\ RenameCollides(n, new)
        THEN UNCHANGED <<memory, db, faults>>
        ELSE SaveOrRollbackLocked(next, With(Without(status, n), new, EditedStatus(n)), rows)
     /\ UNCHANGED <<aside, created, jobs>>

\* DeleteServerFacts and the other delete hooks.  Jobs stay, by name.
DeleteRows(rows, n) ==
  [rows EXCEPT !.facts = Without(@, n), !.ends = Without(@, n), !.rows = Without(@, n),
               !.snaps = {s \in @ : s.name # n}]

\* Mutant: only an unknown outcome keeps the server.
DeleteWhileRunning(n) ==
  /\ Command /\ n \in DOMAIN servers /\ status[n].status # "needs_reconciliation"
  /\ SaveOrRollbackLocked(Without(servers, n), Without(status, n), DeleteRows(db, n))
  /\ UNCHANGED <<aside, clock, created, jobs>>

Delete(n) ==
  /\ Command /\ n \in DOMAIN servers
  /\ ~Busy(n) /\ status[n].status # "needs_reconciliation"
  /\ SaveOrRollbackLocked(Without(servers, n), Without(status, n), DeleteRows(db, n))
  /\ UNCHANGED <<aside, clock, created, jobs>>

SetDisabled(n, off) ==
  /\ Command /\ n \in DOMAIN servers /\ servers[n].disabled # off /\ ~Busy(n)
  /\ SaveOrRollbackLocked([servers EXCEPT ![n].disabled = off], status, db)
  /\ UNCHANGED <<aside, clock, created, jobs>>

ClearPassword(n) ==
  /\ Command /\ n \in DOMAIN servers /\ servers[n].pass /\ ~Busy(n)
  /\ SaveOrRollbackLocked([servers EXCEPT ![n].pass = FALSE], status, db)
  /\ UNCHANGED <<aside, clock, created, jobs>>

\* The key column is updated first, and memory only after it.
SetKey(n) ==
  /\ Command /\ n \in DOMAIN servers /\ ~Busy(n)
  /\ \/ /\ db' = [db EXCEPT !.servers[n].key = ~@]
        /\ servers' = [servers EXCEPT ![n].key = ~@]
        /\ UNCHANGED faults
     \/ Fault /\ UNCHANGED <<servers, db>>
  /\ UNCHANGED <<status, aside, clock, created, jobs>>

\* What a parsed and decoded selection may hold.
Selections == {s \in SUBSET (Names \X Endpoints) : Cardinality(s) = 2}

ValidImportRows(s) ==
  /\ \A e \in s : ~ServerNameExists(e[1]) /\ \A m \in DOMAIN servers : servers[m].ep # e[2]
  /\ \A e, f \in s : e # f => e[1] # f[1] /\ e[2] # f[2]

\* Checked again under the lock and saved before it is published: all rows,
\* disabled, or none.
CommitImport(s) ==
  LET fresh == [n \in {e[1] : e \in s} |-> NewServer(created + 1, (CHOOSE e \in s : e[1] = n)[2], TRUE)]
      next == fresh @@ servers
  IN /\ Command /\ ValidImportRows(s)
     /\ created' = created + 1
     /\ \/ /\ servers' = next
           /\ status' = [n \in DOMAIN fresh |-> Idle] @@ status
           /\ db' = Save(next, Pruned(next, db))
           /\ UNCHANGED faults
        \/ Fault /\ UNCHANGED <<memory, db>>
     /\ UNCHANGED <<aside, clock, jobs>>

-----------------------------------------------------------------------------
(* Bulk commands: a preview and its confirmation.                          *)

\* Policies, overrides, blackouts and the time zone: every write moves the
\* revision, by a trigger, and none waits for the inventory lock.
EditPolicies ==
  /\ commands < MaxCommands /\ commands' = commands + 1
  /\ db' = [db EXCEPT !.policy = commands + 1, !.rev = @ + 1]
  /\ UNCHANGED <<memory, aside, clock, created, jobs, faults>>

Draft(d, s) ==
  [s EXCEPT !.tagged = IF d.tag = "keep" THEN @ ELSE d.tag = "add",
            !.disabled = IF d.disabled = "keep" THEN @ ELSE d.disabled = "yes"]
Edited(d, list) == [n \in DOMAIN list |-> IF n \in d.names THEN Draft(d, list[n]) ELSE list[n]]
CanConfirm(d) == \A n \in d.names : n \in DOMAIN servers /\ ~Busy(n)

\* Preview takes both locks and reads the revision, then projects the
\* schedules before and after (the policies it reads are what it shows).
PreviewRead(d) ==
  /\ Free /\ commands < MaxCommands /\ commands' = commands + 1
  /\ Cardinality(tickets) < MaxTickets
  /\ bulk' = [pc |-> "project", draft |-> d, rev |-> db.rev]
  /\ UNCHANGED <<memory, db, backup, work, late, tickets, override, epoch, clock, created, jobs, faults>>

PreviewProject ==
  /\ bulk.pc = "project"
  /\ bulk' = [bulk EXCEPT !.pc = "issue"] @@ [policy |-> db.policy]
  /\ UNCHANGED <<memory, db, backup, work, late, tickets, override, epoch, clock, budget>>

\* The revision is read again.  shown is what the operator reviews.
PreviewIssue ==
  /\ bulk.pc = "issue"
  /\ bulk' = NoBulk
  /\ tickets' = IF db.rev # bulk.rev THEN tickets
                ELSE tickets \cup {[draft |-> bulk.draft, fingerprint |-> servers, rev |-> bulk.rev, epoch |-> epoch,
                                    shown |-> [servers |-> Edited(bulk.draft, servers), policy |-> bulk.policy]]}
  /\ UNCHANGED <<memory, db, backup, work, late, override, epoch, clock, budget>>

TicketExpires(t) ==
  /\ Free /\ tickets' = tickets \ {t}
  /\ UNCHANGED <<memory, db, backup, work, late, bulk, override, epoch, clock, budget>>

\* Mutant: only the revision is compared.
HoldsByRevision(t) == t.epoch = epoch /\ db.rev = t.rev /\ CanConfirm(t.draft)

\* The ticket is still about this database, these policies and this inventory.
Holds(t) ==
  /\ t.epoch = epoch /\ db.rev = t.rev /\ servers = t.fingerprint /\ CanConfirm(t.draft)

\* A ticket is used up by the attempt.
CommitCheck(t) ==
  /\ Free
  /\ tickets' = tickets \ {t}
  /\ bulk' = IF Holds(t) THEN [pc |-> "save", ticket |-> t] ELSE NoBulk
  /\ UNCHANGED <<memory, db, backup, work, late, override, epoch, clock, budget>>

\* CheckRevision looks at the revision once more inside the transaction.
CommitSave ==
  LET t == bulk.ticket
      next == Edited(t.draft, servers)
  IN /\ bulk.pc = "save"
     /\ bulk' = NoBulk
     /\ \/ db.rev = t.rev /\ db' = Save(next, db) /\ servers' = next /\ UNCHANGED faults
        \/ db.rev # t.rev /\ UNCHANGED <<servers, db, faults>>
        \/ Fault /\ UNCHANGED <<servers, db>>
     /\ UNCHANGED <<status, backup, work, late, tickets, override, epoch, clock, created, commands, jobs>>

-----------------------------------------------------------------------------
(* What is learnt about a server: facts, history, outcomes, other rows.    *)

\* BeginTransientAction and BeginActionWithOptions.
Begin(n, kind) ==
  /\ Free /\ work.pc = "off" /\ jobs < MaxJobs /\ jobs' = jobs + 1
  /\ n \in DOMAIN status /\ ~Busy(n) /\ ~servers[n].disabled
  /\ kind = "job" => status[n].status # "needs_reconciliation"
  /\ work' = [pc |-> kind, name |-> n, server |-> servers[n], was |-> status[n], at |-> clock]
  /\ status' = [status EXCEPT ![n].running = TRUE]
  /\ UNCHANGED <<servers, db, backup, late, tickets, bulk, override, epoch, clock, created, commands, faults>>

\* validateCollectedEndpoint
AcceptsFacts(n, server, at) ==
  n \in DOMAIN db.ends => db.ends[n].ep = server.ep /\ at >= db.ends[n].at

Mark(n) == IF n \in DOMAIN db.ends THEN db.ends[n].ep ELSE ""
Snapshot(n, server) == [name |-> n, id |-> server.id, ep |-> server.ep, mark |-> Mark(n), at |-> clock]

\* AcceptCollectedFacts, one transaction; a failed collection stores nothing.
RefreshAccept ==
  /\ work.pc = "refresh"
  /\ work' = [work EXCEPT !.pc = "restore"]
  /\ \/ /\ AcceptsFacts(work.name, work.server, work.at)
        /\ db' = [db EXCEPT !.facts = With(@, work.name, [id |-> work.server.id, ep |-> work.server.ep]),
                            !.snaps = @ \cup {Snapshot(work.name, work.server)}]
        /\ UNCHANGED faults
     \/ UNCHANGED <<db, faults>>
  /\ UNCHANGED <<memory, backup, late, tickets, bulk, override, epoch, clock, created, commands, jobs>>

RestoreStatusSnapshot ==
  /\ work.pc = "restore" /\ Free
  /\ status' = With(status, work.name, work.was)
  /\ work' = NoWork
  /\ UNCHANGED <<servers, db, backup, late, tickets, bulk, override, epoch, clock, budget>>

\* A job ends well, or with an outcome nobody knows.  The audit event of the
\* scheduled run that started it is written later, by the run's watcher.
JobEnds(unknown) ==
  LET n == work.name
  IN /\ work.pc = "job" /\ Free
     /\ work' = NoWork
     /\ status' = With(status, n, [Idle EXCEPT !.status = IF unknown THEN "needs_reconciliation" ELSE "idle"])
     /\ db' = IF unknown THEN [db EXCEPT !.unknown = @ \cup {[name |-> n, id |-> work.server.id]}] ELSE db
     /\ late' = late \cup {[name |-> n, server |-> work.server]}
     /\ UNCHANGED <<servers, backup, tickets, bulk, override, epoch, clock, budget>>

\* recordHealthSnapshotFromAuditEvent: the row gets the endpoint of today.
AcceptMaintenance(e) ==
  /\ late' = late \ {e}
  /\ db' = [db EXCEPT !.snaps = @ \cup {Snapshot(e.name, e.server)}]
  /\ UNCHANGED <<memory, backup, work, tickets, bulk, override, epoch, clock, budget>>

\* The operator settles the unknown outcome.
Reconcile(n) ==
  /\ Free /\ n \in DOMAIN status /\ status[n].status = "needs_reconciliation" /\ ~Busy(n)
  /\ status' = [status EXCEPT ![n] = Idle]
  /\ db' = [db EXCEPT !.unknown = {j \in @ : j.name # n}]
  /\ UNCHANGED <<servers, aside, clock, budget>>

\* A vulnerability observation or a remediation key of the server is stored
\* under its name by the job that owns it.
Attach(n) ==
  /\ work.pc = "job" /\ work.name = n /\ n \notin DOMAIN db.rows
  /\ db' = [db EXCEPT !.rows = With(@, n, work.server.id)]
  /\ UNCHANGED <<memory, aside, clock, budget>>

\* serverExistsByNameInState, and SetOverride after it, without a lock (a
\* package deferral is created in the same two steps).
OverrideCheck(n) ==
  /\ Free /\ override.pc = "off" /\ n \in DOMAIN servers
  /\ commands < MaxCommands /\ commands' = commands + 1
  /\ override' = [pc |-> "write", name |-> n, id |-> servers[n].id]
  /\ UNCHANGED <<memory, db, backup, work, late, tickets, bulk, epoch, clock, created, jobs, faults>>

SetOverride ==
  /\ override.pc = "write"
  /\ db' = [db EXCEPT !.overrides = With(@, override.name, override.id), !.policy = -commands, !.rev = @ + 1]
  /\ override' = NoOverride
  /\ UNCHANGED <<memory, backup, work, late, tickets, bulk, epoch, clock, budget>>

-----------------------------------------------------------------------------
(* Restart and restore.                                                    *)

\* initializeServerStateStatuses, and the unknown outcomes on record.
Loaded(rows) ==
  [n \in DOMAIN rows.servers |->
     IF \E j \in rows.unknown : j.name = n THEN [Idle EXCEPT !.status = "needs_reconciliation"] ELSE Idle]

\* The process dies: a job in progress is found on record at the next start,
\* and if it had begun to change packages nobody knows its outcome.
Restart(unknown) ==
  LET n == work.name
      rows == IF work.pc = "job" /\ unknown THEN [db EXCEPT !.unknown = @ \cup {[name |-> n, id |-> work.server.id]}] ELSE db
  IN /\ commands < MaxCommands /\ commands' = commands + 1
     /\ db' = rows /\ servers' = rows.servers /\ status' = Loaded(rows)
     /\ work' = NoWork /\ late' = {} /\ tickets' = {} /\ bulk' = NoBulk /\ override' = NoOverride
     /\ epoch' = epoch + 1
     /\ UNCHANGED <<backup, clock, created, jobs, faults>>

TakeBackup ==
  /\ Command /\ backup' = db
  /\ UNCHANGED <<memory, db, work, late, tickets, bulk, override, epoch, clock, created, jobs, faults>>

\* Exclusive maintenance: no action runs.  The handle is a new one.
Restore ==
  /\ Command /\ work.pc = "off" /\ override.pc = "off"
  /\ db' = backup /\ servers' = backup.servers /\ status' = Loaded(backup)
  /\ epoch' = epoch + 1
  /\ UNCHANGED <<backup, work, late, tickets, bulk, override, clock, created, jobs, faults>>

-----------------------------------------------------------------------------
Next ==
  \/ \E n \in Names, ep \in Endpoints : Create(n, ep)
  \/ \E n, new \in Names, ep \in Endpoints : Update(n, new, ep)
  \/ \E n \in Names : Delete(n) \/ SetKey(n) \/ ClearPassword(n) \/ Reconcile(n) \/ Attach(n) \/ OverrideCheck(n)
  \/ \E n \in Names, off \in BOOLEAN : SetDisabled(n, off)
  \/ \E s \in Selections : CommitImport(s)
  \/ EditPolicies \/ PreviewProject \/ PreviewIssue \/ CommitSave
  \/ \E d \in Drafts : PreviewRead(d)
  \/ \E t \in tickets : TicketExpires(t) \/ CommitCheck(t)
  \/ \E n \in Names, kind \in {"refresh", "job"} : Begin(n, kind)
  \/ RefreshAccept \/ RestoreStatusSnapshot
  \/ \E unknown \in BOOLEAN : JobEnds(unknown) \/ Restart(unknown)
  \/ \E e \in late : AcceptMaintenance(e)
  \/ SetOverride \/ TakeBackup \/ Restore

Spec == Init /\ [][Next]_vars

-----------------------------------------------------------------------------

\* The inventory in memory is the one in the database after every command,
\* failed ones included; it has one server for an endpoint and a status for
\* every server; and a server shows an unknown outcome exactly while one is on
\* record under its name, through renames, new endpoints, refreshes, restarts
\* and restores (SaveOrRollbackLocked, Update, Restore).
InventoryIsStored ==
  /\ servers = db.servers /\ DOMAIN status = DOMAIN servers
  /\ \A n, m \in DOMAIN servers : servers[n].ep = servers[m].ep => n = m
  /\ \A n \in DOMAIN servers :
       status[n].status = "needs_reconciliation" <=> \E j \in db.unknown : j.name = n

\* The facts shown for a server were collected from that server, at the
\* endpoint it has now, and the rows and unknown outcomes under its name are
\* its own, never those of an earlier server of the name (Update, Delete,
\* AcceptCollectedFacts).
DataFollowsServer ==
  /\ \A n \in DOMAIN db.facts :
       n \in DOMAIN db.servers /\ db.facts[n] = [id |-> db.servers[n].id, ep |-> db.servers[n].ep]
  /\ \A n \in DOMAIN db.rows : n \in DOMAIN db.servers /\ db.rows[n] = db.servers[n].id
  /\ \A j \in db.unknown : j.name \in DOMAIN db.servers /\ db.servers[j.name].id = j.id

\* The inventory holds together: what is in memory is what is stored, and what is
\* stored under a name belongs to the server of that name.
InventoryHoldsTogether == InventoryIsStored /\ DataFollowsServer

SavesWhatWasShown ==
  bulk.pc = "save" /\ servers' # servers =>
    /\ servers' = bulk.ticket.shown.servers
    /\ db.policy = bulk.ticket.shown.policy

\* A confirmed bulk command changes the inventory to exactly what its preview
\* showed, while the policies that the schedules shown were computed from are
\* still in force (Commit and CheckRevision in bulk.go).
BulkIsReviewed == [][SavesWhatWasShown]_vars

\* Past observations keep the endpoint they were made at ("Historical
\* observations retain their old endpoint identity", docs/usage.md).
ObservationKeepsEndpoint == \A s \in db.snaps : s.mark \in {"", s.ep}
=============================================================================
