----------------------------- MODULE MCRequests -----------------------------
(***************************************************************************)
(* The requests of operators, for TLC: a behaviour is one of               *)
(* GlobalCredential, ServerActions (an update that is reviewed),           *)
(* Identities, HostTrust, MetricsCredential and ServerInventory, chosen by *)
(* part at the start; the variables of the other five stay as they are.    *)
(***************************************************************************)
EXTENDS GlobalCredential, Integers, Sequences, TLC

CONSTANT a1  \* a caller of startAction

VARIABLES part,
          proc, rt, jobs, act, rules, edits, screen, granted, host,
          db, archive, now, req, issued, userOps, used, replayed,
          file, others, hostKey, shared, endpoints, onboarding, trustOps,
          token, tokenCache, tokenBackup, time, spent, use,
          servers, status, tables, backup, work, late, tickets, bulk, override,
          epoch, clock, created, commands, started, inventoryFaults

updateVars == <<proc, rt, jobs, act, rules, edits, screen, granted, host>>
identityVars == <<db, archive, now, req, issued, userOps, used, replayed>>
trustVars == <<file, others, hostKey, shared, endpoints, onboarding, trustOps>>
tokenVars == <<token, tokenCache, tokenBackup, time, spent, use>>
inventoryVars == <<servers, status, tables, backup, work, late, tickets, bulk, override,
                   epoch, clock, created, commands, started, inventoryFaults>>
allVars == <<part, vars, updateVars, identityVars, trustVars, tokenVars, inventoryVars>>

-----------------------------------------------------------------------------
(* The instances.                                                          *)

\* One update, manual or automatic, of packages that change while it waits.
Update == INSTANCE ServerActions WITH
  Actions <- {a1}, Kinds <- {"update"}, Policies <- TRUE, Packages <- {"p1", "p2"},
  StorageFails <- FALSE, MaxJobs <- 1, MaxAdmissions <- 1, MaxApprovals <- 2, MaxEdits <- 1

\* Identities starts before the setup, with two operations to come; or with an
\* administrator and a reader who has confirmed a factor at step 0 of the
\* clock, with one operation and one token to come and the clock moving.
Accounts == {1, 2}
Blank == INSTANCE Identities WITH
  Passwords <- {1, 2}, Roles <- {"admin", "reader"},
  First <- {}, MaxTokens <- 2, MaxOps <- 2, MaxTime <- 1, ops <- userOps
WithFactor(a) == [a EXCEPT !.mfa = -1, !.last = 0, !.codes = {-1}, !.gen = 1]
BeforeSetup == [acct |-> [a \in Accounts |-> Blank!NoAccount], now |-> 1, ops |-> 0, issued |-> 0]
TwoUsers == [acct |-> [a \in Accounts |-> IF a = 1 THEN Blank!NewAccount(1, "admin")
                                          ELSE WithFactor(Blank!NewAccount(2, "reader"))],
             now |-> 0, ops |-> 1, issued |-> 1]

Identity == INSTANCE Identities WITH
  Passwords <- {1, 2}, Roles <- {"admin", "reader"},
  First <- {BeforeSetup, TwoUsers}, MaxTokens <- 2, MaxOps <- 2, MaxTime <- 1, ops <- userOps

\* An address, another spelling of it, and a name.  A run starts with nothing
\* known; the other spelling known to a file that is only read; a line for both
\* kinds of host; a revoked key.
Entry(hosts, key) == [hosts |-> hosts, key |-> key, revoked |-> FALSE]
KnownHosts ==
  {[file |-> {}, others |-> {}],
   [file |-> {}, others |-> {Entry({"IP"}, 1)}],
   [file |-> {Entry({"IP", "name"}, 1)}, others |-> {}],
   [file |-> {[hosts |-> {"name"}, key |-> 2, revoked |-> TRUE]}, others |-> {}]}

Trust == INSTANCE HostTrust WITH
  Hosts <- {"ip", "IP", "name"},
  Canonical <- [h \in {"ip", "IP", "name"} |-> IF h = "IP" THEN "ip" ELSE h],
  Addresses <- {"ip", "IP"}, Stores <- KnownHosts, Keys <- {1, 2}, MaxOps <- 3,
  servers <- endpoints, req <- onboarding, ops <- trustOps

Token == INSTANCE MetricsCredential WITH
  Tokens <- {"t1", "t2"}, Origins <- {"o1", "o2"}, UsageWriteInterval <- 2, StaleAfter <- 4,
  MaxTime <- 6,
  stored <- token, cache <- tokenCache, archive <- tokenBackup, now <- time

\* Two names and two endpoints, so that names and endpoints are used again.
Inventory == INSTANCE ServerInventory WITH
  Names <- {"a", "b"}, Endpoints <- {"x", "y"}, First <- {<<"a", "x">>},
  Drafts <- {[names |-> {"a"}, tag |-> "add", disabled |-> "keep"]},
  MaxCommands <- 3, MaxJobs <- 1, MaxFaults <- 1, MaxTickets <- 1,
  db <- tables, jobs <- started, faults <- inventoryFaults

-----------------------------------------------------------------------------
(* One part runs; the others are still, as they begin or without a value.  *)

StillUpdate ==
  /\ proc = 0 /\ rt = 0 /\ jobs = 0 /\ act = 0 /\ rules = 0 /\ edits = 0 /\ screen = 0
  /\ granted = 0 /\ host = 0
StillIdentity ==
  /\ db = 0 /\ archive = 0 /\ now = 0 /\ req = 0 /\ issued = 0 /\ userOps = 0 /\ used = 0 /\ replayed = 0
StillTrust ==
  /\ file = 0 /\ others = 0 /\ hostKey = 0 /\ shared = 0 /\ endpoints = 0 /\ onboarding = 0 /\ trustOps = 0
StillToken ==
  /\ token = 0 /\ tokenCache = 0 /\ tokenBackup = 0 /\ time = 0 /\ spent = 0 /\ use = 0
StillInventory ==
  /\ servers = 0 /\ status = 0 /\ tables = 0 /\ backup = 0 /\ work = 0 /\ late = 0 /\ tickets = 0
  /\ bulk = 0 /\ override = 0 /\ epoch = 0 /\ clock = 0 /\ created = 0 /\ commands = 0
  /\ started = 0 /\ inventoryFaults = 0

MCInit ==
  /\ part \in {"key", "update", "identity", "trust", "token", "inventory"}
  /\ Init /\ (part = "key" \/ stored = None)
  /\ IF part = "update" THEN Update!Init ELSE StillUpdate
  /\ IF part = "identity" THEN Identity!Init ELSE StillIdentity
  /\ IF part = "trust" THEN Trust!Init ELSE StillTrust
  /\ IF part = "token" THEN Token!Init ELSE StillToken
  /\ IF part = "inventory" THEN Inventory!Init ELSE StillInventory

NextUpdate ==
  /\ part = "update" /\ Update!Next
  /\ UNCHANGED <<part, identityVars, trustVars, vars, tokenVars, inventoryVars>>

NextIdentity ==
  /\ part = "identity" /\ Identity!Next
  /\ UNCHANGED <<part, updateVars, trustVars, vars, tokenVars, inventoryVars>>

NextTrust ==
  /\ part = "trust" /\ Trust!Next
  /\ UNCHANGED <<part, updateVars, identityVars, vars, tokenVars, inventoryVars>>

NextKey ==
  /\ part = "key" /\ Next
  /\ UNCHANGED <<part, updateVars, identityVars, trustVars, tokenVars, inventoryVars>>

NextToken ==
  /\ part = "token" /\ Token!Next
  /\ UNCHANGED <<part, updateVars, identityVars, trustVars, vars, inventoryVars>>

NextInventory ==
  /\ part = "inventory" /\ Inventory!Next
  /\ UNCHANGED <<part, updateVars, identityVars, trustVars, vars, tokenVars>>

MCNext == NextKey \/ NextUpdate \/ NextIdentity \/ NextTrust \/ NextToken \/ NextInventory

MCSpec == MCInit /\ [][MCNext]_allVars

\* Requests are interchangeable in every part that has them.
RequestSymmetry == Permutations(Requests)

-----------------------------------------------------------------------------
(* Properties of the other parts; CacheFollowsStore is that of            *)
(* GlobalCredential.                                                       *)

\* ServerActions: what an update executes was approved by the policy, or by an
\* operator who saw it, whatever packages, rules and post-checks became.
ExecutesApprovedPlan == part = "update" => Update!ExecutesApprovedPlan

\* Identities: a session belongs to an account as it is now.
SessionsAreCurrent == part = "identity" => Identity!SessionsAreCurrent

\* Identities: a token is issued from factors that are current, and no code is
\* accepted twice.
FactorsAreCurrentAndUnspent ==
  [][part = "identity" => ~replayed' /\ Identity!IssuesFromCurrentFactors]_allVars

\* HostTrust: onboarding trusts what the operator confirmed and nothing else.
OnboardingKeepsTrust == [][part = "trust" => Trust!PinsWhatIsNew]_allVars

\* MetricsCredential: the details shown tell when and from where the token in
\* force was last used.
DetailsTellTheUse == part = "token" => Token!DetailsTellTheUse

\* ServerInventory: what is in memory is stored, and what is stored under a
\* name belongs to the server of that name.
InventoryHoldsTogether == part = "inventory" => Inventory!InventoryHoldsTogether

\* ServerInventory: a bulk command changes what was reviewed.
BulkIsReviewed == [][part = "inventory" => Inventory!SavesWhatWasShown]_allVars
=============================================================================
