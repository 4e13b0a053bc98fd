----------------------- MODULE PolicyScheduler_proofs -----------------------
(***************************************************************************)
(* What the tick of PolicyScheduler never does, for any servers, policies, *)
(* edits and number of crashes: launch a minute that has passed, launch a  *)
(* wave before its predecessors succeeded, repeat a one-time occurrence.   *)
(***************************************************************************)
EXTENDS PolicyScheduler, TLAPS

-----------------------------------------------------------------------------
(* The inductive invariant                                                  *)

\* An accepted manifest is open or was; a free key is not planned.
OccurrenceInv ==
  \A p \in Policies, key \in Keys : ~Accepted(p, key) => occ[p][key].closed

\* k is a member of a wave of its accepted manifest.
InWave(k) ==
  \E key \in Keys :
    /\ occ[k[1]][key].origin = k[2]
    /\ \E i \in 2..Len(occ[k[1]][key].batches) : k[3] \in occ[k[1]][key].batches[i].servers

\* What a tick may launch in minute t.
Eligible(k, t) == t = k[2] \/ InWave(k)

\* Does the tick process a slot with ProcessDueSlot?
InSlot == tick.pc \in {"accept", "plan"}

\* Only the current minute is processed as unblocked, and it comes last; keys
\* to launch come from it alone.
TickInv ==
  /\ tick.pc # "idle" => up
  /\ tick.pc \in {"accept", "recover"} => tick.accept # {}
  /\ InSlot => \A p \in tick.accept : tick.view.pol[p].on
  /\ tick.pc = "recover" => \A p \in tick.accept : tick.snap.pol[p].on
  /\ tick.pc \in {"accept", "recover", "plan"} => tick.slot \in Minutes
  /\ InSlot /\ ~tick.blocked => tick.slot = tick.now /\ tick.next = "save"
  /\ tick.pc \in {"next", "accept", "recover", "plan", "save"} => tick.launches = {}
  /\ tick.pc = "start" => tick.launches # {}
  /\ tick.pc \in {"skip", "start"} => \A k \in tick.launches : Eligible(k, tick.now)

\* A row and its job; the row whose job is being started.
RowInv ==
  /\ \A k \in RunKeys : /\ (jobs[k] # "none") <=> runs[k].job
                        /\ jobs[k] = "active" => runs[k].status # "succeeded"
  /\ tick.pc = "start" =>
       \A k \in tick.launches : Least(k, tick.launches) => runs[k].status = "queued" /\ jobs[k] = "none"

\* The consumption a slot works with may be older than what the tick itself
\* accepted meanwhile; those policies are one-time ones in its view.
ConsumedInv ==
  /\ tick.pc # "idle" /\ tick.next = "next" =>
       \A p \in Consumed \ tick.consumed : tick.snap.pol[p].once
  /\ tick.pc \in {"next", "recover"} => tick.next = "next"
  /\ InSlot /\ tick.next = "next" => tick.view = tick.snap /\ tick.used = tick.consumed
  /\ InSlot => \A p \in Consumed \ tick.used : tick.view.pol[p].once
  /\ InSlot => tick.accept \cap tick.used = {}
  /\ tick.pc = "recover" => tick.accept \cap tick.consumed = {}
  /\ tick.pc \in {"skip", "start"} =>
       \A k \in tick.launches : k[1] \in Consumed =>
         \E key \in Keys : occ[k[1]][key].origin = k[2]

\* What was launched was eligible and still is.
LaunchInv == \A k \in RunKeys : Launched(k) => Eligible(k, at[k])

IInv == TypeOK /\ OccurrenceInv /\ TickInv /\ RowInv /\ ConsumedInv /\ LaunchInv

\* Enabled, a has the rollout mode of m: waves or not and, with waves,
\* one-time or repeating.
HasMode(a, m) == a.on => a.waves = m.waves /\ (a.waves => a.once = m.once)

\* No edit of an enabled policy changes its rollout mode: each policy has a
\* mode that it has in every instance and every draft in which it is enabled.
RolloutsKeepTheirMode ==
  \E mode \in [Policies -> Policy(Servers, Minutes)] :
    /\ \A i \in Instances, p \in Policies : HasMode(i.pol[p], mode[p])
    /\ \A d \in Drafts : HasMode(d[2], mode[d[1]])

\* The configurations in use have the modes pol has.
ModesAre(pol) ==
  \A p \in Policies :
    /\ HasMode(cfg.pol[p], pol[p])
    /\ tick.pc # "idle" => HasMode(tick.snap.pol[p], pol[p]) /\ HasMode(tick.view.pol[p], pol[p])

Disjoint(batches) ==
  \A i, j \in DOMAIN batches : i # j => batches[i].servers \cap batches[j].servers = {}

ManifestsFit(pol) ==
  \A p \in Policies, key \in Keys : Accepted(p, key) =>
    /\ Disjoint(occ[p][key].batches)
    /\ pol[p].waves => key = OccurrenceKey(pol[p], occ[p][key].origin)
    /\ ~pol[p].waves => Len(occ[p][key].batches) <= 1

\* The manifests that list k as a member of a wave let it go.
Released(k) ==
  \A key \in Keys : occ[k[1]][key].origin = k[2] =>
    \A i \in 2..Len(occ[k[1]][key].batches) : k[3] \in occ[k[1]][key].batches[i].servers =>
      \A j \in 1..(i-1) : \A s \in occ[k[1]][key].batches[j].servers :
        runs[<<k[1], k[2], s>>].status = "succeeded"

\* ... for good: there will not be another manifest for it.
ReleasedForGood(k, pol) ==
  /\ Released(k)
  /\ pol[k[1]].waves => \E key \in Keys : occ[k[1]][key].origin = k[2]

WavesFit(pol) ==
  /\ ModesAre(pol) /\ ManifestsFit(pol)
  /\ \A k \in RunKeys : Launched(k) => ReleasedForGood(k, pol)
  /\ tick.pc \in {"skip", "start"} => \A k \in tick.launches : ReleasedForGood(k, pol)
-----------------------------------------------------------------------------
(* Keys                                                                     *)

\* The parts of a key.
LEMMA KeyParts ==
  ASSUME NEW k \in RunKeys
  PROVE  /\ k[1] \in Policies /\ k[2] \in Minutes /\ k[3] \in Servers
         /\ k = <<k[1], k[2], k[3]>>
         /\ k[1] \in Nat /\ k[2] \in Nat /\ k[3] \in Nat
<1>1. k[1] \in Policies /\ k[2] \in Minutes /\ k[3] \in Servers /\ k = <<k[1], k[2], k[3]>>
  BY DEF RunKeys
<1> QED
  BY <1>1, SizeAssumption DEF Minutes

\* Keys of one occurrence.
LEMMA KeysOf ==
  ASSUME NEW p \in Policies, NEW t \in Minutes, NEW S \in SUBSET Servers
  PROVE  {<<p, t, s>> : s \in S} \in SUBSET RunKeys
<1>1. \A s \in S : <<p, t, s>> \in RunKeys
  BY Zenon DEF RunKeys
<1> QED
  BY <1>1, Zenon

\* At most one key is the first.
LEMMA LeastUnique ==
  ASSUME NEW K \in SUBSET RunKeys, NEW k \in K, NEW l \in K, Least(k, K), Least(l, K)
  PROVE  k = l
<1>1. /\ \/ k[3] < l[3]
         \/ k[3] = l[3] /\ (k[1] < l[1] \/ (k[1] = l[1] /\ k[2] <= l[2]))
      /\ \/ l[3] < k[3]
         \/ l[3] = k[3] /\ (l[1] < k[1] \/ (l[1] = k[1] /\ l[2] <= k[2]))
  BY Zenon DEF Least
<1>2. k[1] \in Nat /\ k[2] \in Nat /\ k[3] \in Nat /\ l[1] \in Nat /\ l[2] \in Nat /\ l[3] \in Nat
  BY KeyParts, Zenon
<1>3. k[1] = l[1] /\ k[2] = l[2] /\ k[3] = l[3]
  BY <1>1, <1>2
<1> QED
  BY <1>3, KeyParts, Zenon
-----------------------------------------------------------------------------
(* Manifests                                                                *)

\* A set of servers has a size.
LEMMA ServersCount ==
  ASSUME NEW names \in SUBSET Servers
  PROVE  Cardinality(names) \in Nat
BY SizeAssumption, Zenon

\* The lesser of two numbers.
LEMMA LesserOfTwo ==
  ASSUME NEW m \in Nat, NEW n \in Nat
  PROVE  Min({m, n}) \in Nat /\ Min({m, n}) <= m /\ Min({m, n}) <= n
<1>1. \E x \in {m, n} : \A y \in {m, n} : x <= y
  OBVIOUS
<1>2. Min({m, n}) \in {m, n} /\ \A y \in {m, n} : Min({m, n}) <= y
  BY <1>1, Zenon DEF Min
<1> QED
  BY <1>2, Zenon

\* The fields of a policy.
LEMMA PolicyParts ==
  ASSUME NEW policy \in Policy(Servers, Minutes)
  PROVE  /\ policy.due \in SUBSET Minutes /\ policy.targets \in SUBSET Servers
         /\ policy.canaries \in SUBSET Servers /\ policy.dark \in SUBSET Minutes
         /\ policy.canary \in Nat /\ policy.size \in Nat /\ policy.delay \in Nat
         /\ policy.rank \in Nat
         /\ policy.on \in BOOLEAN /\ policy.once \in BOOLEAN /\ policy.waves \in BOOLEAN
BY Zenon DEF Policy

\* A rollout is dealt into a sequence of batches ...
LEMMA DealtInBatches ==
  ASSUME NEW policy \in Policy(Servers, Minutes), NEW names \in SUBSET Servers
  PROVE  /\ BuildRolloutBatches(policy, names) \in Seq(Batch)
         /\ Disjoint(BuildRolloutBatches(policy, names))
         /\ ~policy.waves => Len(BuildRolloutBatches(policy, names)) <= 1
<1> DEFINE b == BuildRolloutBatches(policy, names)
<1>1. CASE names = {}
  <2>1. b = << >>
    BY <1>1, Zenon DEF BuildRolloutBatches
  <2> QED
    BY <2>1 DEF Disjoint
<1>2. CASE names # {} /\ ~policy.waves
  <2>1. b = <<[servers |-> names, delay |-> 0]>>
    BY <1>2, Zenon DEF BuildRolloutBatches
  <2>2. [servers |-> names, delay |-> 0] \in Batch
    BY Zenon DEF Batch
  <2>3. b \in Seq(Batch) /\ Len(b) = 1 /\ DOMAIN b = 1..1
    BY <2>1, <2>2
  <2> QED
    BY <2>3 DEF Disjoint
<1>3. CASE names # {} /\ policy.waves /\ ~(policy.canaries \subseteq names)
  <2>1. b = << >>
    BY <1>3, Zenon DEF BuildRolloutBatches
  <2> QED
    BY <2>1, <1>3 DEF Disjoint
<1>4. CASE names # {} /\ policy.waves /\ policy.canaries \subseteq names
  <2> DEFINE count == IF policy.canaries # {} THEN Cardinality(policy.canaries)
                      ELSE OrDefault(policy.canary, DefaultCanaryCount)
             canary == Min({count, Cardinality(names)})
             size == OrDefault(policy.size, DefaultWaveSize)
             delay == OrDefault(policy.delay, DefaultWaveDelayMinutes)
             waves == (Cardinality(names) - canary + size - 1) \div size
  <2>1. PICK B : b = [i \in 1..(waves + 1) |->
                        [servers |-> {s \in names : B[s] = i}, delay |-> (i - 1) * delay]]
    <3> DEFINE Before(r, s) == IF policy.canaries # {} /\ (r \in policy.canaries) # (s \in policy.canaries)
                               THEN r \in policy.canaries ELSE r < s
               Position(s) == Cardinality({r \in names : Before(r, s)})
               F == [s \in names |-> IF Position(s) < canary THEN 1
                                     ELSE 2 + (Position(s) - canary) \div size]
    <3>1. b = [i \in 1..(waves + 1) |->
                 [servers |-> {s \in names : F[s] = i}, delay |-> (i - 1) * delay]]
      BY <1>4, Zenon DEF BuildRolloutBatches
    <3> QED
      BY <3>1, ZenonT(40)
  <2>2. Cardinality(names) \in Nat /\ Cardinality(policy.canaries) \in Nat
    BY ServersCount, PolicyParts, Zenon
  <2>3. count \in Nat
    BY <2>2, PolicyParts, Zenon DEF OrDefault, DefaultCanaryCount
  <2>4. canary \in Nat /\ canary <= Cardinality(names)
    BY <2>2, <2>3, LesserOfTwo, Zenon
  <2>5. size \in Nat /\ size > 0 /\ delay \in Nat
    BY PolicyParts DEF OrDefault, DefaultWaveSize, DefaultWaveDelayMinutes
  <2> HIDE DEF count, canary, size, delay, b
  <2>6. waves \in Nat
    BY <2>2, <2>4, <2>5
  <2> HIDE DEF waves
  <2>7. b \in Seq(Batch)
    <3>1. \A i \in 1..(waves + 1) : (i - 1) * delay \in Nat
      BY <2>5, <2>6
    <3>2. \A i \in 1..(waves + 1) :
            [servers |-> {s \in names : B[s] = i}, delay |-> (i - 1) * delay] \in Batch
      BY <3>1, Zenon DEF Batch
    <3> DEFINE e(i) == [servers |-> {s \in names : B[s] = i}, delay |-> (i - 1) * delay]
    <3> HIDE DEF e
    <3>3. b = [i \in 1..(waves + 1) |-> e(i)] /\ \A i \in 1..(waves + 1) : e(i) \in Batch
      BY <2>1, <3>2, Zenon DEF e
    <3> QED
      BY <3>3, <2>6
  <2>8. Disjoint(b)
    BY <2>1, Zenon DEF Disjoint
  <2> QED
    BY <2>7, <2>8, <1>4, Zenon DEF b
<1> QED
  BY <1>1, <1>2, <1>3, <1>4, PolicyParts, Zenon
\* What a manifest is made of.
LEMMA ManifestType ==
  ASSUME NEW origin \in 0..MaxTime, NEW batches \in Seq(Batch),
         NEW block \in {"", "no_match", "canary_unavailable", "scheduler_missed"},
         NEW rank \in Nat, NEW dark \in SUBSET Minutes, NEW closed \in BOOLEAN
  PROVE  [origin |-> origin, batches |-> batches, block |-> block, rank |-> rank,
          dark |-> dark, closed |-> closed] \in Manifest
BY Zenon DEF Manifest

\* ... and the manifest of an occurrence is well formed, open and, for a policy
\* without waves, a single batch.
LEMMA NewOccurrenceFact ==
  ASSUME NEW policy \in Policy(Servers, Minutes), NEW origin \in Minutes,
         NEW off \in SUBSET Servers
  PROVE  /\ NewOccurrence(policy, origin, off) \in Manifest
         /\ NewOccurrence(policy, origin, off).origin = origin
         /\ ~NewOccurrence(policy, origin, off).closed
         /\ Disjoint(NewOccurrence(policy, origin, off).batches)
         /\ ~policy.waves => Len(NewOccurrence(policy, origin, off).batches) <= 1
<1> DEFINE names == Matched(policy, off)
           missing == policy.waves /\ ~(policy.canaries \subseteq names)
           all == IF missing THEN names \cup policy.canaries ELSE names
           block == IF all = {} THEN "no_match" ELSE IF missing THEN "canary_unavailable" ELSE ""
           b == BuildRolloutBatches(policy, all)
<1>1. all \in SUBSET Servers
  BY PolicyParts, Zenon DEF Matched
<1>2. b \in Seq(Batch) /\ Disjoint(b) /\ (~policy.waves => Len(b) <= 1)
  BY <1>1, DealtInBatches, Zenon
<1>3. block \in {"", "no_match", "canary_unavailable", "scheduler_missed"}
  BY Zenon
<1>4. NewOccurrence(policy, origin, off) =
        [origin |-> origin, batches |-> b, block |-> block, rank |-> policy.rank,
         dark |-> policy.dark, closed |-> FALSE]
  BY Zenon DEF NewOccurrence
<1>5. origin \in 0..MaxTime
  BY SizeAssumption DEF Minutes
<1>6. policy.rank \in Nat /\ policy.dark \in SUBSET Minutes
  BY PolicyParts, Zenon
<1> HIDE DEF b, block
<1>7. NewOccurrence(policy, origin, off) \in Manifest
  BY <1>2, <1>3, <1>4, <1>5, <1>6, ManifestType, ZenonT(40)
<1> QED
  BY <1>2, <1>4, <1>7
-----------------------------------------------------------------------------
(* Facts about states                                                       *)

\* A tick is in progress or not.
LEMMA Busy ==
  ASSUME TypeOK
  PROVE  /\ tick.pc # "idle" => tick \in Tick
         /\ tick.pc = "idle" => tick = Idle
         /\ Idle.pc = "idle"
BY DEF TypeOK, Tick, Idle

\* The fields of a tick.
LEMMA TickParts ==
  ASSUME tick \in Tick
  PROVE  /\ tick.now \in Minutes /\ tick.mark \in Mark /\ tick.snap \in Cfg
         /\ tick.consumed \in SUBSET Policies /\ tick.known \in BOOLEAN
         /\ tick.pending \in SUBSET Minutes /\ tick.done \in SUBSET (0..MaxTime)
         /\ tick.slot \in 0..MaxTime /\ tick.blocked \in BOOLEAN /\ tick.view \in Cfg
         /\ tick.used \in SUBSET Policies /\ tick.accept \in SUBSET Policies
         /\ tick.skips \in SUBSET RunKeys /\ tick.launches \in SUBSET RunKeys
         /\ tick.err \in BOOLEAN /\ tick.hidden \in SUBSET (Policies \X Keys)
         /\ tick.next \in {"next", "save"} /\ tick.pc # "idle"
         /\ tick.pc \in {"next", "accept", "recover", "plan", "skip", "start", "save"}
BY Zenon DEF Tick

\* The fields of a configuration.
LEMMA CfgParts ==
  ASSUME NEW c \in Cfg
  PROVE  /\ \A p \in Policies : c.pol[p] \in Policy(Servers, Minutes)
         /\ c.off \in SUBSET Servers /\ c.since \in [Policies -> 0..MaxTime] /\ c.rev \in Nat
         /\ c.pol \in [Policies -> Policy(Servers, Minutes)]
BY Zenon DEF Cfg

\* A manifest in place.
LEMMA OccParts ==
  ASSUME TypeOK, NEW p \in Policies, NEW key \in Keys
  PROVE  /\ occ[p][key] \in Manifest /\ occ[p][key].origin \in 0..MaxTime
         /\ occ[p][key].batches \in Seq(Batch) /\ occ[p][key].closed \in BOOLEAN
<1>1. occ[p][key] \in Manifest
  BY Zenon DEF TypeOK
<1> QED
  BY <1>1, Zenon DEF Manifest

\* Manifests stay as they were accepted.
OccKept ==
  \A p \in Policies, key \in Keys : Accepted(p, key) =>
    occ'[p][key].origin = occ[p][key].origin /\ occ'[p][key].batches = occ[p][key].batches

\* A minute is not 0.
LEMMA MinuteFact ==
  ASSUME NEW t \in Minutes
  PROVE  t # 0 /\ t \in Nat /\ t \in 0..MaxTime /\ t \in Keys
BY SizeAssumption DEF Minutes, Keys

\* What was eligible remains so.
LEMMA EligibleKept ==
  ASSUME OccKept, NEW k \in RunKeys, NEW t, Eligible(k, t)
  PROVE  Eligible(k, t)'
<1>1. CASE t = k[2]
  BY <1>1, Zenon DEF Eligible
<1>2. CASE InWave(k)
  <2>1. PICK key \in Keys :
          /\ occ[k[1]][key].origin = k[2]
          /\ \E i \in 2..Len(occ[k[1]][key].batches) : k[3] \in occ[k[1]][key].batches[i].servers
    BY <1>2, Zenon DEF InWave
  <2>2. k[1] \in Policies /\ Accepted(k[1], key)
    BY <2>1, KeyParts, MinuteFact, Zenon DEF Accepted
  <2>3. occ'[k[1]][key].origin = k[2] /\ occ'[k[1]][key].batches = occ[k[1]][key].batches
    BY <2>1, <2>2, Zenon DEF OccKept
  <2>4. InWave(k)'
    BY <2>1, <2>3, Zenon DEF InWave
  <2> QED
    BY <2>4, Zenon DEF Eligible
<1> QED
  BY <1>1, <1>2, Zenon DEF Eligible

\* Launches as they were, manifests kept.
LEMMA LaunchKept ==
  ASSUME LaunchInv, OccKept, at' = at
  PROVE  LaunchInv'
BY EligibleKept, Zenon DEF LaunchInv, Launched

\* Nothing accepted or closed: everything about manifests is as it was.
LEMMA SameOcc ==
  ASSUME occ' = occ
  PROVE  OccKept /\ Consumed' = Consumed
BY Zenon DEF OccKept, Consumed, Accepted

\* A step that changes rows and jobs alone.
LEMMA RowsOnly ==
  ASSUME IInv, TypeOK', RowInv', UNCHANGED <<up, occ, at, tick>>
  PROVE  IInv'
<1> USE DEF IInv
<1>1. LaunchInv'
  BY SameOcc, LaunchKept, Zenon
<1>2. OccurrenceInv'
  BY Zenon DEF OccurrenceInv, Accepted
<1>3. TickInv'
  BY Zenon DEF TickInv, InSlot, Eligible, InWave
<1>4. ConsumedInv'
  BY SameOcc, Zenon DEF ConsumedInv, InSlot
<1> QED
  BY <1>1, <1>2, <1>3, <1>4, Zenon

\* A step that leaves tick, rows and manifests alone.
LEMMA Quiet ==
  ASSUME IInv, TypeOK', UNCHANGED <<up, occ, runs, jobs, at, tick>>
  PROVE  IInv'
<1>1. RowInv'
  BY Zenon DEF IInv, RowInv, Least
<1> QED
  BY <1>1, RowsOnly, Zenon

-----------------------------------------------------------------------------
(* Steps outside a tick                                                     *)

\* The scheduler starts with nothing accepted, launched or in progress.
LEMMA InitInv == Init => IInv
<1> SUFFICES ASSUME Init PROVE IInv
  BY Zenon
<1>1. PICK i \in Instances :
        /\ cfg = [pol |-> i.pol, off |-> {}, since |-> [p \in Policies |-> 0], rev |-> 0]
        /\ budget = i.budget /\ crashes = i.crashes
        /\ mark = [found |-> i.found, at |-> 0, rev |-> 0, base |-> 0]
  BY Zenon DEF Init
<1>2. i.pol \in [Policies -> Policy(Servers, Minutes)] /\ i.found \in BOOLEAN
      /\ i.budget \in Nat /\ i.crashes \in Nat
  BY PolicyAssumption, Zenon
<1>3. 0 \in 0..MaxTime /\ now \in Minutes
  BY SizeAssumption DEF Init, Minutes
<1>4. cfg \in Cfg /\ mark \in Mark
  BY <1>1, <1>2, <1>3, Zenon DEF Cfg, Mark
<1>5. NoOccurrence \in Manifest /\ NoOccurrence.origin = 0 /\ NoOccurrence.closed
  BY <1>3 DEF NoOccurrence, Manifest
<1>6. NoRow \in Row /\ NoRow.job = FALSE /\ NoRow.status = "absent"
  BY Zenon DEF NoRow, Row, Reasons
<1>7. occ \in [Policies -> [Keys -> Manifest]]
  BY <1>5, Zenon DEF Init
<1>8. runs \in [RunKeys -> Row] /\ jobs \in [RunKeys -> JobStatus] /\ at \in [RunKeys -> 0..MaxTime]
  BY <1>3, <1>6, Zenon DEF Init, JobStatus
<1>9. TypeOK
  BY <1>1, <1>2, <1>3, <1>4, <1>7, <1>8, Zenon DEF Init, TypeOK
<1>10. tick.pc = "idle"
  BY Zenon DEF Init, Idle
<1>11. OccurrenceInv
  BY <1>5, Zenon DEF OccurrenceInv, Init
<1>12. TickInv
  BY <1>10, Zenon DEF TickInv, InSlot
<1>13. RowInv
  BY <1>6, <1>10, Zenon DEF RowInv, Init
<1>14. ConsumedInv
  BY <1>10, Zenon DEF ConsumedInv, InSlot
<1>15. LaunchInv
  BY Zenon DEF LaunchInv, Launched, Init
<1> QED
  BY <1>9, <1>11, <1>12, <1>13, <1>14, <1>15, Zenon DEF IInv

\* A tick that maintenance blocks is only remembered.
LEMMA RememberMissedTickInv == ASSUME IInv, RememberMissedTick PROVE IInv'
<1>1. TypeOK'
  BY MinuteFact, Zenon DEF IInv, TypeOK, RememberMissedTick
<1> QED
  BY <1>1, Quiet, Zenon DEF RememberMissedTick

\* An edit changes the saved configuration, not what a tick captured.
LEMMA UpdatePolicyInv == ASSUME IInv, NEW p \in Policies, UpdatePolicy(p) PROVE IInv'
<1>1. PICK d \in Drafts : d[1] = p /\
        cfg' = [cfg EXCEPT !.pol[p] = d[2], !.since[p] = now, !.rev = @ + 1]
  BY Zenon DEF UpdatePolicy
<1>2. d[2] \in Policy(Servers, Minutes)
  BY PolicyAssumption, Zenon
<1>3. cfg \in Cfg /\ now \in 0..MaxTime /\ cfg.rev + 1 \in Nat
  BY MinuteFact, CfgParts DEF IInv, TypeOK
<1>4. cfg' \in Cfg
  BY <1>1, <1>2, <1>3, Zenon DEF Cfg
<1>5. TypeOK'
  BY <1>4 DEF IInv, TypeOK, UpdatePolicy, Trouble
<1> QED
  BY <1>5, Quiet, Zenon DEF UpdatePolicy

\* So does a server that leaves or rejoins.
LEMMA UpdateServerInv == ASSUME IInv, NEW s \in Leavers, UpdateServer(s) PROVE IInv'
<1>1. cfg \in Cfg /\ s \in Servers /\ cfg.off \in SUBSET Servers /\ cfg.rev + 1 \in Nat
  BY PolicyAssumption, CfgParts DEF IInv, TypeOK
<1>2. (IF s \in cfg.off THEN cfg.off \ {s} ELSE cfg.off \cup {s}) \in SUBSET Servers
  BY <1>1, Zenon
<1>3. cfg' \in Cfg
  BY <1>1, <1>2, Zenon DEF Cfg, UpdateServer
<1>4. TypeOK'
  BY <1>3 DEF IInv, TypeOK, UpdateServer, Trouble
<1> QED
  BY <1>4, Quiet, Zenon DEF UpdateServer

\* Maintenance begins only between ticks.
LEMMA MaintenanceBeginsInv == ASSUME IInv, MaintenanceBegins PROVE IInv'
<1>1. TypeOK'
  BY DEF IInv, TypeOK, MaintenanceBegins, Trouble
<1> QED
  BY <1>1, Quiet, Zenon DEF MaintenanceBegins

\* Maintenance ends.
LEMMA MaintenanceEndsInv == ASSUME IInv, MaintenanceEnds PROVE IInv'
<1>1. TypeOK'
  BY Zenon DEF IInv, TypeOK, MaintenanceEnds
<1> QED
  BY <1>1, Quiet, Zenon DEF MaintenanceEnds

\* Time passes, also within a tick.
LEMMA AdvanceInv == ASSUME IInv, Advance PROVE IInv'
<1>1. now' \in Minutes
  BY SizeAssumption DEF IInv, TypeOK, Advance, Minutes
<1>2. TypeOK'
  BY <1>1, Zenon DEF IInv, TypeOK, Advance
<1> QED
  BY <1>2, Quiet, Zenon DEF Advance
\* A step that ends a tick, or finds none, without touching manifests.
LEMMA Rests ==
  ASSUME IInv, TypeOK', RowInv', tick' = Idle, UNCHANGED <<occ, at>>
  PROVE  IInv'
<1>1. tick'.pc = "idle"
  BY Zenon DEF Idle
<1>2. LaunchInv'
  BY SameOcc, LaunchKept, Zenon DEF IInv
<1>3. OccurrenceInv'
  BY Zenon DEF IInv, OccurrenceInv, Accepted
<1>4. TickInv'
  BY <1>1, Zenon DEF TickInv, InSlot
<1>5. ConsumedInv'
  BY <1>1, Zenon DEF ConsumedInv, InSlot
<1> QED
  BY <1>2, <1>3, <1>4, <1>5, Zenon DEF IInv

\* A crash loses the tick, not what it wrote.
LEMMA CrashInv == ASSUME IInv, Crash PROVE IInv'
<1>0. 0 \in 0..MaxTime /\ crashes' \in Nat
  BY SizeAssumption DEF IInv, TypeOK, Crash
<1>1. TypeOK'
  BY <1>0, Zenon DEF IInv, TypeOK, Crash
<1>2. RowInv'
  BY Zenon DEF IInv, RowInv, Crash, Idle
<1> QED
  BY <1>1, <1>2, Rests, Zenon DEF Crash

\* MarkInterruptedRuns leaves ended rows alone.
LEMMA InterruptedFact ==
  ASSUME NEW row \in Row
  PROVE  /\ Interrupted(row) \in Row /\ Interrupted(row).job = row.job
         /\ row.status = "succeeded" => Interrupted(row) = row
BY Zenon DEF Interrupted, Row, ActiveRun, TerminalRun, Reasons

\* A restart interrupts jobs and rows.
LEMMA RestartInv == ASSUME IInv, Restart PROVE IInv'
<1>1. tick' = Idle
  BY Busy, Zenon DEF IInv, TickInv, Restart
<1>2. \A k \in RunKeys : runs'[k] = Interrupted(runs[k]) /\ runs[k] \in Row
  BY Zenon DEF Restart, IInv, TypeOK
<1>3. runs' \in [RunKeys -> Row]
  BY <1>2, InterruptedFact, Zenon DEF Restart
<1>4. jobs' \in [RunKeys -> JobStatus]
  BY Zenon DEF IInv, TypeOK, Restart, JobStatus
<1>5. TypeOK'
  BY <1>3, <1>4, Zenon DEF IInv, TypeOK, Restart
<1>6. \A k \in RunKeys : (jobs'[k] # "none") = (jobs[k] # "none") /\ jobs'[k] # "active"
  BY Zenon DEF IInv, TypeOK, Restart
<1>7. \A k \in RunKeys : runs'[k].job = runs[k].job
  BY <1>2, InterruptedFact, Zenon
<1>8. tick'.pc = "idle"
  BY <1>1, Zenon DEF Idle
<1>9. RowInv'
  BY <1>6, <1>7, <1>8, Zenon DEF IInv, RowInv
<1> QED
  BY <1>1, <1>5, <1>9, Rests, Zenon DEF Restart

\* A job ends, and its row with it or later.
LEMMA JobEndsInv == ASSUME IInv, NEW k \in RunKeys, JobEnds(k) PROVE IInv'
<1>1. PICK end \in {"succeeded", "failed"} :
        /\ jobs' = [jobs EXCEPT ![k] = end]
        /\ \/ runs' = [runs EXCEPT ![k].status = end, ![k].reason = "job"]
           \/ runs' = runs
  BY Zenon DEF JobEnds
<1>2. runs \in [RunKeys -> Row] /\ jobs \in [RunKeys -> JobStatus] /\ runs[k] \in Row
  BY Zenon DEF IInv, TypeOK
<1>3. [runs[k] EXCEPT !.status = end, !.reason = "job"] \in Row
      /\ [runs[k] EXCEPT !.status = end, !.reason = "job"].job = runs[k].job
  BY <1>2, Zenon DEF Row, TerminalRun, Reasons
<1>4. runs' \in [RunKeys -> Row] /\ \A l \in RunKeys : l # k => runs'[l] = runs[l]
  BY <1>1, <1>2, <1>3, Zenon
<1>5. runs'[k].job = runs[k].job
  BY <1>1, <1>2, <1>3, Zenon
<1>6. jobs' \in [RunKeys -> JobStatus] /\ jobs'[k] = end /\ \A l \in RunKeys : l # k => jobs'[l] = jobs[l]
  BY <1>1, <1>2, Zenon DEF JobStatus
<1>7. TypeOK'
  BY <1>4, <1>6, Zenon DEF IInv, TypeOK, JobEnds
<1>8. \A l \in RunKeys : /\ (jobs'[l] # "none") <=> runs'[l].job
                         /\ jobs'[l] = "active" => runs'[l].status # "succeeded"
  BY <1>4, <1>5, <1>6, ZenonT(40) DEF IInv, RowInv, JobEnds
<1>9. ASSUME tick.pc = "start", NEW l \in tick.launches, Least(l, tick.launches)
      PROVE  runs'[l].status = "queued" /\ jobs'[l] = "none"
  <2>1. tick \in Tick
    BY <1>9, Busy, Zenon DEF IInv
  <2>2. l \in RunKeys
    BY <2>1, TickParts, Zenon
  <2>3. runs[l].status = "queued" /\ jobs[l] = "none"
    BY <1>9, Zenon DEF IInv, RowInv
  <2>4. l # k
    BY <2>3, Zenon DEF JobEnds
  <2> QED
    BY <2>2, <2>3, <2>4, <1>4, <1>6, Zenon
<1>10. RowInv'
  BY <1>8, <1>9, Zenon DEF RowInv, JobEnds, Least
<1> QED
  BY <1>7, <1>10, RowsOnly, Zenon DEF JobEnds
-----------------------------------------------------------------------------
(* Steps of a tick                                                          *)

\* A step that changes nothing but the tick, and launches nothing new.
LEMMA TickOnly ==
  ASSUME IInv, TypeOK', TickInv', ConsumedInv', tick'.pc # "start",
         UNCHANGED <<occ, runs, jobs, at>>
  PROVE  IInv'
<1> USE DEF IInv
<1>1. LaunchInv'
  BY SameOcc, LaunchKept, Zenon
<1>2. OccurrenceInv'
  BY Zenon DEF OccurrenceInv, Accepted
<1>3. RowInv'
  BY Zenon DEF RowInv
<1> QED
  BY <1>1, <1>2, <1>3, Zenon

\* A tick begins with what is consumed now and nothing to launch.
LEMMA CaptureInv == ASSUME IInv, Capture PROVE IInv'
<1>1. now \in Minutes /\ mark \in Mark /\ cfg \in Cfg /\ missed \in SUBSET Minutes
      /\ Consumed \in SUBSET Policies /\ (mark.found => mark.rev = cfg.rev) \in BOOLEAN
  BY Zenon DEF IInv, TypeOK, Consumed
<1>2. 0 \in 0..MaxTime /\ now \in 0..MaxTime
  BY SizeAssumption, <1>1, MinuteFact
<1>3. tick' \in Tick
  BY <1>1, <1>2, Zenon DEF Capture, Tick
<1>4. TypeOK'
  BY <1>2, <1>3, Zenon DEF IInv, TypeOK, Capture
<1>5. tick'.pc = "next" /\ tick'.launches = {} /\ tick'.next = "next"
      /\ tick'.consumed = Consumed
  BY Zenon DEF Capture
<1>6. Consumed' = Consumed
  BY SameOcc, Zenon DEF Capture
<1>7. TickInv'
  BY <1>5, Zenon DEF TickInv, InSlot, Capture
<1>8. ConsumedInv'
  BY <1>5, <1>6, Zenon DEF ConsumedInv, InSlot
<1> QED
  BY <1>4, <1>5, <1>7, <1>8, TickOnly, Zenon DEF Capture

\* ProcessDueSlot begins: the tick is in slot t with the given view.
LEMMA BeginSlotFact ==
  ASSUME tick \in Tick, NEW t \in Minutes, NEW blocked \in BOOLEAN, NEW view \in Cfg,
         NEW used \in SUBSET Policies, NEW next \in {"next", "save"},
         BeginSlot(t, blocked, view, used, next)
  PROVE  /\ tick' \in Tick
         /\ tick'.pc \in {"accept", "plan"} /\ (tick'.pc = "accept" => tick'.accept # {})
         /\ tick'.slot = t /\ tick'.blocked = blocked /\ tick'.view = view
         /\ tick'.used = used /\ tick'.next = next /\ tick'.accept \cap used = {}
         /\ \A p \in tick'.accept : tick'.view.pol[p].on
         /\ tick'.now = tick.now /\ tick'.launches = tick.launches
         /\ tick'.snap = tick.snap /\ tick'.consumed = tick.consumed
<1> DEFINE accept == ToAccept(view, used, t)
           pc == IF accept = {} THEN "plan" ELSE "accept"
<1>1. accept \in SUBSET Policies /\ accept \cap used = {} /\ \A p \in accept : view.pol[p].on
  BY Zenon DEF ToAccept, Enabled
<1>2. pc \in {"accept", "plan"} /\ (pc = "accept" => accept # {})
  BY Zenon
<1>3. tick' = [tick EXCEPT !.pc = pc, !.slot = t, !.blocked = blocked, !.accept = accept,
                           !.view = view, !.used = used, !.next = next]
  BY Zenon DEF BeginSlot
<1>4. t \in 0..MaxTime
  BY MinuteFact, Zenon
<1> HIDE DEF accept, pc
<1>5. tick' \in Tick
  BY <1>1, <1>2, <1>3, <1>4, ZenonT(40) DEF Tick
<1> QED
  BY <1>1, <1>2, <1>3, <1>5 DEF Tick
\* A missed slot is a minute of a policy that was not consumed.
LEMMA MissedSlots ==
  ASSUME NEW ps \in LatestMissedScheduledSlots
  PROVE  ps[1] \in Policies /\ ps[1] \notin tick.consumed /\ ps[2] \in Minutes
         /\ tick.snap.pol[ps[1]].on
<1>1. ps \in Enabled(tick.snap, tick.consumed) \X Minutes
  BY Zenon DEF LatestMissedScheduledSlots
<1> QED
  BY <1>1, Zenon DEF Enabled

\* The next slot is a blocked or a missed minute, or the current one at the end.
LEMMA NextSlotFact ==
  ASSUME tick \in Tick, NextSlot
  PROVE  \/ \E t \in Minutes : BeginSlot(t, TRUE, tick.snap, tick.consumed, "next")
         \/ BeginSlot(tick.now, FALSE, cfg, Consumed, "save")
         \/ \E t \in Minutes, who \in SUBSET Policies :
              /\ tick' = [tick EXCEPT !.pc = "recover", !.slot = t, !.next = "next", !.accept = who]
              /\ who # {} /\ who \cap tick.consumed = {}
              /\ \A p \in who : tick.snap.pol[p].on
<1> DEFINE blocked == {t \in tick.pending : t <= tick.now /\ tick.known} \ tick.done
           missing == {ps \in LatestMissedScheduledSlots :
                         tick.mark.found /\ tick.known /\ ps[2] \notin tick.done}
           times == {ps[2] : ps \in missing}
           who(t) == {ps[1] : ps \in {q \in missing : q[2] = t}}
<1>1. \/ \E t \in blocked : BeginSlot(t, TRUE, tick.snap, tick.consumed, "next")
      \/ BeginSlot(tick.now, FALSE, cfg, Consumed, "save")
      \/ \E t \in times : tick' = [tick EXCEPT !.pc = "recover", !.slot = t, !.next = "next", !.accept = who(t)]
  BY Zenon DEF NextSlot
<1>2. blocked \in SUBSET Minutes
  BY TickParts, Zenon
<1>3. \A ps \in missing : ps[1] \in Policies /\ ps[1] \notin tick.consumed /\ ps[2] \in Minutes
                         /\ tick.snap.pol[ps[1]].on
  BY MissedSlots, Zenon
<1> HIDE DEF blocked, missing
<1>4. \A t \in times : /\ t \in Minutes /\ who(t) \in SUBSET Policies
                        /\ who(t) # {} /\ who(t) \cap tick.consumed = {}
                        /\ \A p \in who(t) : tick.snap.pol[p].on
  BY <1>3, Zenon
<1> HIDE DEF times, who
<1> QED
  BY <1>1, <1>2, <1>4, Zenon

\* Whichever slot is next, the tick is in it with nothing to launch.
LEMMA NextSlotInv == ASSUME IInv, NextSlot PROVE IInv'
<1>1. tick.pc = "next" /\ UNCHANGED <<now, up, maint, cfg, occ, runs, jobs, at, scopes, mark,
                                      missed, last, budget, crashes>>
  BY Zenon DEF NextSlot
<1>2. tick \in Tick /\ tick.pc # "idle"
  BY <1>1, Busy, Zenon DEF IInv
<1>3. up /\ tick.launches = {} /\ tick.next = "next"
      /\ \A p \in Consumed \ tick.consumed : tick.snap.pol[p].once
  BY <1>1, <1>2, Zenon DEF IInv, TickInv, ConsumedInv
<1>4. Consumed' = Consumed /\ Consumed \in SUBSET Policies
  BY <1>1, SameOcc, Zenon DEF Consumed
<1>5. SUFFICES tick' \in Tick /\ TickInv' /\ ConsumedInv' /\ tick'.pc # "start"
  <2>1. TypeOK'
    BY <1>1, <1>5, Zenon DEF IInv, TypeOK
  <2> QED
    BY <1>1, <1>5, <2>1, TickOnly, Zenon
<1>6. CASE \E t \in Minutes : BeginSlot(t, TRUE, tick.snap, tick.consumed, "next")
  <2>1. PICK t \in Minutes : BeginSlot(t, TRUE, tick.snap, tick.consumed, "next")
    BY <1>6, Zenon
  <2>2. tick.snap \in Cfg /\ tick.consumed \in SUBSET Policies
    BY <1>2, TickParts, Zenon
  <2>3. /\ tick' \in Tick
        /\ tick'.pc \in {"accept", "plan"} /\ (tick'.pc = "accept" => tick'.accept # {})
        /\ tick'.slot = t /\ tick'.blocked = TRUE /\ tick'.view = tick.snap
        /\ tick'.used = tick.consumed /\ tick'.next = "next" /\ tick'.accept \cap tick.consumed = {}
        /\ \A p \in tick'.accept : tick'.view.pol[p].on
        /\ tick'.now = tick.now /\ tick'.launches = tick.launches
        /\ tick'.snap = tick.snap /\ tick'.consumed = tick.consumed
    BY <1>2, <2>1, <2>2, BeginSlotFact, ZenonT(40)
  <2>4. TickInv'
    BY <1>1, <1>3, <2>3, Zenon DEF TickInv, InSlot
  <2>5. ConsumedInv'
    BY <1>3, <1>4, <2>3, Zenon DEF ConsumedInv, InSlot
  <2> QED
    BY <2>3, <2>4, <2>5, Zenon
<1>7. CASE BeginSlot(tick.now, FALSE, cfg, Consumed, "save")
  <2>2. cfg \in Cfg /\ tick.now \in Minutes
    BY <1>2, TickParts, Zenon DEF IInv, TypeOK
  <2>3. /\ tick' \in Tick
        /\ tick'.pc \in {"accept", "plan"} /\ (tick'.pc = "accept" => tick'.accept # {})
        /\ tick'.slot = tick.now /\ tick'.blocked = FALSE /\ tick'.view = cfg
        /\ tick'.used = Consumed /\ tick'.next = "save" /\ tick'.accept \cap Consumed = {}
        /\ \A p \in tick'.accept : tick'.view.pol[p].on
        /\ tick'.now = tick.now /\ tick'.launches = tick.launches
        /\ tick'.snap = tick.snap /\ tick'.consumed = tick.consumed
    BY <1>2, <1>4, <1>7, <2>2, BeginSlotFact, Zenon
  <2>4. TickInv'
    BY <1>1, <1>3, <2>2, <2>3, Zenon DEF TickInv, InSlot
  <2>5. ConsumedInv'
    BY <1>3, <1>4, <2>3, Zenon DEF ConsumedInv, InSlot
  <2> QED
    BY <2>3, <2>4, <2>5, Zenon
<1>8. CASE \E t \in Minutes, who \in SUBSET Policies :
             /\ tick' = [tick EXCEPT !.pc = "recover", !.slot = t, !.next = "next", !.accept = who]
             /\ who # {} /\ who \cap tick.consumed = {}
             /\ \A p \in who : tick.snap.pol[p].on
  <2>1. PICK t \in Minutes, who \in SUBSET Policies :
             /\ tick' = [tick EXCEPT !.pc = "recover", !.slot = t, !.next = "next", !.accept = who]
             /\ who # {} /\ who \cap tick.consumed = {}
             /\ \A p \in who : tick.snap.pol[p].on
    BY <1>8, Zenon
  <2>2. t \in 0..MaxTime
    BY MinuteFact, Zenon
  <2>3. tick' \in Tick
    BY <1>2, <2>1, <2>2, ZenonT(40) DEF Tick
  <2>4. /\ tick'.pc = "recover" /\ tick'.slot = t /\ tick'.next = "next" /\ tick'.accept = who
        /\ tick'.launches = tick.launches /\ tick'.snap = tick.snap /\ tick'.consumed = tick.consumed
    BY <1>2, <2>1, Zenon DEF Tick
  <2>5. TickInv'
    BY <1>1, <1>3, <2>1, <2>4, Zenon DEF TickInv, InSlot
  <2>6. ConsumedInv'
    BY <1>3, <1>4, <2>1, <2>4, Zenon DEF ConsumedInv, InSlot
  <2> QED
    BY <2>3, <2>4, <2>5, <2>6, Zenon
<1> QED
  BY <1>2, <1>6, <1>7, <1>8, NextSlotFact, Zenon
\* A manifest is accepted at a free key or not at all.
LEMMA Accepts ==
  ASSUME TypeOK, OccurrenceInv, NEW p \in Policies, NEW key \in Keys, NEW o \in Manifest,
         o.origin \in Minutes,
         \/ occ' = occ
         \/ ~Accepted(p, key) /\ occ' = [occ EXCEPT ![p][key] = o]
  PROVE  /\ occ' \in [Policies -> [Keys -> Manifest]]
         /\ OccKept /\ OccurrenceInv'
         /\ \A q \in Policies, j \in Keys : (q # p \/ j # key) => occ'[q][j] = occ[q][j]
         /\ \A q \in Consumed' : q \in Consumed \/ (q = p /\ key = OnceKey)
<1>1. occ \in [Policies -> [Keys -> Manifest]] /\ OnceKey \in Keys
  BY Zenon DEF TypeOK, Keys
<1>2. CASE occ' = occ
  <2>1. OccurrenceInv'
    BY <1>2, Zenon DEF OccurrenceInv, Accepted
  <2> QED
    BY <1>1, <1>2, <2>1, SameOcc, ZenonT(40)
<1>3. CASE ~Accepted(p, key) /\ occ' = [occ EXCEPT ![p][key] = o]
  <2>1. occ' \in [Policies -> [Keys -> Manifest]]
    BY <1>1, <1>3, Zenon
  <2>2. \A q \in Policies, j \in Keys : (q # p \/ j # key) => occ'[q][j] = occ[q][j]
    BY <1>1, <1>3, Zenon
  <2>3. occ'[p][key] = o
    BY <1>1, <1>3, Zenon
  <2>4. o.origin # 0
    BY MinuteFact, Zenon
  <2>5. OccKept
    BY <1>3, <2>2, Zenon DEF OccKept
  <2>6. OccurrenceInv'
    BY <2>2, <2>3, <2>4, ZenonT(40) DEF OccurrenceInv, Accepted
  <2>7. \A q \in Consumed' : q \in Consumed \/ (q = p /\ key = OnceKey)
    BY <1>1, <2>2, Zenon DEF Consumed, Accepted
  <2> QED
    BY <2>1, <2>2, <2>5, <2>6, <2>7, Zenon
<1> QED
  BY <1>2, <1>3, Zenon

\* The key of an occurrence tells a one-time policy.
LEMMA KeyFact ==
  ASSUME NEW policy, NEW t \in Minutes
  PROVE  /\ OccurrenceKey(policy, t) \in Keys
         /\ OccurrenceKey(policy, t) = OnceKey => policy.once
BY MinuteFact, Zenon DEF OccurrenceKey, Keys, OnceKey

\* A step of a tick that accepts an occurrence and launches nothing.
LEMMA AcceptOnly ==
  ASSUME IInv, tick' \in Tick, occ' \in [Policies -> [Keys -> Manifest]], OccKept,
         OccurrenceInv', TickInv', ConsumedInv', tick'.pc # "start", scopes' \subseteq Policies \X Minutes,
         UNCHANGED <<now, up, maint, cfg, runs, jobs, at, mark, missed, last, budget, crashes>>
  PROVE  IInv'
<1>1. TypeOK'
  BY Zenon DEF IInv, TypeOK
<1>2. LaunchInv'
  BY LaunchKept, ZenonT(40) DEF IInv
<1>3. RowInv'
  BY Zenon DEF IInv, RowInv
<1> QED
  BY <1>1, <1>2, <1>3, Zenon DEF IInv

\* A manifest of policy p as it is configured in policy, for the slot, is accepted
\* unless its key has one.
Admits(p, policy, o) ==
  /\ o \in Manifest /\ o.origin = tick.slot /\ Disjoint(o.batches)
  /\ ~policy.waves => Len(o.batches) <= 1
  /\ \/ occ' = occ
     \/ /\ ~Accepted(p, OccurrenceKey(policy, tick.slot))
        /\ occ' = [occ EXCEPT ![p][OccurrenceKey(policy, tick.slot)] = o]

\* What schedulePlans accepts, and what it leaves alone.
LEMMA AcceptNextFact ==
  ASSUME IInv, AcceptNext
  PROVE  /\ tick \in Tick /\ tick.pc = "accept" /\ tick.slot \in Minutes
         /\ tick' \in Tick /\ tick'.pc \in {"accept", "plan"}
         /\ tick'.pc = "accept" => tick'.accept # {}
         /\ tick'.accept \subseteq tick.accept
         /\ tick'.slot = tick.slot /\ tick'.blocked = tick.blocked
         /\ tick'.view = tick.view /\ tick'.used = tick.used /\ tick'.next = tick.next
         /\ tick'.now = tick.now /\ tick'.launches = tick.launches
         /\ tick'.snap = tick.snap /\ tick'.consumed = tick.consumed
         /\ UNCHANGED <<now, up, maint, cfg, runs, jobs, at, scopes, mark, missed, last, budget, crashes>>
         /\ \E p \in tick.accept : \E o \in Manifest : Admits(p, tick.view.pol[p], o)
<1>0. PICK p \in tick.accept : Accept(p)
  BY Zenon DEF AcceptNext
<1> DEFINE key == OccurrenceKey(tick.view.pol[p], tick.slot)
           seen == \E other \in Keys \ {key} :
                     ~occ[p][other].closed /\ occ[p][other].origin = tick.slot
           o == NewOccurrence(tick.view.pol[p], tick.slot, tick.view.off)
<1>4. o.origin = tick.slot
  BY Zenon DEF NewOccurrence
<1>1. /\ tick.pc = "accept"
      /\ occ' = [occ EXCEPT ![p][key] = IF Accepted(p, key) THEN @ ELSE o]
      /\ tick' = [tick EXCEPT !.accept = @ \ {p},
                    !.pc = IF tick.accept = {p} THEN "plan" ELSE @,
                    !.hidden = IF seen THEN @ \cup {<<p, key>>} ELSE @]
      /\ UNCHANGED <<now, up, maint, cfg, runs, jobs, at, scopes, mark, missed, last, budget, crashes>>
  BY <1>0, <1>4, Zenon DEF AcceptNext, Accept, AcceptOccurrence
<1>2. tick \in Tick /\ tick.pc # "idle"
  BY <1>1, Busy, Zenon DEF IInv
<1>3. tick.slot \in Minutes /\ p \in Policies
  BY <1>1, <1>2, TickParts, ZenonT(40) DEF IInv, TickInv
<1>5. tick.view.pol[p] \in Policy(Servers, Minutes) /\ tick.view.off \in SUBSET Servers
  BY <1>2, <1>3, TickParts, CfgParts, Zenon
<1>6. /\ o \in Manifest /\ o.origin = tick.slot /\ Disjoint(o.batches)
      /\ ~tick.view.pol[p].waves => Len(o.batches) <= 1
  BY <1>3, <1>5, NewOccurrenceFact, ZenonT(40)
<1>7. key \in Keys
  BY <1>3, KeyFact, Zenon
<1> HIDE DEF key, seen, o
<1>8. occ' = occ \/ (~Accepted(p, key) /\ occ' = [occ EXCEPT ![p][key] = o])
  <2>1. occ \in [Policies -> [Keys -> Manifest]]
    BY Zenon DEF IInv, TypeOK
  <2> QED
    BY <1>1, <1>3, <1>7, <2>1, Zenon
<1>9. Admits(p, tick.view.pol[p], o)
  BY <1>6, <1>8, Zenon DEF Admits, key
<1> DEFINE pc == IF tick.accept = {p} THEN "plan" ELSE tick.pc
           hidden == IF seen THEN tick.hidden \cup {<<p, key>>} ELSE tick.hidden
           left == tick.accept \ {p}
<1>10. pc \in {"accept", "plan"} /\ (pc = "accept" => left # {}) /\ left \subseteq tick.accept
  BY <1>1, Zenon
<1>11. hidden \in SUBSET (Policies \X Keys) /\ left \in SUBSET Policies
  BY <1>2, <1>3, <1>7, TickParts
<1>12. tick' = [tick EXCEPT !.accept = left, !.pc = pc, !.hidden = hidden]
  BY <1>1, Zenon
<1> HIDE DEF pc, hidden, left
<1>13. tick' \in Tick
  BY <1>2, <1>10, <1>11, <1>12, ZenonT(40) DEF Tick
<1>14. /\ tick'.pc = pc /\ tick'.accept = left /\ tick'.slot = tick.slot /\ tick'.blocked = tick.blocked
       /\ tick'.view = tick.view /\ tick'.used = tick.used /\ tick'.next = tick.next
       /\ tick'.now = tick.now /\ tick'.launches = tick.launches
       /\ tick'.snap = tick.snap /\ tick'.consumed = tick.consumed
  BY <1>2, <1>12, Zenon DEF Tick
<1>15. \E q \in tick.accept : \E m \in Manifest : Admits(q, tick.view.pol[q], m)
  BY <1>6, <1>9, Zenon
<1> QED
  BY <1>1, <1>2, <1>3, <1>10, <1>13, <1>14, <1>15, Zenon

\* What is admitted is accepted at a key of its own, or was.
LEMMA AdmitsFact ==
  ASSUME IInv, tick.slot \in Minutes, NEW p \in Policies, NEW policy, NEW o \in Manifest,
         Admits(p, policy, o)
  PROVE  /\ occ' \in [Policies -> [Keys -> Manifest]] /\ OccKept /\ OccurrenceInv'
         /\ \A q \in Policies, j \in Keys :
              (q # p \/ j # OccurrenceKey(policy, tick.slot)) => occ'[q][j] = occ[q][j]
         /\ \A q \in Consumed' : q \in Consumed \/ (q = p /\ policy.once)
<1>1. /\ OccurrenceKey(policy, tick.slot) \in Keys
      /\ OccurrenceKey(policy, tick.slot) = OnceKey => policy.once
  BY KeyFact, Zenon
<1>2. o.origin \in Minutes
  BY Zenon DEF Admits
<1>3. \/ occ' = occ
      \/ /\ ~Accepted(p, OccurrenceKey(policy, tick.slot))
         /\ occ' = [occ EXCEPT ![p][OccurrenceKey(policy, tick.slot)] = o]
  BY Zenon DEF Admits
<1> HIDE DEF Admits
<1> DEFINE key == OccurrenceKey(policy, tick.slot)
<1> HIDE DEF key
<1>4. /\ occ' \in [Policies -> [Keys -> Manifest]] /\ OccKept /\ OccurrenceInv'
      /\ \A q \in Policies, j \in Keys : (q # p \/ j # key) => occ'[q][j] = occ[q][j]
      /\ \A q \in Consumed' : q \in Consumed \/ (q = p /\ key = OnceKey)
  <2>1. key \in Keys
    BY <1>1, Zenon DEF key
  <2>2. occ' = occ \/ (~Accepted(p, key) /\ occ' = [occ EXCEPT ![p][key] = o])
    BY <1>3, Zenon DEF key
  <2> QED
    BY <1>2, <2>1, <2>2, Accepts, Zenon DEF IInv
<1> QED
  BY <1>1, <1>4, Zenon DEF key

\* schedulePlans accepts an occurrence.
LEMMA AcceptNextInv == ASSUME IInv, AcceptNext PROVE IInv'
<1>1. /\ tick \in Tick /\ tick.pc = "accept" /\ tick.slot \in Minutes
      /\ tick' \in Tick /\ tick'.pc \in {"accept", "plan"}
      /\ tick'.pc = "accept" => tick'.accept # {}
      /\ tick'.accept \subseteq tick.accept
      /\ tick'.slot = tick.slot /\ tick'.blocked = tick.blocked
      /\ tick'.view = tick.view /\ tick'.used = tick.used /\ tick'.next = tick.next
      /\ tick'.now = tick.now /\ tick'.launches = tick.launches
      /\ tick'.snap = tick.snap /\ tick'.consumed = tick.consumed
      /\ UNCHANGED <<now, up, maint, cfg, runs, jobs, at, scopes, mark, missed, last, budget, crashes>>
  BY AcceptNextFact, Zenon
<1>2. PICK p \in tick.accept, o \in Manifest : Admits(p, tick.view.pol[p], o)
  BY AcceptNextFact, Zenon
<1>3. p \in Policies
  BY <1>1, TickParts, Zenon
<1>4. /\ occ' \in [Policies -> [Keys -> Manifest]] /\ OccKept /\ OccurrenceInv'
      /\ \A q \in Consumed' : q \in Consumed \/ (q = p /\ tick.view.pol[p].once)
  BY <1>1, <1>2, <1>3, AdmitsFact, ZenonT(40)
<1>5. tick.launches = {} /\ up /\ (~tick.blocked => tick.slot = tick.now /\ tick.next = "save")
      /\ \A q \in tick.accept : tick.view.pol[q].on
  BY <1>1, Zenon DEF IInv, TickInv, InSlot
<1>6. TickInv'
  BY <1>1, <1>5, Zenon DEF TickInv, InSlot
<1>7. (tick.next = "next" => tick.view = tick.snap /\ tick.used = tick.consumed)
      /\ (\A q \in Consumed \ tick.used : tick.view.pol[q].once) /\ tick.accept \cap tick.used = {}
  BY <1>1, ZenonT(40) DEF IInv, ConsumedInv, InSlot
<1>8. \A q \in Consumed' \ tick.used : tick.view.pol[q].once
  BY <1>4, <1>7, Zenon
<1>9. ConsumedInv'
  BY <1>1, <1>5, <1>7, <1>8, ZenonT(40) DEF ConsumedInv, InSlot
<1> QED
  BY <1>1, <1>4, <1>6, <1>9, AcceptOnly, Zenon DEF IInv, TypeOK

\* What the recovery of a missed slot accepts, and what it leaves alone.
LEMMA RecoverNextFact ==
  ASSUME IInv, RecoverNext
  PROVE  /\ tick \in Tick /\ tick.pc = "recover" /\ tick.slot \in Minutes
         /\ tick' \in Tick /\ tick'.pc \in {"recover", "skip"}
         /\ tick'.pc = "recover" => tick'.accept # {}
         /\ tick'.accept \subseteq tick.accept
         /\ tick'.slot = tick.slot /\ tick'.view = tick.view
         /\ tick'.next = tick.next /\ tick'.launches = tick.launches
         /\ tick'.snap = tick.snap /\ tick'.consumed = tick.consumed
         /\ scopes' \subseteq Policies \X Minutes
         /\ UNCHANGED <<now, up, maint, cfg, runs, jobs, at, mark, missed, last, budget, crashes>>
         /\ \E p \in tick.accept : \E o \in Manifest : Admits(p, tick.snap.pol[p], o)
<1>0. /\ tick.pc = "recover"
      /\ UNCHANGED <<now, up, maint, cfg, runs, jobs, at, mark, missed, last, budget, crashes>>
  BY Zenon DEF RecoverNext
<1>4. PICK p \in tick.accept : Recover(p)
  BY Zenon DEF RecoverNext
<1> DEFINE policy == tick.snap.pol[p]
           o == NewOccurrence(policy, tick.slot, tick.snap.off)
           missed1 == [o EXCEPT !.block = IF @ = "" THEN "scheduler_missed" ELSE @]
           key == OccurrenceKey(policy, tick.slot)
           held == IF Accepted(p, key) THEN occ[p][key] ELSE o
           stale == Managed(policy) /\ (held.origin # tick.slot \/ held.closed)
           rows == {s \in Servers : runs[<<p, tick.slot, s>>] # NoRow}
           scope == <<p, tick.slot>>
           owned == ~policy.waves \/ rows = {} \/ scope \in scopes
           targets == Matched(policy, tick.snap.off) \ rows
           skips == IF ~stale /\ owned
                    THEN tick.skips \cup {<<p, tick.slot, s>> : s \in targets} ELSE tick.skips
<1>1. /\ occ' = IF Managed(policy) /\ ~Accepted(p, key)
                THEN [occ EXCEPT ![p][key] = missed1] ELSE occ
      /\ scopes' = IF policy.waves /\ ~stale /\ owned THEN scopes \cup {scope} ELSE scopes
      /\ tick' = [tick EXCEPT !.accept = @ \ {p},
                    !.pc = IF tick.accept = {p} THEN "skip" ELSE @,
                    !.skips = skips]
  BY <1>4, Zenon DEF Recover
<1>2. tick \in Tick /\ tick.pc # "idle"
  BY <1>0, Busy, Zenon DEF IInv
<1>3. p \in Policies /\ tick.slot \in Minutes /\ tick.launches = {} /\ up
  BY <1>0, <1>2, TickParts, ZenonT(40) DEF IInv, TickInv
<1>5. policy \in Policy(Servers, Minutes) /\ tick.snap.off \in SUBSET Servers
  BY <1>2, <1>3, TickParts, CfgParts, Zenon
<1>6. /\ o \in Manifest /\ o.origin = tick.slot /\ Disjoint(o.batches)
      /\ ~policy.waves => Len(o.batches) <= 1
  BY <1>3, <1>5, NewOccurrenceFact, ZenonT(40)
<1>7. key \in Keys
  BY <1>3, KeyFact, Zenon
<1>8. targets \in SUBSET Servers
  BY <1>5, PolicyParts, Zenon DEF Matched
<1>9. {<<p, tick.slot, s>> : s \in targets} \in SUBSET RunKeys
  BY <1>3, <1>8, KeysOf, ZenonT(40)
<1>10. skips \in SUBSET RunKeys
  BY <1>2, <1>9, TickParts, Zenon
<1> HIDE DEF o
<1>11. missed1 \in Manifest /\ missed1.origin = tick.slot /\ missed1.batches = o.batches
  <2> DEFINE block == IF o.block = "" THEN "scheduler_missed" ELSE o.block
  <2>1. o.block \in {"", "no_match", "canary_unavailable", "scheduler_missed"}
    BY <1>6, Zenon DEF Manifest
  <2>2. block \in {"", "no_match", "canary_unavailable", "scheduler_missed"}
    BY <2>1, Zenon
  <2>3. missed1 = [o EXCEPT !.block = block]
    BY Zenon
  <2> HIDE DEF block, missed1
  <2> QED
    BY <1>6, <2>2, <2>3, Zenon DEF Manifest
<1>12. scopes' \subseteq Policies \X Minutes
  <2>1. scope \in Policies \X Minutes
    BY <1>3, Zenon
  <2> QED
    BY <1>1, <2>1, Zenon DEF IInv, TypeOK
<1> HIDE DEF policy, missed1, key, held, stale, rows, owned, targets, skips
<1>13. occ' = occ \/ (~Accepted(p, key) /\ occ' = [occ EXCEPT ![p][key] = missed1])
  BY <1>1, Zenon
<1>14. Admits(p, policy, missed1)
  <2>1. Disjoint(missed1.batches) /\ (~policy.waves => Len(missed1.batches) <= 1)
    BY <1>6, <1>11, Zenon
  <2> QED
    BY <1>11, <1>13, <2>1, ZenonT(40) DEF Admits, key
<1> DEFINE pc == IF tick.accept = {p} THEN "skip" ELSE tick.pc
           left == tick.accept \ {p}
<1>15. pc \in {"recover", "skip"} /\ (pc = "recover" => left # {}) /\ left \subseteq tick.accept
  BY <1>0, Zenon
<1>16. left \in SUBSET Policies
  BY <1>2, TickParts, ZenonT(40)
<1>17. tick' = [tick EXCEPT !.accept = left, !.pc = pc, !.skips = skips]
  BY <1>1, Zenon
<1> HIDE DEF pc, left
<1>18. tick' \in Tick
  BY <1>2, <1>10, <1>15, <1>16, <1>17, ZenonT(40) DEF Tick
<1>19. /\ tick'.pc = pc /\ tick'.accept = left /\ tick'.slot = tick.slot /\ tick'.view = tick.view
       /\ tick'.next = tick.next /\ tick'.launches = tick.launches
       /\ tick'.snap = tick.snap /\ tick'.consumed = tick.consumed
  BY <1>2, <1>17, Zenon DEF Tick
<1>20. \E q \in tick.accept : \E m \in Manifest : Admits(q, tick.snap.pol[q], m)
  BY <1>11, <1>14, Zenon DEF policy
<1> QED
  BY <1>0, <1>2, <1>3, <1>12, <1>15, <1>18, <1>19, <1>20, Zenon

\* A missed occurrence is recorded, never launched.
LEMMA RecoverNextInv == ASSUME IInv, RecoverNext PROVE IInv'
<1>1. /\ tick \in Tick /\ tick.pc = "recover" /\ tick.slot \in Minutes
      /\ tick' \in Tick /\ tick'.pc \in {"recover", "skip"}
      /\ tick'.pc = "recover" => tick'.accept # {}
      /\ tick'.accept \subseteq tick.accept
      /\ tick'.slot = tick.slot /\ tick'.view = tick.view
      /\ tick'.next = tick.next /\ tick'.launches = tick.launches
      /\ tick'.snap = tick.snap /\ tick'.consumed = tick.consumed
      /\ scopes' \subseteq Policies \X Minutes
      /\ UNCHANGED <<now, up, maint, cfg, runs, jobs, at, mark, missed, last, budget, crashes>>
  BY RecoverNextFact, Zenon
<1>2. PICK p \in tick.accept, o \in Manifest : Admits(p, tick.snap.pol[p], o)
  BY RecoverNextFact, Zenon
<1>3. p \in Policies
  BY <1>1, TickParts, ZenonT(40)
<1>4. /\ occ' \in [Policies -> [Keys -> Manifest]] /\ OccKept /\ OccurrenceInv'
      /\ \A q \in Consumed' : q \in Consumed \/ (q = p /\ tick.snap.pol[p].once)
  BY <1>1, <1>2, <1>3, AdmitsFact, Zenon
<1>5. tick.launches = {} /\ up /\ \A q \in tick.accept : tick.snap.pol[q].on
  BY <1>1, Zenon DEF IInv, TickInv
<1>6. TickInv'
  BY <1>1, <1>5, Zenon DEF TickInv, InSlot
<1>7. tick.next = "next" /\ (\A q \in Consumed \ tick.consumed : tick.snap.pol[q].once)
      /\ tick.accept \cap tick.consumed = {}
  BY <1>1, Zenon DEF IInv, ConsumedInv
<1>8. \A q \in Consumed' \ tick.consumed : tick.snap.pol[q].once
  BY <1>4, <1>7, Zenon
<1>9. ConsumedInv'
  BY <1>1, <1>5, <1>7, <1>8, Zenon DEF ConsumedInv, InSlot
<1> QED
  BY <1>1, <1>4, <1>6, <1>9, AcceptOnly, Zenon

-----------------------------------------------------------------------------
(* The dispatch                                                             *)

\* What a plan is: an open manifest up to the slot, or an immediate policy due at it.
LEMMA PlanFact ==
  ASSUME TypeOK, OccurrenceInv, tick \in Tick, tick.slot \in Minutes, NEW plan \in Plans
  PROVE  /\ plan.policy \in Policies /\ plan.o \in Manifest /\ plan.o.origin \in Minutes
         /\ \/ /\ plan.key \in Keys /\ plan.key # -1 /\ Accepted(plan.policy, plan.key)
               /\ plan.o = occ[plan.policy][plan.key] /\ plan.o.origin <= tick.slot
            \/ /\ plan.key = -1 /\ plan.o.origin = tick.slot
               /\ plan.policy \notin tick.used /\ ~Managed(tick.view.pol[plan.policy])
               /\ tick.view.pol[plan.policy].on
<1> DEFINE open == {q \in (Policies \X Keys) \ tick.hidden :
                      ~occ[q[1]][q[2]].closed /\ occ[q[1]][q[2]].origin <= tick.slot}
           immediate == {q \in Enabled(tick.view, tick.used) :
                           ~Managed(tick.view.pol[q]) /\ tick.slot \in tick.view.pol[q].due}
<1>1. \/ \E pk \in open : plan = [policy |-> pk[1], key |-> pk[2], o |-> occ[pk[1]][pk[2]]]
      \/ \E p \in immediate :
           plan = [policy |-> p, key |-> -1,
                   o |-> NewOccurrence(tick.view.pol[p], tick.slot, tick.view.off)]
  BY Zenon DEF Plans
<1>2. CASE \E pk \in open : plan = [policy |-> pk[1], key |-> pk[2], o |-> occ[pk[1]][pk[2]]]
  <2>1. PICK pk \in open : plan = [policy |-> pk[1], key |-> pk[2], o |-> occ[pk[1]][pk[2]]]
    BY <1>2, Zenon
  <2>2. pk[1] \in Policies /\ pk[2] \in Keys
    BY Zenon
  <2>3. ~occ[pk[1]][pk[2]].closed /\ occ[pk[1]][pk[2]].origin <= tick.slot
    BY Zenon
  <2>4. occ[pk[1]][pk[2]] \in Manifest /\ occ[pk[1]][pk[2]].origin \in 0..MaxTime
    BY <2>2, OccParts, Zenon
  <2>5. Accepted(pk[1], pk[2])
    BY <2>2, <2>3, Zenon DEF OccurrenceInv
  <2>6. occ[pk[1]][pk[2]].origin \in Minutes
    BY <2>4, <2>5, SizeAssumption DEF Accepted, Minutes
  <2>7. pk[2] # -1
    BY <2>2, SizeAssumption DEF Keys, OnceKey, Minutes
  <2>8. plan.policy = pk[1] /\ plan.key = pk[2] /\ plan.o = occ[pk[1]][pk[2]]
    BY <2>1, Zenon
  <2> QED
    BY <2>2, <2>3, <2>4, <2>5, <2>6, <2>7, <2>8, Zenon
<1>3. CASE \E p \in immediate :
             plan = [policy |-> p, key |-> -1,
                     o |-> NewOccurrence(tick.view.pol[p], tick.slot, tick.view.off)]
  <2>1. PICK p \in immediate :
          plan = [policy |-> p, key |-> -1,
                  o |-> NewOccurrence(tick.view.pol[p], tick.slot, tick.view.off)]
    BY <1>3, Zenon
  <2>2. p \in Policies /\ p \notin tick.used /\ ~Managed(tick.view.pol[p]) /\ tick.view.pol[p].on
    BY Zenon DEF Enabled
  <2>3. tick.view.pol[p] \in Policy(Servers, Minutes) /\ tick.view.off \in SUBSET Servers
    BY <2>2, TickParts, CfgParts, Zenon
  <2>4. plan.policy = p /\ plan.key = -1
        /\ plan.o = NewOccurrence(tick.view.pol[p], tick.slot, tick.view.off)
    BY <2>1, Zenon
  <2>5. plan.o \in Manifest /\ plan.o.origin = tick.slot
    BY <2>3, <2>4, NewOccurrenceFact
  <2> QED
    BY <2>2, <2>4, <2>5, Zenon
<1> QED
  BY <1>1, <1>2, <1>3, Zenon

\* ReconcileRun keeps the job of a row, and a row that ended well or has a job at work.
LEMMA ReconciledFact ==
  ASSUME TypeOK, RowInv, NEW k \in RunKeys
  PROVE  /\ Reconciled(k) \in Row /\ Reconciled(k).job = runs[k].job
         /\ runs[k].status = "succeeded" => Reconciled(k) = runs[k]
         /\ jobs[k] = "active" => Reconciled(k) = runs[k]
         /\ runs[k].status = "queued" /\ jobs[k] = "none" => Reconciled(k) = runs[k]
<1>1. runs[k] \in Row /\ jobs[k] \in JobStatus /\ ((jobs[k] # "none") <=> runs[k].job)
  BY Zenon DEF TypeOK, RowInv
<1>2. CASE runs[k].job /\ Open(runs[k]) /\ jobs[k] # "active"
  <2>1. jobs[k] \in {"succeeded", "failed", "interrupted"}
    BY <1>1, <1>2, Zenon DEF JobStatus
  <2>2. Reconciled(k) = [runs[k] EXCEPT !.status = jobs[k], !.reason = "job"]
    BY <1>2, Zenon DEF Reconciled
  <2>3. Reconciled(k) \in Row /\ Reconciled(k).job = runs[k].job
    BY <1>1, <2>1, <2>2, Zenon DEF Row, TerminalRun, Reasons
  <2>4. runs[k].status # "succeeded"
    BY <1>2, Zenon DEF Open, RestartInterrupted, ActiveRun
  <2> QED
    BY <1>1, <1>2, <2>3, <2>4, Zenon
<1>3. CASE ~(runs[k].job /\ Open(runs[k]) /\ jobs[k] # "active")
  <2>1. Reconciled(k) = runs[k]
    BY <1>3, Zenon DEF Reconciled
  <2> QED
    BY <1>1, <2>1, Zenon
<1> QED
  BY <1>2, <1>3, Zenon

\* The rows a plan's gates look at.
RowsOf(plan) == [s \in Servers |-> Reconciled(<<plan.policy, plan.o.origin, s>>)]

\* What a key to launch was decided by.
DecidedBy(k, plan, i) ==
  /\ i \in DOMAIN plan.o.batches /\ k[3] \in plan.o.batches[i].servers /\ k[3] \in Servers
  /\ k = <<plan.policy, plan.o.origin, k[3]>>
  /\ ~tick.blocked /\ ~Late(plan, i)
  /\ BatchGate(plan.o.batches, i, RowsOf(plan)) \notin {"waiting", "failed"}

\* The occurrences a dispatch looks at.
Scanned == {<<plan.policy, plan.o.origin>> : plan \in Plans}
\* A dispatch: rows are reconciled, manifests closed, and every key to launch was
\* decided by a plan of the current minute.
LEMMA DispatchFact ==
  ASSUME IInv, Dispatch
  PROVE  /\ tick \in Tick /\ tick.pc = "plan" /\ tick.slot \in Minutes
         /\ UNCHANGED <<now, up, maint, cfg, jobs, at, scopes, mark, missed, last, budget, crashes>>
         /\ runs' = [k \in RunKeys |-> IF <<k[1], k[2]>> \in Scanned THEN Reconciled(k) ELSE runs[k]]
         /\ \E closing \in SUBSET (Policies \X Keys) :
              occ' = [p \in Policies |-> [key \in Keys |->
                        IF <<p, key>> \in closing
                        THEN [occ[p][key] EXCEPT !.closed = TRUE] ELSE occ[p][key]]]
         /\ \E skips, launches \in SUBSET RunKeys :
              /\ tick' = [tick EXCEPT !.pc = "skip", !.skips = skips, !.launches = launches]
              /\ \A k \in launches : \E plan \in Plans : \E i \in Nat : DecidedBy(k, plan, i)
<1> DEFINE Key(d) == <<d.plan.policy, d.plan.o.origin, d.server>>
           decided == {d \in [plan : Plans, batch : 1..Cardinality(Servers), server : Servers] :
                         /\ d.batch \in DOMAIN d.plan.o.batches
                         /\ d.server \in Decided(d.plan, d.batch, RowsOf(d.plan))}
           skipped == {d \in decided : Skips(d.plan, d.batch, d.server, RowsOf(d.plan))}
           Bid(d) == [policy |-> d.plan.policy, rank |-> d.plan.o.rank, origin |-> d.plan.o.origin]
           beaten == {d \in decided \ skipped :
                        \E e \in decided \ skipped :
                           e.server = d.server /\ Beats(Bid(e), Bid(d))}
           complete == {plan \in Plans : plan.key # -1 /\
                          \A s \in Members(plan.o.batches) :
                             RowsOf(plan)[s].status \in TerminalRun}
           skips == {Key(d) : d \in skipped \cup beaten}
           launches == {Key(d) : d \in (decided \ skipped) \ beaten}
           closing == {pk \in Policies \X Keys :
                         \E plan \in complete : plan.policy = pk[1] /\ plan.key = pk[2]}
<1>1. /\ tick.pc = "plan"
      /\ runs' = [k \in RunKeys |-> IF <<k[1], k[2]>> \in Scanned THEN Reconciled(k) ELSE runs[k]]
      /\ occ' = [p \in Policies |-> [key \in Keys |->
                      IF \E plan \in complete : plan.policy = p /\ plan.key = key
                      THEN [occ[p][key] EXCEPT !.closed = TRUE] ELSE occ[p][key]]]
      /\ tick' = [tick EXCEPT !.pc = "skip", !.skips = skips, !.launches = launches]
      /\ UNCHANGED <<now, up, maint, cfg, jobs, at, scopes, mark, missed, last, budget, crashes>>
  BY Zenon DEF Dispatch, RowsOf, Scanned
<1>2. tick \in Tick /\ tick.slot \in Minutes
  BY <1>1, Busy, Zenon DEF IInv, TickInv
<1>3. \A d \in decided : d.plan \in Plans /\ d.batch \in Nat /\ d.server \in Servers
  OBVIOUS
<1>4. \A d \in decided : Key(d) \in RunKeys
  <2> TAKE d \in decided
  <2>1. d.plan.policy \in Policies /\ d.plan.o.origin \in Minutes /\ d.server \in Servers
    BY <1>2, <1>3, PlanFact, ZenonT(40) DEF IInv
  <2> QED
    BY <2>1, Zenon DEF RunKeys
<1>5. skips \in SUBSET RunKeys /\ launches \in SUBSET RunKeys
  BY <1>4, Zenon
<1>6. ASSUME NEW k \in launches
      PROVE  \E plan \in Plans : \E i \in Nat : DecidedBy(k, plan, i)
  <2>1. PICK d \in (decided \ skipped) \ beaten : k = Key(d)
    BY <1>6, Zenon
  <2>2. k[3] = d.server /\ k = <<d.plan.policy, d.plan.o.origin, k[3]>>
    BY <2>1, Zenon
  <2>3. d.batch \in DOMAIN d.plan.o.batches /\ d.server \in Decided(d.plan, d.batch, RowsOf(d.plan))
        /\ ~Skips(d.plan, d.batch, d.server, RowsOf(d.plan))
    BY Zenon
  <2>4. d.server \in d.plan.o.batches[d.batch].servers
        /\ BatchGate(d.plan.o.batches, d.batch, RowsOf(d.plan)) # "waiting"
    BY <2>3, ZenonT(40) DEF Decided
  <2>5. ~tick.blocked /\ ~Late(d.plan, d.batch)
        /\ BatchGate(d.plan.o.batches, d.batch, RowsOf(d.plan)) # "failed"
    BY <2>3, ZenonT(40) DEF Skips
  <2>6. DecidedBy(k, d.plan, d.batch)
    BY <1>3, <2>2, <2>3, <2>4, <2>5, Zenon DEF DecidedBy
  <2> QED
    BY <1>3, <2>6, Zenon
<1>7. occ' = [p \in Policies |-> [key \in Keys |->
                IF <<p, key>> \in closing
                THEN [occ[p][key] EXCEPT !.closed = TRUE] ELSE occ[p][key]]]
  <2>1. \A p \in Policies, key \in Keys :
          (\E plan \in complete : plan.policy = p /\ plan.key = key) <=> <<p, key>> \in closing
    BY Zenon
  <2> HIDE DEF closing, complete
  <2> QED
    BY <1>1, <2>1
<1>8. closing \in SUBSET (Policies \X Keys)
  BY Zenon
<1> HIDE DEF decided, skipped, beaten, complete, skips, launches, closing
<1> QED
  BY <1>1, <1>2, <1>5, <1>6, <1>7, <1>8, Zenon
\* Closing a manifest leaves the rest of it alone.
LEMMA ClosingFact ==
  ASSUME TypeOK, OccurrenceInv, NEW closing \in SUBSET (Policies \X Keys),
         occ' = [p \in Policies |-> [key \in Keys |->
                   IF <<p, key>> \in closing
                   THEN [occ[p][key] EXCEPT !.closed = TRUE] ELSE occ[p][key]]]
  PROVE  /\ occ' \in [Policies -> [Keys -> Manifest]]
         /\ \A p \in Policies, key \in Keys :
              /\ occ'[p][key].origin = occ[p][key].origin
              /\ occ'[p][key].batches = occ[p][key].batches
         /\ OccKept /\ OccurrenceInv' /\ Consumed' = Consumed
<1>1. \A p \in Policies, key \in Keys :
        /\ occ'[p][key] \in Manifest
        /\ occ'[p][key].origin = occ[p][key].origin
        /\ occ'[p][key].batches = occ[p][key].batches
        /\ occ[p][key].closed => occ'[p][key].closed
  <2> TAKE p \in Policies, key \in Keys
  <2>1. occ'[p][key] = IF <<p, key>> \in closing
                       THEN [occ[p][key] EXCEPT !.closed = TRUE] ELSE occ[p][key]
    BY Zenon
  <2>2. occ[p][key] \in Manifest
    BY OccParts, Zenon
  <2>3. CASE <<p, key>> \in closing
    <3>1. occ'[p][key] = [occ[p][key] EXCEPT !.closed = TRUE]
      BY <2>1, <2>3, Zenon
    <3> QED
      BY <2>2, <3>1, Zenon DEF Manifest
  <2>4. CASE <<p, key>> \notin closing
    BY <2>1, <2>2, <2>4, Zenon
  <2> QED
    BY <2>3, <2>4, Zenon
<1>2. occ' \in [Policies -> [Keys -> Manifest]]
  BY <1>1, Zenon
<1>3. OnceKey \in Keys
  BY Zenon DEF Keys
<1>4. OccKept /\ Consumed' = Consumed
  BY <1>1, <1>3, Zenon DEF OccKept, Accepted, Consumed
<1>5. OccurrenceInv'
  BY <1>1 DEF OccurrenceInv, Accepted
<1> QED
  BY <1>1, <1>2, <1>4, <1>5, Zenon

\* The rows after a dispatch.
LEMMA ReconciledRows ==
  ASSUME TypeOK, RowInv, jobs' = jobs,
         runs' = [k \in RunKeys |-> IF <<k[1], k[2]>> \in Scanned THEN Reconciled(k) ELSE runs[k]]
  PROVE  /\ runs' \in [RunKeys -> Row]
         /\ \A k \in RunKeys : runs[k].status = "succeeded" => runs'[k] = runs[k]
         /\ \A k \in RunKeys : /\ (jobs'[k] # "none") <=> runs'[k].job
                               /\ jobs'[k] = "active" => runs'[k].status # "succeeded"
<1>1. \A k \in RunKeys : runs[k] \in Row
  BY Zenon DEF TypeOK
<1>2. \A k \in RunKeys : runs'[k] = Reconciled(k) \/ runs'[k] = runs[k]
  BY Zenon
<1>3. runs' \in [RunKeys -> Row]
  BY <1>1, ReconciledFact, Zenon
<1>4. \A k \in RunKeys : /\ runs'[k].job = runs[k].job
                         /\ runs[k].status = "succeeded" => runs'[k] = runs[k]
                         /\ jobs[k] = "active" => runs'[k] = runs[k]
  BY <1>2, ReconciledFact, Zenon
<1> QED
  BY <1>3, <1>4, Zenon DEF RowInv

\* A dispatch decides only what is eligible in this minute.
LEMMA DispatchInv == ASSUME IInv, Dispatch PROVE IInv'
<1>1. /\ tick \in Tick /\ tick.pc = "plan" /\ tick.slot \in Minutes
      /\ UNCHANGED <<now, up, maint, cfg, jobs, at, scopes, mark, missed, last, budget, crashes>>
      /\ runs' = [k \in RunKeys |-> IF <<k[1], k[2]>> \in Scanned THEN Reconciled(k) ELSE runs[k]]
  BY DispatchFact, Zenon
<1>2. PICK closing \in SUBSET (Policies \X Keys) :
        occ' = [p \in Policies |-> [key \in Keys |->
                  IF <<p, key>> \in closing
                  THEN [occ[p][key] EXCEPT !.closed = TRUE] ELSE occ[p][key]]]
  BY DispatchFact, Zenon
<1>3. PICK skips \in SUBSET RunKeys, launches \in SUBSET RunKeys :
        /\ tick' = [tick EXCEPT !.pc = "skip", !.skips = skips, !.launches = launches]
        /\ \A k \in launches : \E plan \in Plans : \E i \in Nat : DecidedBy(k, plan, i)
  BY DispatchFact, Zenon
<1>4. /\ occ' \in [Policies -> [Keys -> Manifest]]
      /\ \A p \in Policies, key \in Keys :
           /\ occ'[p][key].origin = occ[p][key].origin
           /\ occ'[p][key].batches = occ[p][key].batches
      /\ OccKept /\ OccurrenceInv' /\ Consumed' = Consumed
  BY <1>2, ClosingFact, Zenon DEF IInv
<1>5. tick' \in Tick
  BY <1>1, <1>3, ZenonT(40) DEF Tick
<1>6. /\ tick'.pc = "skip" /\ tick'.launches = launches /\ tick'.now = tick.now
      /\ tick'.next = tick.next /\ tick'.consumed = tick.consumed /\ tick'.snap = tick.snap
  BY <1>1, <1>3, Zenon DEF Tick
<1>7. /\ runs' \in [RunKeys -> Row]
      /\ \A k \in RunKeys : /\ (jobs'[k] # "none") <=> runs'[k].job
                            /\ jobs'[k] = "active" => runs'[k].status # "succeeded"
  BY <1>1, ReconciledRows, Zenon DEF IInv
<1>8. TypeOK'
  BY <1>1, <1>4, <1>5, <1>7, ZenonT(40) DEF IInv, TypeOK
<1>9. ASSUME NEW k \in launches
      PROVE  /\ Eligible(k, tick.now)'
             /\ k[1] \in Consumed => \E key \in Keys : occ'[k[1]][key].origin = k[2]
  <2>1. PICK plan \in Plans, i \in Nat : DecidedBy(k, plan, i)
    BY <1>3, Zenon
  <2>2. /\ plan.policy \in Policies /\ plan.o \in Manifest /\ plan.o.origin \in Minutes
        /\ \/ /\ plan.key \in Keys /\ plan.key # -1 /\ Accepted(plan.policy, plan.key)
              /\ plan.o = occ[plan.policy][plan.key] /\ plan.o.origin <= tick.slot
           \/ /\ plan.key = -1 /\ plan.o.origin = tick.slot
              /\ plan.policy \notin tick.used /\ ~Managed(tick.view.pol[plan.policy])
    BY <1>1, PlanFact, Zenon DEF IInv
  <2>3. k[1] = plan.policy /\ k[2] = plan.o.origin
    <3>1. k = <<plan.policy, plan.o.origin, k[3]>>
      BY <2>1, Zenon DEF DecidedBy
    <3> QED
      BY <3>1
  <2>4. tick.slot = tick.now
    BY <1>1, <2>1, Zenon DEF IInv, TickInv, InSlot, DecidedBy
  <2>5. CASE /\ plan.key \in Keys /\ plan.key # -1 /\ Accepted(plan.policy, plan.key)
             /\ plan.o = occ[plan.policy][plan.key] /\ plan.o.origin <= tick.slot
    <3>1. plan.key \in Keys /\ plan.o = occ[k[1]][plan.key] /\ plan.o.origin <= tick.slot
      BY <2>3, <2>5, Zenon
    <3>2. occ'[k[1]][plan.key].origin = k[2] /\ occ'[k[1]][plan.key].batches = plan.o.batches
      <4>1. k[1] \in Policies
        BY <2>2, <2>3, ZenonT(40)
      <4>2. occ'[k[1]][plan.key].origin = occ[k[1]][plan.key].origin
            /\ occ'[k[1]][plan.key].batches = occ[k[1]][plan.key].batches
        BY <1>4, <3>1, <4>1, Zenon
      <4> QED
        BY <2>3, <3>1, <4>2, Zenon
    <3>3. CASE i = 1
      <4>1. ~(plan.o.origin < tick.slot)
        BY <2>1, <2>5, <3>3, ZenonT(40) DEF DecidedBy, Late
      <4>2. plan.o.origin = tick.slot
        BY <1>1, <2>2, <3>1, <4>1, MinuteFact
      <4> QED
        BY <1>6, <2>3, <2>4, <3>1, <3>2, <4>2, Zenon DEF Eligible
    <3>4. CASE i # 1
      <4>1. i \in DOMAIN plan.o.batches /\ k[3] \in plan.o.batches[i].servers
        BY <2>1, ZenonT(40) DEF DecidedBy
      <4>2. plan.o.batches \in Seq(Batch)
        BY <2>2, Zenon DEF Manifest
      <4>3. i \in 2..Len(plan.o.batches)
        BY <3>4, <4>1, <4>2
      <4>4. InWave(k)'
        BY <3>1, <3>2, <4>1, <4>3, Zenon DEF InWave
      <4> QED
        BY <3>1, <3>2, <4>4, Zenon DEF Eligible
    <3> QED
      BY <3>3, <3>4, ZenonT(40)
  <2>6. CASE /\ plan.key = -1 /\ plan.o.origin = tick.slot
             /\ plan.policy \notin tick.used /\ ~Managed(tick.view.pol[plan.policy])
    <3>1. k[2] = tick.slot /\ k[1] \notin tick.used /\ ~Managed(tick.view.pol[k[1]])
      BY <2>3, <2>6, ZenonT(40)
    <3>2. k[1] \notin Consumed
      BY <1>1, <3>1, Zenon DEF IInv, ConsumedInv, InSlot, Managed
    <3> QED
      BY <1>6, <2>4, <3>1, <3>2, Zenon DEF Eligible
  <2> QED
    BY <2>2, <2>5, <2>6, Zenon
<1>10. TickInv'
  BY <1>1, <1>6, <1>9, Zenon DEF TickInv, InSlot, IInv
<1>11. ConsumedInv'
  BY <1>1, <1>4, <1>6, <1>9, ZenonT(40) DEF ConsumedInv, InSlot, IInv
<1>12. RowInv'
  BY <1>6, <1>7, Zenon DEF RowInv
<1>13. LaunchInv'
  BY <1>1, <1>4, LaunchKept, Zenon DEF IInv
<1> QED
  BY <1>4, <1>8, <1>10, <1>11, <1>12, <1>13, ZenonT(40) DEF IInv
-----------------------------------------------------------------------------
(* Writing the rows                                                         *)

\* A step that writes a row of the slot and launches nothing but what was decided.
LEMMA WritesRow ==
  ASSUME IInv, tick \in Tick, tick.pc \in {"skip", "start"}, tick' \in Tick,
         tick'.pc \in {"skip", "start"}, tick'.pc = "start" => tick'.launches # {},
         tick'.launches \subseteq tick.launches, tick'.now = tick.now, tick'.next = tick.next,
         tick'.consumed = tick.consumed, tick'.snap = tick.snap,
         UNCHANGED <<up, occ>>, TypeOK', RowInv', LaunchInv'
  PROVE  IInv'
<1>1. OccKept /\ Consumed' = Consumed
  BY SameOcc, Zenon
<1>2. OccurrenceInv'
  BY Zenon DEF IInv, OccurrenceInv, Accepted
<1>3. \A k \in tick'.launches : Eligible(k, tick.now)'
  BY <1>1, EligibleKept, TickParts, ZenonT(40) DEF IInv, TickInv
<1>4. TickInv'
  BY <1>3, Zenon DEF IInv, TickInv, InSlot
<1>5. ConsumedInv'
  BY <1>1, Zenon DEF IInv, ConsumedInv, InSlot
<1> QED
  BY <1>2, <1>4, <1>5, Zenon DEF IInv

\* A skipped row is inserted where there is none.
LEMMA RecordSkippedInv == ASSUME IInv, RecordSkipped PROVE IInv'
<1>1. tick.pc = "skip" /\ tick \in Tick
      /\ UNCHANGED <<now, up, maint, cfg, occ, jobs, at, scopes, mark, missed, last, crashes>>
  BY Busy, Zenon DEF IInv, RecordSkipped
<1>0. PICK k \in tick.skips :
        \/ /\ runs' = [runs EXCEPT ![k] = IF @ = NoRow THEN [@ EXCEPT !.status = "skipped",
                                                             !.reason = "not_admitted"] ELSE @]
           /\ tick' = [tick EXCEPT !.skips = @ \ {k}] /\ budget' = budget
        \/ /\ Trouble /\ runs' = runs
           /\ tick' = [tick EXCEPT !.skips = @ \ {k}, !.err = TRUE]
  BY Zenon DEF RecordSkipped
<1>2. k \in RunKeys /\ tick.skips \in SUBSET RunKeys
  BY <1>1, TickParts, Zenon
<1>3. runs \in [RunKeys -> Row] /\ runs[k] \in Row
  BY <1>2, Zenon DEF IInv, TypeOK
<1> DEFINE row == [runs[k] EXCEPT !.status = "skipped", !.reason = "not_admitted"]
           left == tick.skips \ {k}
<1>4. row \in Row /\ row.job = runs[k].job /\ row.status = "skipped"
  BY <1>3, Zenon DEF Row, TerminalRun, Reasons
<1>5. \/ runs' = [runs EXCEPT ![k] = IF runs[k] = NoRow THEN row ELSE runs[k]] /\ budget' = budget
         /\ tick' = [tick EXCEPT !.skips = left]
      \/ runs' = runs /\ budget > 0 /\ budget' = budget - 1
         /\ tick' = [tick EXCEPT !.skips = left, !.err = TRUE]
  BY <1>0, Zenon DEF Trouble
<1> HIDE DEF row
<1>6. left \in SUBSET RunKeys
  BY <1>2, ZenonT(40)
<1> HIDE DEF left
<1>7. runs' \in [RunKeys -> Row] /\ \A l \in RunKeys : runs'[l].job = runs[l].job
      /\ (runs'[l] = runs[l] \/ runs'[l].status = "skipped")
  <2>1. runs' = [runs EXCEPT ![k] = row] \/ runs' = runs
    BY <1>2, <1>3, <1>5, Zenon
  <2> QED
    BY <1>2, <1>3, <1>4, <2>1, Zenon
<1>8. tick' \in Tick
  <2>1. [tick EXCEPT !.skips = left] \in Tick
    BY <1>1, <1>6, ZenonT(40) DEF Tick
  <2>2. [tick EXCEPT !.skips = left, !.err = TRUE] \in Tick
    BY <1>1, <1>6, ZenonT(40) DEF Tick
  <2> QED
    BY <1>5, <2>1, <2>2, Zenon
<1>9. /\ tick'.pc = tick.pc /\ tick'.launches = tick.launches /\ tick'.now = tick.now
      /\ tick'.next = tick.next /\ tick'.consumed = tick.consumed /\ tick'.snap = tick.snap
  BY <1>1, <1>5, ZenonT(40) DEF Tick
<1>10. budget' \in Nat
  BY <1>5 DEF IInv, TypeOK
<1>11. TypeOK'
  BY <1>1, <1>7, <1>8, <1>10, Zenon DEF IInv, TypeOK
<1>12. RowInv'
  BY <1>1, <1>7, <1>9, ZenonT(40) DEF IInv, RowInv
<1>13. LaunchInv'
  BY <1>1, SameOcc, LaunchKept, Zenon DEF IInv
<1> QED
  BY <1>1, <1>8, <1>9, <1>11, <1>12, <1>13, WritesRow, ZenonT(40)

\* The row of a run is inserted before its job is started.
LEMMA LaunchStepInv == ASSUME IInv, Launch PROVE IInv'
<1>1. tick.pc = "skip" /\ tick \in Tick
      /\ UNCHANGED <<now, up, maint, cfg, occ, jobs, at, scopes, mark, missed, last, crashes>>
  BY Busy, Zenon DEF IInv, Launch
<1>0. PICK k \in tick.launches :
        /\ Least(k, tick.launches)
        /\ \/ /\ runs[k] = NoRow /\ runs' = [runs EXCEPT ![k].status = "queued"]
              /\ Goto("start") /\ budget' = budget
           \/ /\ tick' = [tick EXCEPT !.launches = @ \ {k}]
              /\ runs' = runs /\ budget' = budget
           \/ /\ Trouble /\ tick' = [tick EXCEPT !.launches = @ \ {k}, !.err = TRUE]
              /\ runs' = runs
  BY Zenon DEF Launch
<1> DEFINE left == tick.launches \ {k}
<1>2. k \in RunKeys /\ tick.launches \in SUBSET RunKeys
  BY <1>1, TickParts, Zenon
<1>3. runs \in [RunKeys -> Row] /\ runs[k] \in Row
  BY <1>2, Zenon DEF IInv, TypeOK
<1>4. LaunchInv'
  BY <1>1, SameOcc, LaunchKept, Zenon DEF IInv
<1>5. CASE /\ runs[k] = NoRow /\ runs' = [runs EXCEPT ![k].status = "queued"]
           /\ tick' = [tick EXCEPT !.pc = "start"] /\ budget' = budget
  <2>1. /\ runs' \in [RunKeys -> Row] /\ runs'[k].status = "queued"
        /\ \A l \in RunKeys : runs'[l].job = runs[l].job /\ (l # k => runs'[l] = runs[l])
    <3>1. [runs[k] EXCEPT !.status = "queued"] \in Row
          /\ [runs[k] EXCEPT !.status = "queued"].job = runs[k].job
          /\ [runs[k] EXCEPT !.status = "queued"].status = "queued"
      BY <1>3, Zenon DEF Row, ActiveRun
    <3> QED
      BY <1>2, <1>3, <1>5, <3>1, Zenon
  <2>2. jobs[k] = "none"
    <3>1. ~NoRow.job
      BY Zenon DEF NoRow
    <3> QED
      BY <1>2, <1>5, <3>1, Zenon DEF IInv, RowInv
  <2>3. tick' \in Tick
    BY <1>1, <1>5, ZenonT(40) DEF Tick
  <2>4. /\ tick'.pc = "start" /\ tick'.launches = tick.launches /\ tick'.now = tick.now
        /\ tick'.next = tick.next /\ tick'.consumed = tick.consumed /\ tick'.snap = tick.snap
    BY <1>1, <1>5, Zenon DEF Tick
  <2>5. TypeOK'
    BY <1>1, <1>5, <2>1, <2>3, Zenon DEF IInv, TypeOK
  <2>6. \A l \in RunKeys : /\ (jobs'[l] # "none") <=> runs'[l].job
                           /\ jobs'[l] = "active" => runs'[l].status # "succeeded"
    BY <1>1, <2>1, <2>2, ZenonT(40) DEF IInv, RowInv
  <2>7. \A l \in tick.launches : Least(l, tick.launches) => l = k
    BY <1>0, <1>2, LeastUnique, Zenon
  <2>8. \A l \in tick'.launches : Least(l, tick'.launches) => runs'[l].status = "queued" /\ jobs'[l] = "none"
    BY <1>1, <2>1, <2>2, <2>4, <2>7, Zenon
  <2>9. RowInv'
    BY <2>6, <2>8, Zenon DEF RowInv, Least
  <2> QED
    BY <1>0, <1>1, <1>4, <2>3, <2>4, <2>5, <2>9, WritesRow, ZenonT(40)
<1>6. CASE /\ runs' = runs /\ budget' \in Nat
           /\ \/ tick' = [tick EXCEPT !.launches = left]
              \/ tick' = [tick EXCEPT !.launches = left, !.err = TRUE]
  <2>1. left \in SUBSET RunKeys /\ left \subseteq tick.launches
    BY <1>2, Zenon
  <2> HIDE DEF left
  <2>2. tick' \in Tick
    <3>1. [tick EXCEPT !.launches = left] \in Tick
      BY <1>1, <2>1, ZenonT(40) DEF Tick
    <3>2. [tick EXCEPT !.launches = left, !.err = TRUE] \in Tick
      BY <1>1, <2>1, Zenon DEF Tick
    <3> QED
      BY <1>6, <3>1, <3>2, ZenonT(40)
  <2>3. /\ tick'.pc = "skip" /\ tick'.launches = left /\ tick'.now = tick.now
        /\ tick'.next = tick.next /\ tick'.consumed = tick.consumed /\ tick'.snap = tick.snap
    BY <1>1, <1>6, ZenonT(40) DEF Tick
  <2>4. TypeOK'
    BY <1>1, <1>6, <2>2, Zenon DEF IInv, TypeOK
  <2>5. RowInv'
    BY <1>1, <1>6, <2>3, Zenon DEF IInv, RowInv
  <2> QED
    BY <1>1, <1>4, <2>1, <2>2, <2>3, <2>4, <2>5, WritesRow, ZenonT(40)
<1>7. budget \in Nat /\ (Trouble => budget' \in Nat)
  BY DEF IInv, TypeOK, Trouble
<1> QED
  BY <1>0, <1>5, <1>6, <1>7, Zenon DEF Goto
\* The job of a run is started in the minute of the tick.
LEMMA StartInv == ASSUME IInv, Start PROVE IInv'
<1>1. tick.pc = "start" /\ tick \in Tick
      /\ UNCHANGED <<now, up, maint, cfg, occ, scopes, mark, missed, last, budget, crashes>>
  BY Busy, Zenon DEF IInv, Start
<1>0. PICK k \in tick.launches :
        /\ Least(k, tick.launches)
        /\ \/ /\ jobs' = [jobs EXCEPT ![k] = "active"]
              /\ runs' = [runs EXCEPT ![k].status = "running", ![k].job = TRUE]
              /\ at' = [at EXCEPT ![k] = tick.now]
           \/ /\ runs' = [runs EXCEPT ![k].status = "skipped", ![k].reason = "not_admitted"]
              /\ jobs' = jobs /\ at' = at
        /\ tick' = [tick EXCEPT !.pc = "skip", !.launches = @ \ {k}]
  BY Zenon DEF Start
<1> DEFINE left == tick.launches \ {k}
<1>2. tick' = [tick EXCEPT !.pc = "skip", !.launches = left]
  BY <1>0, Zenon
<1>3. k \in RunKeys /\ tick.launches \in SUBSET RunKeys
  BY <1>1, TickParts, Zenon
<1>4. left \in SUBSET RunKeys /\ left \subseteq tick.launches
  BY <1>3, Zenon
<1>5. /\ runs \in [RunKeys -> Row] /\ runs[k] \in Row /\ jobs \in [RunKeys -> JobStatus]
      /\ at \in [RunKeys -> 0..MaxTime] /\ tick.now \in 0..MaxTime /\ tick.now \in Minutes
  BY <1>1, <1>3, TickParts, MinuteFact, ZenonT(40) DEF IInv, TypeOK
<1>6. jobs[k] = "none" /\ ~runs[k].job
  BY <1>0, <1>1, <1>3, Zenon DEF IInv, RowInv
<1>7. \/ /\ jobs' = [jobs EXCEPT ![k] = "active"]
         /\ runs' = [runs EXCEPT ![k].status = "running", ![k].job = TRUE]
         /\ at' = [at EXCEPT ![k] = tick.now]
      \/ /\ runs' = [runs EXCEPT ![k].status = "skipped", ![k].reason = "not_admitted"]
         /\ jobs' = jobs /\ at' = at
  BY <1>0, Zenon
<1>8. Eligible(k, tick.now)
  BY <1>1, <1>3, ZenonT(40) DEF IInv, TickInv
<1> HIDE DEF left
<1>9. /\ runs' \in [RunKeys -> Row] /\ jobs' \in [RunKeys -> JobStatus]
      /\ at' \in [RunKeys -> 0..MaxTime]
      /\ \A l \in RunKeys : l # k => runs'[l] = runs[l] /\ jobs'[l] = jobs[l] /\ at'[l] = at[l]
      /\ (jobs'[k] # "none") <=> runs'[k].job
      /\ runs'[k].status # "succeeded"
      /\ at'[k] = tick.now \/ at'[k] = at[k]
  <2>1. CASE /\ jobs' = [jobs EXCEPT ![k] = "active"]
             /\ runs' = [runs EXCEPT ![k].status = "running", ![k].job = TRUE]
             /\ at' = [at EXCEPT ![k] = tick.now]
    <3>1. [runs[k] EXCEPT !.status = "running", !.job = TRUE] \in Row
      BY <1>5, ZenonT(40) DEF Row, ActiveRun
    <3>2. runs' \in [RunKeys -> Row] /\ \A l \in RunKeys : l # k => runs'[l] = runs[l]
      BY <1>3, <1>5, <2>1, <3>1, ZenonT(40)
    <3>3. runs'[k].job /\ runs'[k].status = "running"
      BY <1>3, <1>5, <2>1, Zenon DEF Row
    <3>4. jobs' \in [RunKeys -> JobStatus] /\ jobs'[k] = "active"
          /\ \A l \in RunKeys : l # k => jobs'[l] = jobs[l]
      BY <1>3, <1>5, <2>1, ZenonT(40) DEF JobStatus
    <3>5. at' \in [RunKeys -> 0..MaxTime] /\ at'[k] = tick.now
          /\ \A l \in RunKeys : l # k => at'[l] = at[l]
      BY <1>3, <1>5, <2>1, Zenon
    <3> QED
      BY <3>2, <3>3, <3>4, <3>5, Zenon
  <2>2. CASE /\ runs' = [runs EXCEPT ![k].status = "skipped", ![k].reason = "not_admitted"]
             /\ jobs' = jobs /\ at' = at
    <3>1. [runs[k] EXCEPT !.status = "skipped", !.reason = "not_admitted"] \in Row
      BY <1>5, ZenonT(40) DEF Row, TerminalRun, Reasons
    <3>2. runs' \in [RunKeys -> Row] /\ \A l \in RunKeys : l # k => runs'[l] = runs[l]
      BY <1>3, <1>5, <2>2, <3>1, Zenon
    <3>3. runs'[k].job = runs[k].job /\ runs'[k].status = "skipped"
      BY <1>3, <1>5, <2>2, Zenon DEF Row
    <3> QED
      BY <1>5, <1>6, <2>2, <3>2, <3>3, Zenon
  <2> QED
    BY <1>7, <2>1, <2>2, Zenon
<1>10. tick' \in Tick
  BY <1>1, <1>2, <1>4, ZenonT(40) DEF Tick
<1>11. /\ tick'.pc = "skip" /\ tick'.launches = left /\ tick'.now = tick.now
       /\ tick'.next = tick.next /\ tick'.consumed = tick.consumed /\ tick'.snap = tick.snap
  BY <1>1, <1>2, Zenon DEF Tick
<1>12. TypeOK'
  BY <1>1, <1>9, <1>10, Zenon DEF IInv, TypeOK
<1>13. RowInv'
  BY <1>9, <1>11, ZenonT(40) DEF IInv, RowInv
<1>14. LaunchInv'
  <2> SUFFICES ASSUME NEW l \in RunKeys, NEW t, t = at'[l], t # 0
               PROVE  Eligible(l, t)'
    BY Zenon DEF LaunchInv, Launched, Eligible, InWave
  <2>1. OccKept
    BY <1>1, SameOcc, Zenon
  <2>2. CASE at'[l] = at[l]
    BY <2>1, <2>2, EligibleKept, ZenonT(40) DEF IInv, LaunchInv, Launched
  <2>3. CASE l = k /\ at'[l] = tick.now
    BY <1>8, <2>1, <2>3, EligibleKept, Zenon
  <2> QED
    BY <1>9, <2>2, <2>3, Zenon
<1> QED
  BY <1>1, <1>4, <1>10, <1>11, <1>12, <1>13, <1>14, WritesRow, ZenonT(40)

\* A slot ends, and with an error the tick.
LEMMA EndSlotInv == ASSUME IInv, EndSlot PROVE IInv'
<1>1. tick.pc = "skip" /\ tick \in Tick /\ tick.launches = {} /\ up
      /\ UNCHANGED <<now, up, maint, cfg, occ, runs, jobs, at, scopes, mark, missed, last, budget, crashes>>
  BY Busy, ZenonT(40) DEF IInv, EndSlot, TickInv
<1>2. CASE tick' = Idle
  <2>1. TypeOK'
    BY <1>1, <1>2, ZenonT(40) DEF IInv, TypeOK
  <2>2. tick'.pc = "idle"
    BY <1>2, Zenon DEF Idle
  <2>3. RowInv'
    BY <1>1, <2>2, Zenon DEF IInv, RowInv
  <2> QED
    BY <1>1, <1>2, <2>1, <2>3, Rests, Zenon
<1>3. CASE tick' = [tick EXCEPT !.pc = tick.next, !.view = tick.snap, !.used = {}, !.hidden = {},
                                !.done = @ \cup {tick.slot}]
  <2>2. tick.done \cup {tick.slot} \in SUBSET (0..MaxTime) /\ tick.snap \in Cfg
        /\ tick.next \in {"next", "save"}
    BY <1>1, TickParts, Zenon
  <2>3. {} \in SUBSET Policies /\ {} \in SUBSET (Policies \X Keys)
    BY ZenonT(40)
  <2>4. tick' \in Tick
    BY <1>1, <1>3, <2>2, <2>3, ZenonT(40) DEF Tick
  <2>5. /\ tick'.pc = tick.next /\ tick'.launches = {}
        /\ tick'.next = tick.next /\ tick'.consumed = tick.consumed /\ tick'.snap = tick.snap
    BY <1>1, <1>3, Zenon DEF Tick
  <2>6. TypeOK'
    BY <1>1, <2>4, Zenon DEF IInv, TypeOK
  <2>7. TickInv'
    BY <1>1, <2>2, <2>5, ZenonT(40) DEF TickInv, InSlot
  <2>8. Consumed' = Consumed
    BY <1>1, SameOcc, Zenon
  <2>9. ConsumedInv'
    BY <1>1, <2>2, <2>5, <2>8, Zenon DEF IInv, ConsumedInv, InSlot
  <2> QED
    BY <1>1, <2>2, <2>5, <2>6, <2>7, <2>9, TickOnly, ZenonT(40)
<1> QED
  BY <1>2, <1>3, ZenonT(40) DEF EndSlot
\* SaveSchedulerCheckpoint ends the tick, whether it succeeds or not.
LEMMA SaveInv == ASSUME IInv, Save PROVE IInv'
<1>1. tick.pc = "save" /\ tick \in Tick /\ tick' = Idle
      /\ UNCHANGED <<now, up, maint, cfg, occ, runs, jobs, at, scopes, last, crashes>>
  BY Busy, Zenon DEF IInv, Save
<1>2. tick.mark.at \in 0..MaxTime /\ tick.now \in 0..MaxTime /\ tick.now - 1 \in 0..MaxTime
      /\ tick.snap.rev \in Nat /\ mark.base \in 0..MaxTime
  <2>1. tick.mark \in Mark /\ tick.now \in Minutes /\ tick.snap \in Cfg /\ mark \in Mark
    BY <1>1, TickParts, Zenon DEF IInv, TypeOK
  <2>2. tick.now \in 0..MaxTime /\ tick.now - 1 \in 0..MaxTime
    BY <2>1, SizeAssumption DEF Minutes
  <2> QED
    BY <2>1, <2>2, Zenon DEF Mark, Cfg
<1>3. Max({tick.mark.at, tick.now}) \in 0..MaxTime
  <2>1. \E x \in {tick.mark.at, tick.now} : \A y \in {tick.mark.at, tick.now} : x >= y
    BY <1>2, SizeAssumption
  <2>2. Max({tick.mark.at, tick.now}) \in {tick.mark.at, tick.now}
    BY <2>1, Zenon DEF Max
  <2> QED
    BY <1>2, <2>2, Zenon
<1>4. mark' \in Mark
  <2>1. CASE UNCHANGED mark
    BY <2>1, Zenon DEF IInv, TypeOK
  <2>2. CASE mark' = [found |-> TRUE,
                      at    |-> IF tick.mark.found THEN Max({tick.mark.at, tick.now}) ELSE tick.now,
                      rev   |-> tick.snap.rev,
                      base  |-> IF tick.mark.found THEN mark.base ELSE tick.now - 1]
    <3>1. (IF tick.mark.found THEN Max({tick.mark.at, tick.now}) ELSE tick.now) \in 0..MaxTime
      BY <1>2, <1>3, Zenon
    <3>2. (IF tick.mark.found THEN mark.base ELSE tick.now - 1) \in 0..MaxTime
      BY <1>2, Zenon
    <3> QED
      BY <1>2, <2>2, <3>1, <3>2, Zenon DEF Mark
  <2> QED
    BY <2>1, <2>2, Zenon DEF Save
<1>5. missed' \subseteq Minutes
  BY Zenon DEF IInv, TypeOK, Save
<1>6. budget' \in Nat
  BY DEF IInv, TypeOK, Save, Trouble
<1>7. TypeOK'
  BY <1>1, <1>4, <1>5, <1>6, Zenon DEF IInv, TypeOK
<1>8. tick'.pc = "idle"
  BY <1>1, Zenon DEF Idle
<1>9. RowInv'
  BY <1>1, <1>8, Zenon DEF IInv, RowInv
<1> QED
  BY <1>1, <1>7, <1>9, Rests, Zenon

-----------------------------------------------------------------------------
(* Theorems                                                                 *)

\* Every step preserves the invariant.
LEMMA NextInv == ASSUME IInv, [Next]_vars PROVE IInv'
<1>1. CASE UNCHANGED vars
  <2>1. TypeOK'
    BY <1>1, Zenon DEF IInv, TypeOK, vars
  <2> QED
    BY <1>1, <2>1, Quiet, Zenon DEF vars
<1>2. CASE Step
  BY <1>2, NextSlotInv, AcceptNextInv, RecoverNextInv, DispatchInv, RecordSkippedInv,
     LaunchStepInv, StartInv, EndSlotInv, SaveInv, Zenon DEF Step
<1>3. CASE \/ \E k \in RunKeys : JobEnds(k)
           \/ \E p \in Policies : UpdatePolicy(p)
           \/ \E s \in Leavers : UpdateServer(s)
  BY <1>3, JobEndsInv, UpdatePolicyInv, UpdateServerInv, ZenonT(40)
<1> QED
  BY <1>1, <1>2, <1>3, RememberMissedTickInv, CaptureInv, MaintenanceBeginsInv,
     MaintenanceEndsInv, AdvanceInv, CrashInv, RestartInv, ZenonT(40) DEF Next

\* The invariant holds in every state of the scheduler.
THEOREM Invariance == Spec => []IInv
BY InitInv, NextInv, PTL DEF Spec

\* The tick, its checkpoint, manifests and rows are what the code stores.
THEOREM TypeCorrect == Spec => []TypeOK
<1>1. IInv => TypeOK
  BY Zenon DEF IInv
<1> QED
  BY <1>1, Invariance, PTL

\* What was launched was of the minute of its tick or a member of a wave.
LEMMA EligibleIsNotHistory == ASSUME IInv PROVE HistoryIsNeverLaunched
<1> SUFFICES ASSUME NEW k \in RunKeys, Launched(k), at[k] # k[2]
             PROVE  \E o \in ManifestOf(k) : \E i \in 2..Len(o.batches) : k[3] \in o.batches[i].servers
  BY Zenon DEF HistoryIsNeverLaunched
<1>1. InWave(k)
  BY Zenon DEF IInv, LaunchInv, Eligible
<1> QED
  BY <1>1, Zenon DEF InWave, ManifestOf

\* No minute that has passed is made up for, whatever crashes, edits, maintenance and
\* failed writes come between (ProcessDueWithRecovery, ProcessDueSlot).
THEOREM MissedMinutesAreNotLaunched == Spec => []HistoryIsNeverLaunched
BY EligibleIsNotHistory, Invariance, PTL
-----------------------------------------------------------------------------
(* One-time occurrences                                                     *)

\* A policy that is consumed accepts nothing new: only what the tick accepted itself
\* can be news to it, and that is the key "once".
LEMMA AdmitsOnce ==
  ASSUME IInv, tick.slot \in Minutes, NEW p \in Policies, NEW policy, NEW o \in Manifest,
         Admits(p, policy, o), p \in Consumed => policy.once
  PROVE  \A q \in Consumed : \A key \in Keys : Accepted(q, key)' => Accepted(q, key)
<1> SUFFICES ASSUME NEW q \in Consumed, NEW key \in Keys, Accepted(q, key)', ~Accepted(q, key)
             PROVE  FALSE
  BY Zenon
<1>1. q \in Policies /\ Accepted(q, OnceKey)
  BY Zenon DEF Consumed
<1>2. q = p /\ key = OccurrenceKey(policy, tick.slot)
  <2>1. (q # p \/ key # OccurrenceKey(policy, tick.slot)) => occ'[q][key] = occ[q][key]
    BY <1>1, AdmitsFact
  <2> QED
    BY <2>1, Zenon DEF Accepted
<1>3. key = OnceKey
  BY <1>2, Zenon DEF OccurrenceKey
<1> QED
  BY <1>1, <1>3, Zenon

\* The consequences of one step for the policies that are consumed.
OnceStep ==
  \A p \in Consumed :
    /\ \A key \in Keys : Accepted(p, key)' => Accepted(p, key)
    /\ \A k \in RunKeys : (k[1] = p /\ at'[k] # at[k]) =>
         \E key \in Keys : occ[p][key].origin = k[2]

\* A step that accepts and starts nothing.
LEMMA NothingOnce == ASSUME UNCHANGED <<occ, at>> PROVE OnceStep
BY Zenon DEF OnceStep, Accepted

\* No step repeats or extends what is consumed.
LEMMA ConsumedStep == ASSUME IInv, [Next]_vars PROVE OnceStep
<1>1. CASE AcceptNext
  <2>1. tick \in Tick /\ tick.pc = "accept" /\ tick.slot \in Minutes /\ at' = at
    BY <1>1, AcceptNextFact, Zenon
  <2>2. PICK p \in tick.accept, o \in Manifest : Admits(p, tick.view.pol[p], o)
    BY <1>1, AcceptNextFact, Zenon
  <2>3. p \in Policies
    BY <2>1, TickParts, Zenon
  <2>4. p \in Consumed => tick.view.pol[p].once
    BY <2>1, Zenon DEF IInv, ConsumedInv, InSlot
  <2>5. \A q \in Consumed : \A key \in Keys : Accepted(q, key)' => Accepted(q, key)
    BY <2>1, <2>2, <2>3, <2>4, AdmitsOnce, Zenon
  <2> QED
    BY <2>1, <2>5, Zenon DEF OnceStep
<1>2. CASE RecoverNext
  <2>1. tick \in Tick /\ tick.pc = "recover" /\ tick.slot \in Minutes /\ at' = at
    BY <1>2, RecoverNextFact, Zenon
  <2>2. PICK p \in tick.accept, o \in Manifest : Admits(p, tick.snap.pol[p], o)
    BY <1>2, RecoverNextFact, Zenon
  <2>3. p \in Policies
    BY <2>1, TickParts, ZenonT(40)
  <2>4. p \in Consumed => tick.snap.pol[p].once
    BY <2>1, TickParts, Zenon DEF IInv, ConsumedInv
  <2>5. \A q \in Consumed : \A key \in Keys : Accepted(q, key)' => Accepted(q, key)
    BY <2>1, <2>2, <2>3, <2>4, AdmitsOnce, Zenon
  <2> QED
    BY <2>1, <2>5, ZenonT(40) DEF OnceStep
<1>3. CASE Dispatch
  <2>1. at' = at
    BY <1>3, Zenon DEF Dispatch
  <2>2. PICK closing \in SUBSET (Policies \X Keys) :
          occ' = [p \in Policies |-> [key \in Keys |->
                    IF <<p, key>> \in closing
                    THEN [occ[p][key] EXCEPT !.closed = TRUE] ELSE occ[p][key]]]
    BY <1>3, DispatchFact, Zenon
  <2>3. \A p \in Policies, key \in Keys : occ'[p][key].origin = occ[p][key].origin
    BY <2>2, ClosingFact, ZenonT(40) DEF IInv
  <2> QED
    BY <2>1, <2>3, ZenonT(40) DEF OnceStep, Accepted, Consumed
<1>4. CASE Start
  <2>1. tick.pc = "start" /\ occ' = occ
    BY <1>4, Zenon DEF Start
  <2>2. PICK l \in tick.launches : at' = [at EXCEPT ![l] = tick.now] \/ at' = at
    BY <1>4, Zenon DEF Start
  <2>3. at \in [RunKeys -> 0..MaxTime]
    BY Zenon DEF IInv, TypeOK
  <2>4. \A k \in RunKeys : at'[k] # at[k] => k = l
    BY <2>2, <2>3, ZenonT(40)
  <2>5. \A k \in tick.launches : k[1] \in Consumed => \E key \in Keys : occ[k[1]][key].origin = k[2]
    BY <2>1, Zenon DEF IInv, ConsumedInv
  <2> QED
    BY <2>1, <2>4, <2>5, Zenon DEF OnceStep, Accepted
<1>5. CASE UNCHANGED <<occ, at>>
  BY <1>5, NothingOnce, Zenon
<1>6. CASE NextSlot \/ RecordSkipped \/ Launch \/ EndSlot \/ Save
  BY <1>5, <1>6, ZenonT(40) DEF NextSlot, RecordSkipped, Launch, EndSlot, Save
<1>7. CASE \/ RememberMissedTick \/ Capture \/ MaintenanceBegins \/ MaintenanceEnds \/ Advance
           \/ Crash \/ Restart \/ UNCHANGED vars
  BY <1>5, <1>7, Zenon DEF RememberMissedTick, Capture, MaintenanceBegins, MaintenanceEnds,
     Advance, Crash, Restart, vars
<1>8. CASE \/ \E k \in RunKeys : JobEnds(k)
           \/ \E p \in Policies : UpdatePolicy(p)
           \/ \E s \in Leavers : UpdateServer(s)
  BY <1>5, <1>8, Zenon DEF JobEnds, UpdatePolicy, UpdateServer
<1> QED
  BY <1>1, <1>2, <1>3, <1>4, <1>6, <1>7, <1>8, Zenon DEF Next, Step

\* Once a one-time occurrence is accepted, its policy accepts and launches nothing new,
\* whatever it is edited into (enrichOnceConsumption, AcceptOccurrence).
THEOREM OneTimeIsConsumedForGood == Spec => ConsumedForGood
<1>1. IInv /\ [Next]_vars => [OnceStep]_vars
  BY ConsumedStep, Zenon
<1>2. ConsumedForGood <=> [][OnceStep]_vars
  BY Zenon DEF ConsumedForGood, OnceStep
<1> QED
  BY <1>1, <1>2, Invariance, PTL DEF Spec
-----------------------------------------------------------------------------
(* Waves                                                                    *)

\* A gate that neither waits nor fails: all earlier members have succeeded
\* (rolloutGateState).
LEMMA GateOpen ==
  ASSUME NEW b \in Seq(Batch), NEW i \in DOMAIN b, NEW row,
         BatchGate(b, i, row) \notin {"waiting", "failed"},
         NEW j \in 1..(i-1), NEW s \in b[j].servers
  PROVE  row[s].status = "succeeded"
<1> DEFINE previous == {b[n] : n \in 1..(i-1)}
           Verdict(r) == CASE row[r].status = "succeeded"                    -> "ready"
                           [] row[r].status \in TerminalRun \ {"succeeded"}  -> "failed"
                           [] OTHER                                          -> "waiting"
           late    == {c \in previous : \E r \in c.servers : Verdict(r) # "ready"}
<1>1. RolloutGateState(previous, row) \notin {"waiting", "failed"}
  <2> HIDE DEF previous
  <2>1. BatchGate(b, i, row) \notin {"waiting", "failed"}
    BY Zenon
  <2> QED
    BY <2>1, Zenon DEF BatchGate, previous
<1>2. late # {} => RolloutGateState(previous, row) \in {"waiting", "failed"}
  BY Zenon DEF RolloutGateState
<1>3. \A r : Verdict(r) = "ready" => row[r].status = "succeeded"
  BY Zenon
<1>4. b[j] \in previous /\ late = {}
  BY <1>1, <1>2, Zenon
<1> HIDE DEF Verdict, previous
<1>5. Verdict(s) = "ready"
  BY <1>4, Zenon
<1> QED
  BY <1>3, <1>5, Zenon

\* Rows that succeeded stay so.
SucceededKept ==
  \A k \in RunKeys : runs[k].status = "succeeded" => runs'[k].status = "succeeded"

\* What is newly accepted fits the modes.
NewFits(pol) ==
  \A p \in Policies, key \in Keys : ~Accepted(p, key) /\ Accepted(p, key)' =>
    /\ Disjoint(occ'[p][key].batches)
    /\ pol[p].waves => key = OccurrenceKey(pol[p], occ'[p][key].origin)
    /\ ~pol[p].waves => Len(occ'[p][key].batches) <= 1

\* Manifests keep fitting.
LEMMA FitKept ==
  ASSUME NEW pol, ManifestsFit(pol), OccKept, NewFits(pol)
  PROVE  ManifestsFit(pol)'
<1> SUFFICES ASSUME NEW p \in Policies, NEW key \in Keys, Accepted(p, key)'
             PROVE  /\ Disjoint(occ'[p][key].batches)
                    /\ pol[p].waves => key = OccurrenceKey(pol[p], occ'[p][key].origin)
                    /\ ~pol[p].waves => Len(occ'[p][key].batches) <= 1
  BY Zenon DEF ManifestsFit, Disjoint, OccurrenceKey
<1>1. CASE Accepted(p, key)
  <2>1. occ'[p][key].origin = occ[p][key].origin /\ occ'[p][key].batches = occ[p][key].batches
    BY <1>1, Zenon DEF OccKept
  <2> QED
    BY <1>1, <2>1, Zenon DEF ManifestsFit
<1>2. CASE ~Accepted(p, key)
  BY <1>2, Zenon DEF NewFits
<1> QED
  BY <1>1, <1>2, Zenon

\* The members of a batch have keys.
LEMMA MemberKey ==
  ASSUME TypeOK, NEW k \in RunKeys, NEW key \in Keys,
         NEW i \in 2..Len(occ[k[1]][key].batches), NEW j \in 1..(i-1),
         NEW s \in occ[k[1]][key].batches[j].servers
  PROVE  <<k[1], k[2], s>> \in RunKeys
<1>1. k[1] \in Policies /\ k[2] \in Minutes
  BY KeyParts, Zenon
<1>2. occ[k[1]][key].batches \in Seq(Batch)
  BY <1>1, OccParts, Zenon
<1> DEFINE b == occ[k[1]][key].batches
<1> HIDE DEF b
<1>3. b \in Seq(Batch) /\ i \in 2..Len(b) /\ s \in b[j].servers
  BY <1>2, Zenon DEF b
<1>4. b[j] \in Batch
  BY <1>3
<1>5. s \in Servers
  BY <1>3, <1>4, Zenon DEF Batch
<1> QED
  BY <1>1, <1>5, Zenon DEF RunKeys

\* What was released stays released: the rows that let it go have ended well, and no
\* other manifest of its minute can come.
LEMMA ReleasedKept ==
  ASSUME TypeOK, NEW pol, ManifestsFit(pol), OccKept, NewFits(pol), SucceededKept,
         NEW k \in RunKeys, ReleasedForGood(k, pol)
  PROVE  ReleasedForGood(k, pol)'
<1>1. k[1] \in Policies /\ k[2] # 0
  BY KeyParts, MinuteFact, Zenon
<1>2. pol[k[1]].waves => \E key \in Keys : occ'[k[1]][key].origin = k[2]
  BY <1>1, Zenon DEF ReleasedForGood, OccKept, Accepted
<1>3. ASSUME NEW key \in Keys, occ'[k[1]][key].origin = k[2],
             NEW i \in 2..Len(occ'[k[1]][key].batches), k[3] \in occ'[k[1]][key].batches[i].servers,
             NEW j \in 1..(i-1), NEW s \in occ'[k[1]][key].batches[j].servers
      PROVE  runs'[<<k[1], k[2], s>>].status = "succeeded"
  <2>1. CASE Accepted(k[1], key)
    <3>1. occ[k[1]][key].origin = k[2] /\ occ'[k[1]][key].batches = occ[k[1]][key].batches
      BY <1>1, <1>3, <2>1, Zenon DEF OccKept
    <3>2. runs[<<k[1], k[2], s>>].status = "succeeded"
      BY <1>3, <3>1, Zenon DEF ReleasedForGood, Released
    <3>3. <<k[1], k[2], s>> \in RunKeys
      BY <1>3, <3>1, MemberKey, ZenonT(40)
    <3> QED
      BY <3>2, <3>3, ZenonT(40) DEF SucceededKept
  <2>2. CASE ~Accepted(k[1], key)
    <3>1. Accepted(k[1], key)'
      BY <1>1, <1>3, Zenon DEF Accepted
    <3>2. CASE pol[k[1]].waves
      <4>1. key = OccurrenceKey(pol[k[1]], k[2])
        BY <1>1, <1>3, <2>2, <3>1, <3>2, Zenon DEF NewFits
      <4>2. PICK old \in Keys : occ[k[1]][old].origin = k[2]
        BY <3>2, Zenon DEF ReleasedForGood
      <4>3. Accepted(k[1], old) /\ old = OccurrenceKey(pol[k[1]], k[2])
        BY <1>1, <3>2, <4>2, Zenon DEF Accepted, ManifestsFit
      <4> QED
        BY <2>2, <4>1, <4>3, ZenonT(40)
    <3>3. CASE ~pol[k[1]].waves
      <4>1. Len(occ'[k[1]][key].batches) <= 1
        BY <1>1, <2>2, <3>1, <3>3, Zenon DEF NewFits
      <4> QED
        BY <1>3, <4>1
    <3> QED
      BY <3>2, <3>3, Zenon
  <2> QED
    BY <2>1, <2>2, Zenon
<1>4. Released(k)'
  BY <1>3, Zenon DEF Released
<1> QED
  BY <1>2, <1>4, Zenon DEF ReleasedForGood
\* A step that releases nothing itself.
LEMMA WavesKept ==
  ASSUME IInv, TypeOK', NEW pol, WavesFit(pol), ModesAre(pol)', OccKept, NewFits(pol), SucceededKept,
         \A k \in RunKeys : Launched(k)' =>
           Launched(k) \/ (tick.pc \in {"skip", "start"} /\ k \in tick.launches),
         tick'.pc \in {"skip", "start"} =>
           \A k \in tick'.launches : tick.pc \in {"skip", "start"} /\ k \in tick.launches
  PROVE  WavesFit(pol)'
<1>1. TypeOK /\ ManifestsFit(pol)
  BY Zenon DEF IInv, WavesFit
<1>2. ManifestsFit(pol)'
  BY <1>1, FitKept, Zenon
<1>3. \A k \in RunKeys : ReleasedForGood(k, pol) => ReleasedForGood(k, pol)'
  BY <1>1, ReleasedKept, ZenonT(40)
<1>4. \A k \in RunKeys : Launched(k)' => ReleasedForGood(k, pol)'
  BY <1>3, Zenon DEF WavesFit
<1>5. ASSUME tick'.pc \in {"skip", "start"}, NEW k \in tick'.launches PROVE ReleasedForGood(k, pol)'
  <2>1. tick.pc \in {"skip", "start"} /\ k \in tick.launches
    BY <1>5, ZenonT(40)
  <2>2. tick \in Tick
    BY <1>1, <2>1, Busy, Zenon
  <2>3. k \in RunKeys
    BY <2>1, <2>2, TickParts, Zenon
  <2> QED
    BY <1>3, <2>1, <2>3, Zenon DEF WavesFit
<1> QED
  BY <1>2, <1>4, <1>5, Zenon DEF WavesFit, Launched

\* Nothing new is accepted.
LEMMA SameFits == ASSUME NEW pol, occ' = occ PROVE OccKept /\ NewFits(pol)
BY SameOcc, ZenonT(40) DEF NewFits, Accepted

\* A step that leaves manifests, rows and launches alone.
LEMMA WavesQuiet ==
  ASSUME IInv, TypeOK', NEW pol, WavesFit(pol), ModesAre(pol)', UNCHANGED <<occ, runs, at>>,
         tick'.pc \in {"skip", "start"} =>
           \A k \in tick'.launches : tick.pc \in {"skip", "start"} /\ k \in tick.launches
  PROVE  WavesFit(pol)'
<1>1. OccKept /\ NewFits(pol) /\ SucceededKept
  BY SameFits, Zenon DEF SucceededKept
<1>2. \A k \in RunKeys : Launched(k)' => Launched(k)
  BY Zenon DEF Launched
<1> QED
  BY <1>1, <1>2, WavesKept, Zenon

\* A tick captures the configuration whose modes are known.
LEMMA CaptureWaves == ASSUME IInv, IInv', NEW pol, WavesFit(pol), Capture PROVE WavesFit(pol)'
<1>1. tick'.pc = "next" /\ tick'.snap = cfg /\ tick'.view = cfg /\ cfg' = cfg
  BY Zenon DEF Capture
<1>2. ModesAre(pol)'
  BY <1>1, ZenonT(40) DEF WavesFit, ModesAre
<1>3. TypeOK' /\ UNCHANGED <<occ, runs, at>>
  BY Zenon DEF IInv, Capture
<1> QED
  BY <1>1, <1>2, <1>3, WavesQuiet, Zenon

\* A slot works with the captured configuration or the current one.
LEMMA NextSlotWaves == ASSUME IInv, IInv', NEW pol, WavesFit(pol), NextSlot PROVE WavesFit(pol)'
<1>1. tick.pc = "next" /\ TypeOK' /\ UNCHANGED <<occ, runs, at, cfg>>
  BY ZenonT(40) DEF IInv, NextSlot
<1>2. tick \in Tick /\ tick.pc # "idle"
  BY <1>1, Busy, Zenon DEF IInv
<1>3. tick'.snap = tick.snap /\ tick'.view \in {tick.view, tick.snap, cfg}
      /\ tick'.pc \in {"accept", "plan", "recover"}
  <2>1. \A t, blocked, view, used, nxt :
          BeginSlot(t, blocked, view, used, nxt) =>
            tick'.snap = tick.snap /\ tick'.view = view /\ tick'.pc \in {"accept", "plan"}
    <3> TAKE t, blocked, view, used, nxt
    <3> HAVE BeginSlot(t, blocked, view, used, nxt)
    <3> DEFINE accept == ToAccept(view, used, t)
               pc == IF accept = {} THEN "plan" ELSE "accept"
    <3>1. tick' = [tick EXCEPT !.pc = pc, !.slot = t, !.blocked = blocked, !.accept = accept,
                               !.view = view, !.used = used, !.next = nxt]
      BY Zenon DEF BeginSlot
    <3>2. pc \in {"accept", "plan"}
      BY Zenon
    <3> HIDE DEF accept, pc
    <3> QED
      BY <1>2, <3>1, <3>2, Zenon DEF Tick
  <2>2. \A t, accept : tick' = [tick EXCEPT !.pc = "recover", !.slot = t, !.next = "next",
                                            !.accept = accept] =>
          tick'.snap = tick.snap /\ tick'.view = tick.view /\ tick'.pc = "recover"
    BY <1>2, ZenonT(40) DEF Tick
  <2>3. \/ \E t, blocked, used, nxt :
             \/ BeginSlot(t, blocked, tick.snap, used, nxt)
             \/ BeginSlot(t, blocked, cfg, used, nxt)
        \/ \E t, accept : tick' = [tick EXCEPT !.pc = "recover", !.slot = t, !.next = "next",
                                               !.accept = accept]
    BY <1>2, NextSlotFact, Zenon
  <2> QED
    BY <2>1, <2>2, <2>3, Zenon
<1>4. ModesAre(pol)'
  BY <1>1, <1>2, <1>3, Zenon DEF WavesFit, ModesAre
<1> QED
  BY <1>1, <1>3, <1>4, WavesQuiet, Zenon

\* A slot ends with the captured configuration in view.
LEMMA EndSlotWaves == ASSUME IInv, IInv', NEW pol, WavesFit(pol), EndSlot PROVE WavesFit(pol)'
<1>1. tick.pc = "skip" /\ TypeOK' /\ UNCHANGED <<occ, runs, at, cfg>> /\ tick.launches = {}
  BY Zenon DEF IInv, EndSlot
<1>2. tick \in Tick /\ tick.pc # "idle"
  BY <1>1, Busy, Zenon DEF IInv
<1>3. tick'.pc = "idle" \/ (tick'.view = tick.snap /\ tick'.snap = tick.snap
                            /\ tick'.pc = tick.next /\ tick'.launches = {})
  <2>1. CASE tick' = Idle
    BY <2>1, Zenon DEF Idle
  <2>2. CASE tick' = [tick EXCEPT !.pc = tick.next, !.view = tick.snap, !.used = {}, !.hidden = {},
                                  !.done = @ \cup {tick.slot}]
    BY <1>1, <1>2, <2>2, Zenon DEF Tick
  <2> QED
    BY <2>1, <2>2, ZenonT(40) DEF EndSlot
<1>4. ModesAre(pol)'
  BY <1>1, <1>2, <1>3, ZenonT(40) DEF WavesFit, ModesAre
<1>5. tick.next \in {"next", "save"}
  BY <1>2, TickParts, Zenon
<1> QED
  BY <1>1, <1>3, <1>4, <1>5, WavesQuiet, Zenon

\* An edit changes no mode.
LEMMA UpdatePolicyWaves ==
  ASSUME IInv, IInv', NEW pol, \A d \in Drafts : HasMode(d[2], pol[d[1]]), WavesFit(pol),
         NEW p \in Policies, UpdatePolicy(p)
  PROVE  WavesFit(pol)'
<1>1. PICK d \in Drafts : d[1] = p /\
        cfg' = [cfg EXCEPT !.pol[p] = d[2], !.since[p] = now, !.rev = @ + 1]
  BY Zenon DEF UpdatePolicy
<1>2. cfg \in Cfg
  BY Zenon DEF IInv, TypeOK
<1>3. cfg'.pol = [cfg.pol EXCEPT ![p] = d[2]] /\ cfg.pol \in [Policies -> Policy(Servers, Minutes)]
  BY <1>1, <1>2, Zenon DEF Cfg
<1>4. \A q \in Policies : cfg'.pol[q] = IF q = p THEN d[2] ELSE cfg.pol[q]
  BY <1>3, ZenonT(40)
<1>5. tick' = tick /\ TypeOK' /\ UNCHANGED <<occ, runs, at>>
  BY Zenon DEF IInv, UpdatePolicy
<1>6. ModesAre(pol)'
  BY <1>1, <1>4, <1>5, Zenon DEF WavesFit, ModesAre
<1> QED
  BY <1>5, <1>6, WavesQuiet, Zenon

\* Nor does a server that leaves.
LEMMA UpdateServerWaves ==
  ASSUME IInv, IInv', NEW pol, WavesFit(pol), NEW s \in Leavers, UpdateServer(s)
  PROVE  WavesFit(pol)'
<1>1. cfg \in Cfg /\ cfg' = [cfg EXCEPT !.off = IF s \in @ THEN @ \ {s} ELSE @ \cup {s}, !.rev = @ + 1]
  BY Zenon DEF IInv, TypeOK, UpdateServer
<1>2. cfg'.pol = cfg.pol
  BY <1>1, Zenon DEF Cfg
<1>3. tick' = tick /\ TypeOK' /\ UNCHANGED <<occ, runs, at>>
  BY ZenonT(40) DEF IInv, UpdateServer
<1>4. ModesAre(pol)'
  BY <1>2, <1>3, ZenonT(40) DEF WavesFit, ModesAre
<1> QED
  BY <1>3, <1>4, WavesQuiet, ZenonT(40)

\* The tick ends, or nothing about it changes, and no configuration does.
LEMMA OtherWaves ==
  ASSUME IInv, IInv', NEW pol, WavesFit(pol), cfg' = cfg, tick' = tick \/ tick' = Idle,
         UNCHANGED <<occ, at>>, SucceededKept
  PROVE  WavesFit(pol)'
<1>1. Idle.pc = "idle"
  BY Zenon DEF Idle
<1>2. ModesAre(pol)'
  BY <1>1, Zenon DEF WavesFit, ModesAre
<1>3. OccKept /\ NewFits(pol) /\ TypeOK'
  BY SameFits, Zenon DEF IInv
<1>4. \A k \in RunKeys : Launched(k)' => Launched(k)
  BY Zenon DEF Launched
<1> QED
  BY <1>1, <1>2, <1>3, <1>4, WavesKept, Zenon
\* A manifest that is accepted under a configuration of the same mode fits.
LEMMA AdmitsFits ==
  ASSUME IInv, tick.slot \in Minutes, NEW pol, NEW p \in Policies, NEW policy, NEW o \in Manifest,
         Admits(p, policy, o), policy.on, HasMode(policy, pol[p])
  PROVE  OccKept /\ NewFits(pol)
<1> DEFINE key == OccurrenceKey(policy, tick.slot)
<1>1. /\ OccKept
      /\ \A q \in Policies, j \in Keys : (q # p \/ j # key) => occ'[q][j] = occ[q][j]
  BY AdmitsFact
<1>2. key \in Keys
  BY KeyFact, Zenon
<1>3. /\ o.origin = tick.slot /\ Disjoint(o.batches) /\ (~policy.waves => Len(o.batches) <= 1)
      /\ occ' = occ \/ (~Accepted(p, key) /\ occ' = [occ EXCEPT ![p][key] = o])
  BY Zenon DEF Admits
<1>4. policy.waves => key = OccurrenceKey(pol[p], tick.slot)
  BY Zenon DEF HasMode, OccurrenceKey
<1>5. policy.waves <=> pol[p].waves
  BY Zenon DEF HasMode
<1>6. occ \in [Policies -> [Keys -> Manifest]]
  BY ZenonT(40) DEF IInv, TypeOK
<1> HIDE DEF key
<1>7. ASSUME NEW q \in Policies, NEW j \in Keys, ~Accepted(q, j), Accepted(q, j)'
      PROVE  /\ Disjoint(occ'[q][j].batches)
             /\ pol[q].waves => j = OccurrenceKey(pol[q], occ'[q][j].origin)
             /\ ~pol[q].waves => Len(occ'[q][j].batches) <= 1
  <2>1. q = p /\ j = key
    BY <1>1, <1>7, Zenon DEF Accepted
  <2>2. occ' # occ
    BY <1>7, Zenon DEF Accepted
  <2>3. occ'[q][j] = o
    BY <1>2, <1>3, <1>6, <2>1, <2>2, ZenonT(40)
  <2> QED
    BY <1>3, <1>4, <1>5, <2>1, <2>3, Zenon
<1> QED
  BY <1>1, <1>7, Zenon DEF NewFits

\* Accepting an occurrence releases nothing.
LEMMA AcceptNextWaves == ASSUME IInv, IInv', NEW pol, WavesFit(pol), AcceptNext PROVE WavesFit(pol)'
<1>1. /\ tick \in Tick /\ tick.pc = "accept" /\ tick.slot \in Minutes
      /\ tick'.pc \in {"accept", "plan"} /\ tick'.view = tick.view /\ tick'.snap = tick.snap
      /\ UNCHANGED <<cfg, runs, at>>
  BY AcceptNextFact, ZenonT(40)
<1>2. PICK p \in tick.accept, o \in Manifest : Admits(p, tick.view.pol[p], o)
  BY AcceptNextFact, Zenon
<1>3. p \in Policies
  BY <1>1, TickParts, Zenon
<1>4. HasMode(tick.view.pol[p], pol[p]) /\ tick.view.pol[p].on
  BY <1>1, <1>3, ZenonT(40) DEF WavesFit, ModesAre, IInv, TickInv, InSlot
<1>5. OccKept /\ NewFits(pol)
  BY <1>1, <1>2, <1>3, <1>4, AdmitsFits, Zenon
<1>6. ModesAre(pol)'
  BY <1>1, ZenonT(40) DEF WavesFit, ModesAre
<1>7. SucceededKept /\ TypeOK' /\ \A k \in RunKeys : Launched(k)' => Launched(k)
  BY <1>1, ZenonT(40) DEF SucceededKept, IInv, Launched
<1> QED
  BY <1>1, <1>5, <1>6, <1>7, WavesKept, Zenon

\* Nor does recording a missed one.
LEMMA RecoverNextWaves == ASSUME IInv, IInv', NEW pol, WavesFit(pol), RecoverNext PROVE WavesFit(pol)'
<1>1. /\ tick \in Tick /\ tick.pc = "recover" /\ tick.slot \in Minutes
      /\ tick'.pc \in {"recover", "skip"} /\ tick'.view = tick.view /\ tick'.snap = tick.snap
      /\ tick'.launches = tick.launches /\ UNCHANGED <<cfg, runs, at>>
  BY RecoverNextFact, ZenonT(40)
<1>2. PICK p \in tick.accept, o \in Manifest : Admits(p, tick.snap.pol[p], o)
  BY RecoverNextFact, Zenon
<1>3. p \in Policies
  BY <1>1, TickParts, Zenon
<1>4. HasMode(tick.snap.pol[p], pol[p]) /\ tick.snap.pol[p].on
  BY <1>1, <1>3, ZenonT(40) DEF WavesFit, ModesAre, IInv, TickInv
<1>5. OccKept /\ NewFits(pol)
  BY <1>1, <1>2, <1>3, <1>4, AdmitsFits, Zenon
<1>6. ModesAre(pol)'
  BY <1>1, Zenon DEF WavesFit, ModesAre
<1>7. SucceededKept /\ TypeOK' /\ \A k \in RunKeys : Launched(k)' => Launched(k)
  BY <1>1, Zenon DEF SucceededKept, IInv, Launched
<1>8. tick'.launches = {}
  BY <1>1, Zenon DEF IInv, TickInv
<1> QED
  BY <1>1, <1>5, <1>6, <1>7, <1>8, WavesKept, Zenon

\* What a dispatch decides to launch is released by the rows it reconciles.
LEMMA DecidedIsReleased ==
  ASSUME IInv, NEW pol, WavesFit(pol), Dispatch, NEW plan \in Plans, NEW i \in Nat,
         NEW k \in RunKeys, DecidedBy(k, plan, i)
  PROVE  ReleasedForGood(k, pol)'
<1>1. /\ tick \in Tick /\ tick.pc = "plan" /\ tick.slot \in Minutes
      /\ runs' = [l \in RunKeys |-> IF <<l[1], l[2]>> \in Scanned THEN Reconciled(l) ELSE runs[l]]
  BY DispatchFact, Zenon
<1>2. PICK closing \in SUBSET (Policies \X Keys) :
        occ' = [p \in Policies |-> [key \in Keys |->
                  IF <<p, key>> \in closing
                  THEN [occ[p][key] EXCEPT !.closed = TRUE] ELSE occ[p][key]]]
  BY DispatchFact, Zenon
<1>3. \A p \in Policies, key \in Keys :
           /\ occ'[p][key].origin = occ[p][key].origin
           /\ occ'[p][key].batches = occ[p][key].batches
  BY <1>2, ClosingFact, ZenonT(40) DEF IInv
<1>4. /\ plan.policy \in Policies /\ plan.o \in Manifest /\ plan.o.origin \in Minutes
      /\ \/ /\ plan.key \in Keys /\ plan.key # -1 /\ Accepted(plan.policy, plan.key)
            /\ plan.o = occ[plan.policy][plan.key] /\ plan.o.origin <= tick.slot
         \/ /\ plan.key = -1 /\ plan.o.origin = tick.slot
            /\ plan.policy \notin tick.used /\ ~Managed(tick.view.pol[plan.policy])
            /\ tick.view.pol[plan.policy].on
  BY <1>1, PlanFact, Zenon DEF IInv
<1>5. k[1] = plan.policy /\ k[2] = plan.o.origin /\ k[1] \in Policies /\ k[2] # 0
  <2>1. k = <<plan.policy, plan.o.origin, k[3]>>
    BY Zenon DEF DecidedBy
  <2>2. k[1] = plan.policy /\ k[2] = plan.o.origin
    BY <2>1
  <2> QED
    BY <1>4, <2>2, MinuteFact, Zenon
<1>6. ManifestsFit(pol) /\ HasMode(tick.view.pol[k[1]], pol[k[1]])
  BY <1>1, <1>5, Zenon DEF WavesFit, ModesAre
<1>7. CASE ~pol[k[1]].waves
  <2>1. \A key \in Keys : occ'[k[1]][key].origin = k[2] => Len(occ'[k[1]][key].batches) <= 1
    BY <1>3, <1>5, <1>6, <1>7, ZenonT(40) DEF ManifestsFit, Accepted
  <2>2. \A key \in Keys : occ'[k[1]][key].origin = k[2] => 2..Len(occ'[k[1]][key].batches) = {}
    BY <2>1
  <2>3. Released(k)'
    BY <2>2, Zenon DEF Released
  <2> QED
    BY <1>7, <2>3, Zenon DEF ReleasedForGood
<1>8. CASE pol[k[1]].waves
  <2>1. plan.key \in Keys /\ plan.o = occ[k[1]][plan.key]
    BY <1>4, <1>5, <1>6, <1>8, Zenon DEF HasMode, Managed
  <2>2. \E key \in Keys : occ'[k[1]][key].origin = k[2]
    BY <1>3, <1>5, <2>1, ZenonT(40)
  <2>3. \A key \in Keys : occ[k[1]][key].origin = k[2] => key = OccurrenceKey(pol[k[1]], k[2])
    BY <1>5, <1>6, <1>8, Zenon DEF ManifestsFit, Accepted
  <2>4. ASSUME NEW key \in Keys, occ'[k[1]][key].origin = k[2],
               NEW n \in 2..Len(occ'[k[1]][key].batches), k[3] \in occ'[k[1]][key].batches[n].servers,
               NEW j \in 1..(n-1), NEW s \in occ'[k[1]][key].batches[j].servers
        PROVE  runs'[<<k[1], k[2], s>>].status = "succeeded"
    <3>1. key = plan.key
      BY <1>3, <1>5, <2>1, <2>3, <2>4, ZenonT(40)
    <3>2. occ'[k[1]][key].batches = plan.o.batches
      BY <1>3, <1>5, <2>1, <3>1, ZenonT(40)
    <3>3. plan.o.batches \in Seq(Batch)
      BY <1>4, Zenon DEF Manifest
    <3>4. Disjoint(plan.o.batches)
      BY <1>5, <1>6, <2>1, Zenon DEF ManifestsFit, Accepted
    <3>5. i \in DOMAIN plan.o.batches /\ k[3] \in plan.o.batches[i].servers
          /\ BatchGate(plan.o.batches, i, RowsOf(plan)) \notin {"waiting", "failed"}
      BY ZenonT(40) DEF DecidedBy
    <3>6. n \in DOMAIN plan.o.batches /\ k[3] \in plan.o.batches[n].servers
      BY <2>4, <3>2, <3>3
    <3>7. n = i
      BY <3>4, <3>5, <3>6, Zenon DEF Disjoint
    <3>8. j \in 1..(i-1) /\ s \in plan.o.batches[j].servers
      BY <2>4, <3>2, <3>7, ZenonT(40)
    <3>9. RowsOf(plan)[s].status = "succeeded"
      BY <3>3, <3>5, <3>8, GateOpen, ZenonT(40)
    <3>10. <<k[1], k[2], s>> \in RunKeys /\ s \in Servers
      <4>1. plan.o.batches[j] \in Batch
        BY <3>3, <3>5, <3>8
      <4>2. s \in Servers
        BY <3>8, <4>1, Zenon DEF Batch
      <4> QED
        BY <4>2, KeyParts, Zenon DEF RunKeys
    <3>11. RowsOf(plan)[s] = Reconciled(<<k[1], k[2], s>>)
      BY <1>5, <3>10, Zenon DEF RowsOf
    <3>12. <<k[1], k[2]>> \in Scanned
      BY <1>5, Zenon DEF Scanned
    <3>13. runs'[<<k[1], k[2], s>>] = Reconciled(<<k[1], k[2], s>>)
      BY <1>1, <3>10, <3>12, Zenon
    <3> QED
      BY <3>9, <3>11, <3>13, Zenon
  <2>5. Released(k)'
    BY <2>4, ZenonT(40) DEF Released
  <2> QED
    BY <2>2, <2>5, Zenon DEF ReleasedForGood
<1> QED
  BY <1>7, <1>8, ZenonT(40)

\* A dispatch launches what its gates release.
LEMMA DispatchWaves == ASSUME IInv, IInv', NEW pol, WavesFit(pol), Dispatch PROVE WavesFit(pol)'
<1>1. /\ tick \in Tick /\ tick.pc = "plan" /\ UNCHANGED <<cfg, at, jobs>>
      /\ runs' = [k \in RunKeys |-> IF <<k[1], k[2]>> \in Scanned THEN Reconciled(k) ELSE runs[k]]
  BY DispatchFact, Zenon
<1>2. PICK closing \in SUBSET (Policies \X Keys) :
        occ' = [p \in Policies |-> [key \in Keys |->
                  IF <<p, key>> \in closing
                  THEN [occ[p][key] EXCEPT !.closed = TRUE] ELSE occ[p][key]]]
  BY DispatchFact, ZenonT(40)
<1>3. OccKept /\ \A p \in Policies, key \in Keys : occ'[p][key].origin = occ[p][key].origin
  BY <1>2, ClosingFact, Zenon DEF IInv
<1>4. PICK skips \in SUBSET RunKeys, launches \in SUBSET RunKeys :
        /\ tick' = [tick EXCEPT !.pc = "skip", !.skips = skips, !.launches = launches]
        /\ \A k \in launches : \E plan \in Plans : \E i \in Nat : DecidedBy(k, plan, i)
  BY DispatchFact, Zenon
<1>5. tick'.view = tick.view /\ tick'.snap = tick.snap /\ tick'.launches = launches
  BY <1>1, <1>4, ZenonT(40) DEF Tick
<1>6. ModesAre(pol)'
  BY <1>1, <1>5, Zenon DEF WavesFit, ModesAre
<1>7. NewFits(pol)
  BY <1>3, Zenon DEF NewFits, Accepted
<1>8. SucceededKept
  BY <1>1, ReconciledRows, ZenonT(40) DEF SucceededKept, IInv
<1>9. TypeOK /\ ManifestsFit(pol)
  BY Zenon DEF IInv, WavesFit
<1>10. ManifestsFit(pol)'
  BY <1>3, <1>7, <1>9, FitKept, Zenon
<1>11. \A k \in RunKeys : ReleasedForGood(k, pol) => ReleasedForGood(k, pol)'
  BY <1>3, <1>7, <1>8, <1>9, ReleasedKept, ZenonT(40)
<1>12. \A k \in RunKeys : Launched(k)' => ReleasedForGood(k, pol)'
  BY <1>1, <1>11, Zenon DEF WavesFit, Launched
<1>13. \A k \in launches : ReleasedForGood(k, pol)'
  BY <1>4, DecidedIsReleased, Zenon
<1> QED
  BY <1>5, <1>6, <1>10, <1>12, <1>13, Zenon DEF WavesFit, Launched
\* Writing the rows of what was decided.
LEMMA RowWaves ==
  ASSUME IInv, IInv', NEW pol, WavesFit(pol), UNCHANGED <<cfg, occ>>, SucceededKept,
         tick.pc \in {"skip", "start"}, tick'.view = tick.view, tick'.snap = tick.snap,
         tick'.launches \subseteq tick.launches,
         \A k \in RunKeys : Launched(k)' => Launched(k) \/ k \in tick.launches
  PROVE  WavesFit(pol)'
<1>1. OccKept /\ NewFits(pol) /\ TypeOK'
  BY SameFits, Zenon DEF IInv
<1>2. tick.pc # "idle"
  BY Zenon
<1>3. ModesAre(pol)'
  BY <1>2, ZenonT(40) DEF WavesFit, ModesAre
<1> QED
  BY <1>1, <1>3, WavesKept, ZenonT(40)

\* A skipped row is inserted where there is none.
LEMMA RecordSkippedWaves ==
  ASSUME IInv, IInv', NEW pol, WavesFit(pol), RecordSkipped PROVE WavesFit(pol)'
<1>1. tick.pc = "skip" /\ tick \in Tick /\ UNCHANGED <<cfg, occ, at>>
  BY Busy, Zenon DEF IInv, RecordSkipped
<1>0. PICK k \in tick.skips :
        \/ /\ runs' = [runs EXCEPT ![k] = IF @ = NoRow THEN [@ EXCEPT !.status = "skipped",
                                                             !.reason = "not_admitted"] ELSE @]
           /\ tick' = [tick EXCEPT !.skips = @ \ {k}]
        \/ runs' = runs /\ tick' = [tick EXCEPT !.skips = @ \ {k}, !.err = TRUE]
  BY Zenon DEF RecordSkipped
<1> DEFINE left == tick.skips \ {k}
           row == [runs[k] EXCEPT !.status = "skipped", !.reason = "not_admitted"]
<1>2. \/ runs' = [runs EXCEPT ![k] = IF runs[k] = NoRow THEN row ELSE runs[k]]
         /\ tick' = [tick EXCEPT !.skips = left]
      \/ runs' = runs /\ tick' = [tick EXCEPT !.skips = left, !.err = TRUE]
  BY <1>0, Zenon
<1>3. NoRow.status # "succeeded" /\ runs \in [RunKeys -> Row]
  BY Zenon DEF NoRow, IInv, TypeOK
<1> HIDE DEF left, row
<1>4. tick'.view = tick.view /\ tick'.snap = tick.snap /\ tick'.launches = tick.launches
  BY <1>1, <1>2, Zenon DEF Tick
<1>5. SucceededKept
  BY <1>2, <1>3, ZenonT(40) DEF SucceededKept
<1>6. \A l \in RunKeys : Launched(l)' => Launched(l)
  BY <1>1, Zenon DEF Launched
<1> QED
  BY <1>1, <1>4, <1>5, <1>6, RowWaves, ZenonT(40)

\* A queued row is inserted where there is none.
LEMMA LaunchWaves == ASSUME IInv, IInv', NEW pol, WavesFit(pol), Launch PROVE WavesFit(pol)'
<1>1. tick.pc = "skip" /\ tick \in Tick /\ UNCHANGED <<cfg, occ, at>>
  BY Busy, Zenon DEF IInv, Launch
<1>2. PICK k \in tick.launches :
        \/ runs[k] = NoRow /\ runs' = [runs EXCEPT ![k].status = "queued"]
           /\ tick' = [tick EXCEPT !.pc = "start"]
        \/ runs' = runs /\ tick' = [tick EXCEPT !.launches = @ \ {k}]
        \/ runs' = runs /\ tick' = [tick EXCEPT !.launches = @ \ {k}, !.err = TRUE]
  BY Zenon DEF Launch, Goto
<1> DEFINE left == tick.launches \ {k}
<1>3. NoRow.status # "succeeded" /\ runs \in [RunKeys -> Row]
  BY Zenon DEF NoRow, IInv, TypeOK
<1>4. left \subseteq tick.launches
  BY Zenon
<1>0. \/ tick' = [tick EXCEPT !.pc = "start"] \/ tick' = [tick EXCEPT !.launches = left]
      \/ tick' = [tick EXCEPT !.launches = left, !.err = TRUE]
  BY <1>2, Zenon
<1> HIDE DEF left
<1>5. tick'.view = tick.view /\ tick'.snap = tick.snap /\ tick'.launches \in {tick.launches, left}
  BY <1>0, <1>1, ZenonT(40) DEF Tick
<1>6. SucceededKept
  BY <1>2, <1>3, Zenon DEF SucceededKept
<1>7. \A l \in RunKeys : Launched(l)' => Launched(l)
  BY <1>1, Zenon DEF Launched
<1> QED
  BY <1>1, <1>4, <1>5, <1>6, <1>7, RowWaves, Zenon

\* Only what was released is started.
LEMMA StartWaves == ASSUME IInv, IInv', NEW pol, WavesFit(pol), Start PROVE WavesFit(pol)'
<1>1. tick.pc = "start" /\ tick \in Tick /\ UNCHANGED <<cfg, occ>>
  BY Busy, ZenonT(40) DEF IInv, Start
<1>2. PICK k \in tick.launches :
        /\ Least(k, tick.launches)
        /\ tick' = [tick EXCEPT !.pc = "skip", !.launches = @ \ {k}]
        /\ \/ /\ runs' = [runs EXCEPT ![k].status = "running", ![k].job = TRUE]
              /\ at' = [at EXCEPT ![k] = tick.now]
           \/ /\ runs' = [runs EXCEPT ![k].status = "skipped", ![k].reason = "not_admitted"]
              /\ at' = at
  BY Zenon DEF Start
<1> DEFINE left == tick.launches \ {k}
<1>3. tick' = [tick EXCEPT !.pc = "skip", !.launches = left]
  BY <1>2, Zenon
<1>4. runs[k].status # "succeeded"
  BY <1>1, <1>2, Zenon DEF IInv, RowInv
<1>5. left \subseteq tick.launches
  BY Zenon
<1>6. runs \in [RunKeys -> Row] /\ at \in [RunKeys -> 0..MaxTime]
  BY Zenon DEF IInv, TypeOK
<1> HIDE DEF left
<1>7. tick'.view = tick.view /\ tick'.snap = tick.snap /\ tick'.launches = left
  BY <1>1, <1>3, Zenon DEF Tick
<1>8. SucceededKept
  BY <1>2, <1>4, <1>6, ZenonT(40) DEF SucceededKept
<1>9. \A l \in RunKeys : Launched(l)' => Launched(l) \/ l \in tick.launches
  BY <1>2, <1>6, Zenon DEF Launched
<1> QED
  BY <1>1, <1>5, <1>7, <1>8, <1>9, RowWaves, Zenon

\* Jobs that end, and a restart, leave rows that succeeded alone.
LEMMA JobsWaves ==
  ASSUME IInv, IInv', NEW pol, WavesFit(pol), Restart \/ \E k \in RunKeys : JobEnds(k)
  PROVE  WavesFit(pol)'
<1>1. runs \in [RunKeys -> Row]
  BY ZenonT(40) DEF IInv, TypeOK
<1>2. CASE Restart
  <2>1. \A k \in RunKeys : runs'[k] = Interrupted(runs[k]) /\ runs[k] \in Row
    BY <1>1, <1>2, Zenon DEF Restart
  <2>2. SucceededKept
    BY <2>1, InterruptedFact, ZenonT(40) DEF SucceededKept
  <2> QED
    BY <1>2, <2>2, OtherWaves, Zenon DEF Restart
<1>3. ASSUME NEW k \in RunKeys, JobEnds(k) PROVE WavesFit(pol)'
  <2>1. PICK end \in {"succeeded", "failed"} :
           \/ runs' = [runs EXCEPT ![k].status = end, ![k].reason = "job"]
           \/ runs' = runs
    BY <1>3, Zenon DEF JobEnds
  <2>2. runs[k].status # "succeeded"
    BY <1>3, ZenonT(40) DEF IInv, RowInv, JobEnds
  <2>3. SucceededKept
    BY <1>1, <2>1, <2>2, Zenon DEF SucceededKept
  <2> QED
    BY <1>3, <2>3, OtherWaves, Zenon DEF JobEnds
<1> QED
  BY <1>2, <1>3, Zenon

\* Every step keeps waves behind their gates, if no edit changes a mode.
LEMMA NextWaves ==
  ASSUME IInv, IInv', NEW pol, \A d \in Drafts : HasMode(d[2], pol[d[1]]), WavesFit(pol), [Next]_vars
  PROVE  WavesFit(pol)'
<1>1. CASE Step /\ ~Save
  BY <1>1, NextSlotWaves, AcceptNextWaves, RecoverNextWaves, DispatchWaves, RecordSkippedWaves,
     LaunchWaves, StartWaves, EndSlotWaves, ZenonT(40) DEF Step
<1>2. CASE \/ \E p \in Policies : UpdatePolicy(p)
           \/ \E s \in Leavers : UpdateServer(s)
  BY <1>2, UpdatePolicyWaves, UpdateServerWaves, Zenon
<1>3. CASE \/ RememberMissedTick \/ MaintenanceBegins \/ MaintenanceEnds \/ Advance
           \/ Crash \/ Save \/ UNCHANGED vars
  <2>1. UNCHANGED <<cfg, occ, runs, at>> /\ (tick' = tick \/ tick' = Idle)
    BY <1>3, Zenon DEF RememberMissedTick, MaintenanceBegins, MaintenanceEnds, Advance,
       Crash, Save, vars
  <2>2. SucceededKept
    BY <2>1, Zenon DEF SucceededKept
  <2> QED
    BY <2>1, <2>2, OtherWaves, ZenonT(40)
<1> QED
  BY <1>1, <1>2, <1>3, CaptureWaves, JobsWaves, Zenon DEF Next, Step

\* At the start nothing is accepted or launched, and the configuration is an instance's.
LEMMA InitWaves ==
  ASSUME NEW pol, \A i \in Instances, p \in Policies : HasMode(i.pol[p], pol[p]), Init
  PROVE  WavesFit(pol)
<1>1. PICK i \in Instances :
        cfg = [pol |-> i.pol, off |-> {}, since |-> [p \in Policies |-> 0], rev |-> 0]
  BY Zenon DEF Init
<1>2. cfg.pol = i.pol /\ tick.pc = "idle"
  BY <1>1, Zenon DEF Init, Idle
<1>3. ModesAre(pol)
  BY <1>2, Zenon DEF ModesAre
<1>4. \A p \in Policies, key \in Keys : ~Accepted(p, key)
  BY Zenon DEF Accepted, Init, NoOccurrence
<1>5. ManifestsFit(pol)
  BY <1>4, Zenon DEF ManifestsFit
<1>6. \A k \in RunKeys : ~Launched(k)
  BY Zenon DEF Init, Launched
<1>7. tick.pc \notin {"skip", "start"}
  BY <1>2, Zenon
<1> QED
  BY <1>3, <1>5, <1>6, <1>7, ZenonT(40) DEF WavesFit

\* A launched member of a wave was released, and is.
LEMMA ReleasedHasWaited == ASSUME NEW pol, WavesFit(pol) PROVE WavesWaitForSuccess
<1>1. \A k \in RunKeys : Launched(k) => Released(k)
  BY Zenon DEF WavesFit, ReleasedForGood
<1> QED
  BY <1>1, ZenonT(40) DEF WavesWaitForSuccess, Released, ManifestOf

\* A wave is launched only when every member of every earlier batch has succeeded,
\* through crashes, replays and edits that keep a rollout's mode (rolloutGateState).
THEOREM WavesWaitForTheirPredecessors ==
  ASSUME RolloutsKeepTheirMode
  PROVE  Spec => []WavesWaitForSuccess
<1>1. PICK mode \in [Policies -> Policy(Servers, Minutes)] :
        /\ \A i \in Instances, p \in Policies : HasMode(i.pol[p], mode[p])
        /\ \A d \in Drafts : HasMode(d[2], mode[d[1]])
  BY Zenon DEF RolloutsKeepTheirMode
<1>2. Init => WavesFit(mode)
  BY <1>1, InitWaves, Zenon
<1>3. IInv /\ IInv' /\ WavesFit(mode) /\ [Next]_vars => WavesFit(mode)'
  BY <1>1, NextWaves, Zenon
<1>4. WavesFit(mode) => WavesWaitForSuccess
  BY ReleasedHasWaited, Zenon
<1> QED
  BY <1>2, <1>3, <1>4, Invariance, PTL DEF Spec

=============================================================================
