---------------------------- MODULE RolloutPlan ----------------------------
(***************************************************************************)
(* The pure part of the policy scheduler (internal/policies/service.go):   *)
(* which servers a policy matches, how they are dealt into a canary batch  *)
(* and waves, which policy wins a server, and what the rows of earlier     *)
(* batches say about the next one.  Servers are numbers, in name order;    *)
(* times are minutes.                                                      *)
(***************************************************************************)
EXTENDS RunRecords, Integers, Sequences, FiniteSets, FiniteSetsExt

\* Policy: on (enabled), due (minutes at which its cadence is due), once
\* (cadence once), waves (rollout canary_waves), targets (servers its tags
\* and names select), canaries (explicit canaries, {} when automatic),
\* canary, size, delay (rollout numbers), rank (mode and scope priority),
\* dark (minutes of its own blackouts).
Policy(Server, Minute) ==
  [on : BOOLEAN, due : SUBSET Minute, once : BOOLEAN, waves : BOOLEAN,
   targets : SUBSET Server, canaries : SUBSET Server,
   canary : Nat, size : Nat, delay : Nat, rank : Nat, dark : SUBSET Minute]

\* PolicyMatchesServer: off are the servers that are gone, disabled or
\* overridden.
Matched(policy, off) == IF policy.on THEN policy.targets \ off ELSE {}

\* A one-time policy and a rollout in waves keep a manifest.
Managed(policy) == policy.once \/ policy.waves

DefaultCanaryCount == 1

DefaultWaveSize == 10

DefaultWaveDelayMinutes == 15

OrDefault(n, default) == IF n <= 0 THEN default ELSE n

\* The servers in the order in which they are dealt, explicit canaries first,
\* else by name: the position of each says in which batch it is.
BuildRolloutBatches(policy, names) ==
  LET explicit == policy.canaries # {}
      Before(r, s) == IF explicit /\ (r \in policy.canaries) # (s \in policy.canaries)
                      THEN r \in policy.canaries ELSE r < s
      Position(s)  == Cardinality({r \in names : Before(r, s)})
      count    == IF explicit THEN Cardinality(policy.canaries)
                  ELSE OrDefault(policy.canary, DefaultCanaryCount)
      canary   == Min({count, Cardinality(names)})
      size     == OrDefault(policy.size, DefaultWaveSize)
      delay    == OrDefault(policy.delay, DefaultWaveDelayMinutes)
      waves    == (Cardinality(names) - canary + size - 1) \div size
      Batch(s) == IF Position(s) < canary THEN 1
                  ELSE 2 + (Position(s) - canary) \div size
  IN  IF names = {} THEN << >>
      ELSE IF ~policy.waves THEN <<[servers |-> names, delay |-> 0]>>
      ELSE IF ~(policy.canaries \subseteq names) THEN << >>
      ELSE [i \in 1..(waves + 1) |->
              [servers |-> {s \in names : Batch(s) = i}, delay |-> (i - 1) * delay]]

Members(batches) == UNION {batches[i].servers : i \in DOMAIN batches}

\* ComparePolicyCandidates: a, b are [policy |-> id, rank |-> n, origin |-> minute].
Beats(a, b) ==
  \/ a.rank < b.rank
  \/ a.rank = b.rank /\ a.policy < b.policy
  \/ a.rank = b.rank /\ a.policy = b.policy /\ a.origin < b.origin

\* newOccurrence: the manifest of a policy's occurrence.
NewOccurrence(policy, origin, off) ==
  LET names   == Matched(policy, off)
      missing == policy.waves /\ ~(policy.canaries \subseteq names)
      all     == IF missing THEN names \cup policy.canaries ELSE names
  IN  [origin  |-> origin,
       batches |-> BuildRolloutBatches(policy, all),
       block   |-> IF all = {} THEN "no_match"
                   ELSE IF missing THEN "canary_unavailable" ELSE "",
       rank    |-> policy.rank,
       dark    |-> policy.dark,
       closed  |-> FALSE]

\* Mutant: a predecessor without a row holds nothing back.
MissingIsReady(previous, row) ==
  LET states == {row[s].status : s \in UNION {b.servers : b \in previous}}
  IN  IF states \subseteq {"succeeded", "absent"} THEN "ready"
      ELSE IF states \cap TerminalRun # {"succeeded"} THEN "failed" ELSE "waiting"

\* rolloutGateState: the rows of all earlier batches, in order; the first
\* one that has not succeeded decides.
RolloutGateState(previous, row) ==
  LET Verdict(s) == CASE row[s].status = "succeeded"                    -> "ready"
                      [] row[s].status \in TerminalRun \ {"succeeded"}  -> "failed"
                      [] OTHER                                          -> "waiting"
      late    == {b \in previous : \E s \in b.servers : Verdict(s) # "ready"}
      first   == {b \in late : \A c \in late : b.delay <= c.delay}
      stopped == {s \in UNION {b.servers : b \in first} : Verdict(s) # "ready"}
  IN  IF late = {} THEN "ready"
      ELSE IF \E s \in stopped : Verdict(s) = "failed" /\ \A r \in stopped : s <= r
      THEN "failed" ELSE "waiting"

\* rolloutHistoryGate: any failed row of the occurrence fails it, whoever is
\* still a member; an active row of a server that is no member holds it.
RolloutHistoryGate(members, row) ==
  IF \E s \in DOMAIN row : row[s].status \in TerminalRun \ {"succeeded"} THEN "failed"
  ELSE IF \E s \in DOMAIN row \ members : row[s].status \in ActiveRun THEN "waiting"
  ELSE "ready"

\* The gate of batch i: the history's verdict wins when it is worse.
BatchGate(batches, i, row) ==
  LET history == RolloutHistoryGate(Members(batches), row)
      gate    == RolloutGateState({batches[j] : j \in 1..(i-1)}, row)
  IN  IF history = "failed" \/ (gate = "ready" /\ history = "waiting")
      THEN history ELSE gate

=============================================================================
