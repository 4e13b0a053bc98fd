------------------------- MODULE MCPolicyScheduler -------------------------
(***************************************************************************)
(* Two servers, three minutes.  A rollout (canary 1, then server 2 a       *)
(* minute later) and a one-time policy on server 2 are due in the first    *)
(* minute; edits turn the one-time policy into a repeating one that        *)
(* competes with the wave, and give the rollout another canary and time.   *)
(* Repeated is due in two minutes, the second one in a no-run window, and  *)
(* starts without a watermark.                                             *)
(***************************************************************************)
EXTENDS PolicyScheduler

Base == [on |-> TRUE, due |-> {}, once |-> FALSE, waves |-> FALSE, targets |-> Servers,
         canaries |-> {}, canary |-> 1, size |-> 1, delay |-> 1, rank |-> 1, dark |-> {}]

Rollout == [Base EXCEPT !.waves = TRUE, !.due = {1}]

Once == [Base EXCEPT !.once = TRUE, !.due = {1}, !.targets = {2}, !.rank = 0]

Repeated == [Base EXCEPT !.due = {1, 2}, !.dark = {2}]

Off == [Base EXCEPT !.on = FALSE]

MCInstances == {[pol |-> <<Rollout, Off>>, found |-> TRUE, budget |-> 1, crashes |-> 1],
                [pol |-> <<Off, Once>>, found |-> TRUE, budget |-> 1, crashes |-> 1],
                [pol |-> <<Off, Repeated>>, found |-> FALSE, budget |-> 0, crashes |-> 1],
                [pol |-> <<Rollout, Once>>, found |-> TRUE, budget |-> 0, crashes |-> 0]}

MCDrafts == {<<1, [Rollout EXCEPT !.canaries = {2}, !.due = {2}]>>,
             <<2, [Once EXCEPT !.once = FALSE, !.due = {2}]>>}

=============================================================================
