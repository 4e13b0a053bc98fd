--------------------------- MODULE AtomicRestore ---------------------------
(***************************************************************************)
(* What a backup restore promises (docs/architecture.md, "Backup and       *)
(* restore"): whoever is served sees one whole data set.  A restore that   *)
(* succeeds shows the archived one, a restore that fails shows the one     *)
(* shown before, and when neither can be had the application stays closed  *)
(* until an operator intervenes, through restarts too.                     *)
(***************************************************************************)
EXTENDS Naturals

VARIABLES
  mode,     \* "serving", "busy" (a restore runs), "down" or "latched"
  data,     \* the data set last shown
  next,     \* the data set being restored, or data itself
  result    \* what the last restore answered

vars == <<mode, data, next, result>>

Init == mode = "serving" /\ data = 0 /\ next = 0 /\ result = "none"

Begin ==
  /\ mode = "serving"
  /\ mode' = "busy" /\ next' > data /\ result' = "none"
  /\ UNCHANGED data

\* The gate opens again.  An answer that only says the gate could not be
\* cleared leaves open which of the two is shown.
End ==
  /\ mode = "busy"
  /\ mode' = "serving"
  /\ \/ result' = "restored" /\ data' = next
     \/ result' = "failed" /\ data' = data
     \/ result' = "unreleased" /\ data' \in {data, next}
  /\ next' = data'

Latch == mode \in {"busy", "down"} /\ mode' = "latched" /\ UNCHANGED <<data, next, result>>

Stop == mode # "down" /\ mode' = "down" /\ UNCHANGED <<data, next, result>>

\* A restart shows what was shown, or the other set if the restore had ended.
Start ==
  /\ mode = "down" /\ mode' = "serving"
  /\ data' \in {data, next} /\ next' = data'
  /\ UNCHANGED result

Next == Begin \/ End \/ Latch \/ Stop \/ Start

Spec == Init /\ [][Next]_vars

=============================================================================
