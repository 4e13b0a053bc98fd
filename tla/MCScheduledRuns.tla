--------------------------- MODULE MCScheduledRuns ---------------------------
(* ScheduledRuns for TLC.  The run checks liveness, so no symmetry is declared. *)
EXTENDS ScheduledRuns
===============================================================================
