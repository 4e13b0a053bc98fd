----------------------- MODULE MCMaintenanceCoordinator -----------------------
(* MaintenanceCoordinator for TLC: one request and two exclusive leases.  The  *)
(* run checks liveness, so no symmetry is declared.                            *)
EXTENDS MaintenanceCoordinator
===============================================================================
