SPECIFICATION Spec
CONSTANTS
  a1 = a1
  Actions = {a1}
  Kinds = {"update", "autoremove", "apt_repair", "reboot"}
  Policies = FALSE
  Packages = {"p1"}
  StorageFails = FALSE
  MaxJobs = 3
  MaxAdmissions = 2
  MaxApprovals = 1
  MaxEdits = 0
INVARIANTS
  UnknownOutcomeSurvivesRestart
  RepairComesFirst
