SPECIFICATION Spec
CONSTANTS
  a1 = a1
  a2 = a2
  Actions = {a1, a2}
  Kinds = {"update", "autoremove", "apt_repair", "reboot", "sudoers"}
  Policies = TRUE
  Packages = {"p1"}
  StorageFails = FALSE
  MaxJobs = 2
  MaxAdmissions = 2
  MaxApprovals = 1
  MaxEdits = 0
SYMMETRY ActionSymmetry
INVARIANTS
  RunnerOwnsServer
PROPERTIES
  JobsAdvance
