SPECIFICATION Spec
CONSTANTS
  a1 = a1
  Actions = {a1}
  Kinds = {"autoremove", "apt_repair"}
  Policies = FALSE
  Packages = {"p1"}
  StorageFails = FALSE
  MaxJobs = 3
  MaxAdmissions = 3
  MaxApprovals = 1
  MaxEdits = 1
INVARIANTS
  RepairComesFirst
