SPECIFICATION Spec
CONSTANTS
  a1 = a1
  Actions = {a1}
  Kinds = {"update", "autoremove"}
  Policies = FALSE
  Packages = {"p1"}
  StorageFails = TRUE
  MaxJobs = 1
  MaxAdmissions = 1
  MaxApprovals = 2
  MaxEdits = 1
INVARIANTS
  CommandIsOnRecord
  NoOrphanedProgress
