SPECIFICATION FairSpec
CONSTANTS
  a1 = a1
  Actions = {a1}
  Kinds = {"update", "apt_repair", "reboot"}
  Policies = FALSE
  Packages = {"p1"}
  StorageFails = FALSE
  MaxJobs = 2
  MaxAdmissions = 2
  MaxApprovals = 2
  MaxEdits = 0
PROPERTIES
  ActionsComeToRest
