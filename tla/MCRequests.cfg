SPECIFICATION MCSpec
CONSTANTS
  Requests = {r1, r2}
  Keys = {k1, k2}
  None = none
  MaxOps = 3
  MaxFaults = 1
  a1 = a1
SYMMETRY RequestSymmetry
INVARIANTS
  CacheFollowsStore
  
  SessionsAreCurrent
  DetailsTellTheUse
  
PROPERTIES
  FactorsAreCurrentAndUnspent
  OnboardingKeepsTrust
  BulkIsReviewed
CHECK_DEADLOCK FALSE
