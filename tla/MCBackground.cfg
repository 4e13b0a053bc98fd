SPECIFICATION MCFairSpec
CONSTANTS
  Endpoints = {"a", "b"}
  RefreshAfter = 2
  RetryBase = 1
  RetryMax = 3
PROPERTIES
  RefreshIsSafe
  KeepsFresh
  
  OutboxDrains
CHECK_DEADLOCK FALSE
