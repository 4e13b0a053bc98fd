SPECIFICATION MCSpec
CONSTANTS
  w1 = w1
  Parts = {"format", "automation", "restore", "logs", "conditions", "calendar"}
  Archives <- Uploads
  MaxRestores = 2
  MaxFaults = 3
  MaxCrashes = 2
  ExitsWhenShort = FALSE
  Zones <- PlainZones
  JustSaved = FALSE
INVARIANTS
  RestoreIsSafe
  
  LogIsKeptAndFollowed
  ConditionsTellTheFacts
  
  CalendarIsKept
PROPERTIES
  RestoreIsAtomic
  
CHECK_DEADLOCK FALSE
