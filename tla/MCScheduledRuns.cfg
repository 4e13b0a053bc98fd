SPECIFICATION FairSpec
CONSTANTS
  Runs = {r1}
  Modes = {"scan", "mutation"}
  Ends = {"succeeded", "failed"}
  MaxFaults = 1
  MaxOutside = 1
  MaxStops = 1
INVARIANTS
  EndsOnceAsItsJob
  
PROPERTIES
  RowsAdvance
  RunsEnd
CHECK_DEADLOCK FALSE
