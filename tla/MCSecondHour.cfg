SPECIFICATION MCSpec
CONSTANTS
  w1 = w1
  Parts = {"calendar"}
  Archives <- Uploads
  MaxRestores = 2
  MaxFaults = 3
  MaxCrashes = 2
  ExitsWhenShort = FALSE
  Zones <- RepeatingZones
  JustSaved = TRUE
INVARIANT RunsAsPreviewed
CHECK_DEADLOCK FALSE
