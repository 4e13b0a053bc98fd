SPECIFICATION FairSpec
CONSTANTS
  Servers = {1, 2}
  Policies = {1, 2}
  Instances <- MCInstances
  Drafts <- MCDrafts
  Leavers = {2}
  MaxTime = 3
INVARIANTS HistoryIsNeverLaunched WavesWaitForSuccess
PROPERTIES NeitherLostNorRepeated OccurrencesClose
CHECK_DEADLOCK FALSE
