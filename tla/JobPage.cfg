SPECIFICATION PSpec
CONSTANTS
  c1 = c1
  c2 = c2
  MaxJobs = 3
  StopCalls = {c1, c2}
INVARIANTS
  PageMatchesBackend
PROPERTIES
  EndReachesPage
CHECK_DEADLOCK FALSE
