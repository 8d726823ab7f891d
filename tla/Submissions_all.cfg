SPECIFICATION BoundedSpec
CONSTANTS
  j1 = j1
  j2 = j2
  Jobs <- TwoJobs
  Workers = {w1, w2}
  TestsOf <- TwoAndOne
  MaxCrashes = 1
INVARIANTS VerdictEarned ToldIsStored BacklogStays
PROPERTY EveryJobDecided
CHECK_DEADLOCK FALSE
