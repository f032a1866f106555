SPECIFICATION FairSpec
CONSTANTS
  None = None
  p1 = p1
  p2 = p2
  Procs = {p1, p2}
  LastJob = 3
  Enabled = {1, 3}
  Interval <- ThreeIntervals
  RetryDelay = 3
  CycleLimit = 2
  MaxTime = 6
  MaxCrashes = 1
INVARIANT OneRunPerJob
PROPERTY ClaimsSpaced
 
PROPERTY NoJobStarves
