SPECIFICATION Spec
CONSTANTS
  NoTime = NoTime
  NoRecord = NoRecord
  DayLength = 3
  WeekLength = 2
  p1 = p1
  p2 = p2
  Procs = {p1, p2}
  Fixed <- MCFixed
  Catalog <- MCCatalog
  Verified <- MCVerified
  Supported <- MCSupported
  Legacy = {}
  n101 = n101
  n102 = n102
  Numbers = {n101, n102}
  MaxLen = 2
  LastMinute = 3
  MaxCycles = 1
  Enabled = TRUE
CHECK_DEADLOCK FALSE
INVARIANT RegisteredIsFound
