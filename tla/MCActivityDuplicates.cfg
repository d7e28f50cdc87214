SPECIFICATION Spec
CONSTANTS
  a = a
  b = b
  w1 = w1
  w2 = w2
  Users = {a}
  Workers = {w1, w2}
  MergeWindow = 1
  Day = 2
  RetainedDays = 2
  CleanupAt = 1
  ReportDelay = 1
  MaxNow = 1
  Ticks = {0, 1}
  MaxRequests = 2
INVARIANT
  NoDuplicateRows
CHECK_DEADLOCK FALSE
