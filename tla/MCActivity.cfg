SPECIFICATION Spec
CONSTANTS
  a = a
  b = b
  w1 = w1
  w2 = w2
  Users = {a, b}
  Workers = {w1, w2}
  MergeWindow = 2
  Day = 2
  RetainedDays = 2
  CleanupAt = 1
  ReportDelay = 1
  MaxNow = 5
  Ticks = {0, 1, 3}
  MaxRequests = 3
SYMMETRY Symmetry
INVARIANTS
  TypeOK
  AcknowledgedIsStored
  ReportCountsAcknowledged
  TimelineComplete
PROPERTY
  RowsOnlyGrow
CHECK_DEADLOCK FALSE
