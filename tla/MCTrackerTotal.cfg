SPECIFICATION Spec
CONSTANTS
  AfkPoll = 2
  AfkTimeout = 6
  MergeWindow = 12
  RetryEvery = 2
  CheckpointEvery = 10
  PruneEvery = 40
  Retention = 40
  FlushBatch = 1
  Answers = {"lost"}
  Observing = FALSE
  Tray = FALSE
  DayLength = 9
  MaxTime = 12
  MaxDevice = 1
  MaxProcesses = 2
  MaxLate = 0
  MaxFailures = 0
INVARIANT
  TrackedExcludesAfk
CHECK_DEADLOCK FALSE
