SPECIFICATION Spec
CONSTANTS
  AfkPoll = 1
  AfkTimeout = 2
  MergeWindow = 3
  RetryEvery = 3
  CheckpointEvery = 3
  PruneEvery = 3
  Retention = 3
  FlushBatch = 1
  Answers = {"lost"}
  Observing = TRUE
  Tray = TRUE
  DayLength = 3
  MaxTime = 5
  MaxDevice = 1
  MaxProcesses = 3
  MaxLate = 0
  MaxFailures = 1
INVARIANTS
  NoObservationLost
  CrashLossBounded
  NoTimeRecordedTwice
  TrayNotBehind
  TrayNotAhead
CHECK_DEADLOCK FALSE
