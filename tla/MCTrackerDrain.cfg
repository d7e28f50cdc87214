SPECIFICATION FairSpec
CONSTANTS
  AfkPoll = 0
  AfkTimeout = 2
  MergeWindow = 1
  RetryEvery = 0
  CheckpointEvery = 0
  PruneEvery = 9
  Retention = 9
  FlushBatch = 2
  Answers = {"ok", "lost", "refused"}
  Observing = FALSE
  Tray = FALSE
  DayLength = 9
  MaxTime = 2
  MaxDevice = 1
  MaxProcesses = 2
  MaxLate = 1
  MaxFailures = 0
INVARIANTS
  SentIsOnServer
  PendingFlagSound
PROPERTIES
  PendingDrains
  ImplementsOutbox
CHECK_DEADLOCK FALSE
