SPECIFICATION Spec
CONSTANTS
  AfkPoll = 1
  AfkTimeout = 2
  MergeWindow = 2
  RetryEvery = 3
  CheckpointEvery = 3
  PruneEvery = 2
  Retention = 2
  FlushBatch = 1
  Answers = {"ok", "lost", "refused"}
  Observing = FALSE
  Tray = FALSE
  DayLength = 9
  MaxTime = 4
  MaxDevice = 2
  MaxProcesses = 3
  MaxLate = 0
  MaxFailures = 1
INVARIANTS
  TypeOK
  SentIsOnServer
  PendingFlagSound
PROPERTIES
  DiscardedNeverUploaded
  ImplementsOutbox
CHECK_DEADLOCK FALSE
