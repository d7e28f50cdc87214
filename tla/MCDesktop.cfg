SPECIFICATION FairSpec
CONSTANTS
  MaxDevice = 3
  MaxClicks = 4
  MaxStarts = 2
INVARIANTS
  TypeOK
  TrackedLoginIsSaved
PROPERTIES
  AcceptedTokenKept
  LogoutTakesEffect
  QuitEnds
CHECK_DEADLOCK FALSE
