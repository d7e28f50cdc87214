SPECIFICATION Spec
CONSTANTS
  MaxDevice = 2
  MaxClicks = 2
  MaxStarts = 1
INVARIANT
  LogoutHonoured
CHECK_DEADLOCK FALSE
