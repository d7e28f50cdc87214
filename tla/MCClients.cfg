SPECIFICATION Spec
CONSTANTS
  p1 = p1
  p2 = p2
  p3 = p3
  Procs = {p1, p2}
  MaxDevice = 3
  MaxStarts = 3
SYMMETRY Symmetry
INVARIANTS
  TypeOK
  OneTracker
PROPERTIES
  DiscardOnlyRefused
  LoginKept
CHECK_DEADLOCK FALSE
