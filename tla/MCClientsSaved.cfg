SPECIFICATION Spec
CONSTANTS
  p1 = p1
  p2 = p2
  p3 = p3
  Procs = {p1, p2}
  MaxDevice = 4
  MaxStarts = 3
SYMMETRY Symmetry
PROPERTIES
  SavedForFutureRuns
CHECK_DEADLOCK FALSE
