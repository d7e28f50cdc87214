SPECIFICATION Spec
CONSTANTS
  d1 = d1
  d2 = d2
  m1 = m1
  m2 = m2
  w1 = w1
  w2 = w2
  Devices = {d1}
  Accounts = {m1}
  Workers = {w1, w2}
  TTL = 1
  MaxEntries = 1
  MaxDelay = 1
  MaxUsers = 1
  MaxTokens = 2
  MaxTime = 1
SYMMETRY Symmetry
INVARIANT
  ReplacedSessionRefused
CHECK_DEADLOCK FALSE
