SPECIFICATION LockSpec
CONSTANTS
  p1 = p1
  p2 = p2
  p3 = p3
  Processes = {p1, p2, p3}
  Gone = gone
  Windows = TRUE
  Attempts = 2
INVARIANTS
  LockInv
PROPERTIES
  AloneGetsIn
SYMMETRY Permuted
CHECK_DEADLOCK FALSE
