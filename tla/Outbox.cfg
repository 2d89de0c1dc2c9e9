SPECIFICATION FairSpec
CHECK_DEADLOCK FALSE
CONSTANTS
  p1 = p1
  p2 = p2
  Last = 2
  Pass = {p1, p2}
  StoreFails = TRUE
  MaxSessions = 2
INVARIANTS
  NoFalseClaim
  InOrder
PROPERTIES
  ProgressKept
  Drains
