SPECIFICATION FairSpec
CHECK_DEADLOCK FALSE
CONSTANTS
  x1 = x1
  x2 = x2
  hello = hello
  b1 = b1
  b2 = b2
  p1 = p1
  p2 = p2
  Me <- MCMe
  Peer <- MCPeer
  Blob = {b1, b2}
  Settings <- MCSettings
  Said <- MCSaid
  nowMs = 1
  CLOCK_SKEW_MS = 1
  Pass = {p1, p2}
  MaxPulls = 2
  StoreFails = TRUE
  MaxSessions = 2
INVARIANTS
  NoDuplicate
  HeldIsShown
  LossesAreNamed
  OnlySaid
PROPERTIES
  Collected
