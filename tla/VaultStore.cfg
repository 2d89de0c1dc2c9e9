SPECIFICATION MCSpec
CONSTANTS
  alice = alice
  k1 = k1
  k2 = k2
  s1 = s1
  r1 = r1
  box1 = box1
  box2 = box2
  tok = tok
  wire = wire
  id1 = id1
  id2 = id2
  Absent = Absent
  Own = Own
  Mistyped = Mistyped
  Salt = Salt
  Seeds = Seeds
  ARGON2_FLOOR <- MCFloor
  ARGON2_CEILING <- MCCeiling
  Params <- MCParams
  Token = {tok}
  Send = {s1}
  Receive = {r1}
  RecordOf <- MCRecordOf
  Commit = {k1, k2}
  Pairing <- MCPairing
  Older <- MCOlder
  StoreFails = TRUE
  MaxSessions = 2
  MaxWaiting = 2
  MaxMessages = 1
CHECK_DEADLOCK FALSE
INVARIANTS
  AckedStays
  ListedIsDurable
  WaitersAreInLine
PROPERTIES
  CellSpec
