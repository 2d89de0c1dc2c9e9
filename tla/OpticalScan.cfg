SPECIFICATION Spec
CONSTANTS
  card = card
  nonce = nonce
  Payload = {card, nonce}
  Length <- MCLength
  Session <- MCSession
  Checksum <- MCChecksum
  SeqSpace = 3
  Indices <- MCIndices
  MaxK = 3
  MaxBlockLen = 3
  MaxTotalLen = 7
  TargetBlocks = 3
  MinBlockLen = 1
  Scans = 2
  Slot = {1, 2}
  Noise <- MCNoise
  EmittedMemory = 1
CHECK_DEADLOCK FALSE
INVARIANTS
  Exact
  SolvesAllItCan
  StoppedIsDark
  LightIsOwned
