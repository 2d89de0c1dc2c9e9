SPECIFICATION Spec
CONSTANTS
  alice = alice
  bob = bob
  Sender <- MCSender
  Message <- MCMessage
  From <- MCFrom
  Timestamp <- MCTimestamp
  Window = 3
  Skew = 1
  PruneEvery = 3
  MaxPerSender = 2
  MaxTotal = 2
  Now = {1, 4}
  MaxAdmits = 5
INVARIANTS
  Remembered
  CountExact
  MemoryBound
PROPERTIES
  NoReaccept
  FilterSpec
