SPECIFICATION Spec
CONSTANTS
  t1 = t1
  t2 = t2
  purge = purge
  m1 = m1
  m2 = m2
  b1 = b1
  b2 = b2
  Thread = {t1, t2}
  Purger = purge
  Mailbox = {m1, m2}
  Blob = {b1, b2}
  Home <- MCHome
  MaxBlobs = 1
  MaxTotal = 1
  MaxMailboxes = 2
  Crashes = TRUE
  Returns = FALSE
INVARIANTS
  LedgerExact
  CapRespected
  AcceptedStays
  TmpsOwned
SYMMETRY MCSymmetry
