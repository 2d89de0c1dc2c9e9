SPECIFICATION FairSpec
CONSTANTS
  a1 = a1
  a2 = a2
  a3 = a3
  o1 = o1
  o2 = o2
  None = None
  Attempt = {a1, a2, a3}
  Op = {o1, o2}
  WorkerMayDie = TRUE
  BadCards = TRUE
CHECK_DEADLOCK FALSE
INVARIANTS
  KeysMatch
  PassphraseFollows
  RefusedIsLocked
PROPERTIES
  NoticeComesTrue
  ButtonReturns
