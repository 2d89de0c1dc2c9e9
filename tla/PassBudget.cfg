SPECIFICATION BudgetSpec
CHECK_DEADLOCK FALSE
CONSTANTS
  Unset = Unset
  ReceiveOption = Unset
  PullOption = 5
  FlushOption = 3
  ReceiveMs = 8
  PullMs = 3
  FlushMs = 4
  Ceiling = 6
  Queue = 2
  MaxIds = 3
  MaxSlip = 5
INVARIANTS
  FirstPullPaid
  CostBounded
