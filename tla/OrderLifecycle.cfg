SPECIFICATION Spec
CONSTANTS
  None = None
  Requests = {r1, r2, r3}
  Traffic <- Everything
  Targets <- Statuses
  Fees <- FeeChoices
  Total = 2
  ClaimTTL = 0
  PendingTTL = 0
  MaxCallTime = 9
  LastArrival = 2
  MaxTime = 2
SYMMETRY Symmetry
INVARIANTS TypeOK ReleasedOnce HistoryIsChain StampsMatchStatus RefundsMatchCancellation
  ChargedMoneyAccounted RefundedIsSettled
PROPERTY ImplementsLife
CHECK_DEADLOCK FALSE
