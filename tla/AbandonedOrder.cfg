SPECIFICATION FairSpec
CONSTANTS
  None = None
  Requests = {r1, r2}
  Traffic <- Paying
  Targets <- PayTargets
  Fees <- FeeChoices
  Total = 2
  ClaimTTL = 1
  PendingTTL = 1
  MaxCallTime = 9
  LastArrival = 2
  MaxTime = 4
PROPERTY AbandonedOrderReleased
CHECK_DEADLOCK FALSE
