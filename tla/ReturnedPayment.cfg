SPECIFICATION Spec
CONSTANTS
  None = None
  Requests = {r1, r2, r3}
  Traffic <- Confirming
  Targets <- AdminTargets
  Fees <- FeeChoices
  Total = 2
  ClaimTTL = 0
  PendingTTL = 0
  MaxCallTime = 9
  LastArrival = 1
  MaxTime = 1
SYMMETRY Symmetry
INVARIANTS LiveOrderKeepsItsPayment
CHECK_DEADLOCK FALSE
