SPECIFICATION Spec
CONSTANTS
  None = None
  Requests = {r1, r2, r3, r4}
  Traffic <- Declining
  Targets <- AdminTargets
  Fees <- FeeChoices
  Total = 2
  ClaimTTL = 1
  PendingTTL = 1
  MaxCallTime = 1
  LastArrival = 1
  MaxTime = 1
SYMMETRY Symmetry
INVARIANTS SingleFlight
CHECK_DEADLOCK FALSE
