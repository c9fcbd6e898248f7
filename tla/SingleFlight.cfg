SPECIFICATION Spec
CONSTANTS
  None = None
  Requests = {r1, r2, r3}
  Traffic <- SoundCalls
  Targets <- PayTargets
  Fees <- FeeChoices
  Total = 2
  ClaimTTL = 1
  PendingTTL = 2
  MaxCallTime = 1
  LastArrival = 4
  MaxTime = 4
SYMMETRY Symmetry
INVARIANTS SingleFlight
CHECK_DEADLOCK FALSE
