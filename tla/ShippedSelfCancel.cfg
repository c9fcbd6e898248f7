SPECIFICATION Spec
CONSTANTS
  Calls = {p1}
  Total = 2
  Fees <- FeeChoices
  None = None
CHECK_DEADLOCK FALSE
INVARIANT ShippedIsNotSelfCancelled
