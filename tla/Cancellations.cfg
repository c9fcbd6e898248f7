SPECIFICATION Spec
CONSTANTS
  Calls = {p1, p2, p3}
  Total = 2
  Fees <- FeeChoices
  None = None
SYMMETRY Symmetry
CHECK_DEADLOCK FALSE
INVARIANTS TypeOK OneApproval ApprovedIsCancelled RefundAsRecorded
