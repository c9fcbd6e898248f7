SPECIFICATION Spec
CONSTANTS
  None = None
  Buyers = {b1, b2}
  Carts = {c1, c2}
  Variants = {v1}
  MaxQuantity = 2
  MaxStock = 2
  MaxLines = 2
  Limits = {0, 1}
SYMMETRY Symmetry
INVARIANTS TypeOK OrderedOnce LimitKept UsesAreOrders
PROPERTIES PlacedAsShown ImplementsLedger
CHECK_DEADLOCK FALSE
