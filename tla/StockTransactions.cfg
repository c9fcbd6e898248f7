SPECIFICATION Spec
CONSTANTS
  Checkouts = {c1, c2}
  Releases = {r1, r2}
  Edits = {e1}
  MaxVariant = 2
  MaxUnits = 1
  Corrections <- BothWays
  MaxStock = 1
  Product = Product
  Coupon = Coupon
SYMMETRY Symmetry
CHECK_DEADLOCK FALSE
INVARIANTS TypeOK OnlyEditsDeadlock
PROPERTIES StockMovesWithOrders ImplementsLedger
