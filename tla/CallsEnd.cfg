SPECIFICATION FairSpec
CONSTANTS
  Checkouts = {c1, c2}
  Releases = {}
  Edits = {e1}
  MaxVariant = 2
  MaxUnits = 1
  Corrections <- Removals
  MaxStock = 1
  Product = Product
  Coupon = Coupon
CHECK_DEADLOCK FALSE
PROPERTY EveryCallEnds
