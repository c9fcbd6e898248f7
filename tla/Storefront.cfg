\* The components around the orders, one at a time.
SPECIFICATION StorefrontSpec
CONSTANTS
  CartCalls = {k1, k2, k3}
  CartVariants = {v1}
  MaxCarts = 3
  MaxLine = 3
  MaxAsk = 1
  AlertCalls = {a1, a2, a3}
  Threshold = 1
  MaxLeft = 2
  Accounts = {own, ann, bob}
  Owner = own
  GrantCalls = {g1, g2, g3}
  ImageCalls = {i1, i2, i3}
  FirstImages = {p1, p2}
  CategoryIds = {ca, cb, cc}
  Products = {pa}
  TreeCalls = {r1, r2, r3}
  AddressCalls = {d1, d2, d3}
  MaxAddresses = 2
  MaxSaved = 4
  Terms = {t0, t1}
  NoTerm = t0
  Filters = {f1, f2}
  FirstFilter = f1
  MaxPage = 2
  MaxVersion = 1
  MaxRequests = 2
  Codes = {x0, x1}
  NoCode = x0
  MaxSubtotal = 2
  MaxChecks = 3
  WishCalls = {q1, q2}
  Wishes = {w1, w2}
  MaxLocal = 1
  Keys = {y1, y2}
  Limit = 2
  Window = 4
  SweepEvery = 2
  MaxClock = 7
  MaxAdmitted = 6
  BasePrices = {1010, 2000}
  SalePrices = {500}
  MaxUnits = 2
  Thresholds = {1000, 1510, 2500}
  Percents = {1250}
  Amounts = {1500}
  MaxTime = 1
INVARIANTS
  StorefrontTypeOK
  LinesWereAsked
  MailedOncePerMarker
  SettledMarkers
  AdminRemains
  InvitationsSpentOnce
  ImagesHaveFiles
  LeftoversExplained
  HierarchyKept
  OneDefault
  ListIsHonest
  DiscountFitsCart
  WishesKept
  RateKept
  ShownNearCharged
\* Requests and shoppers may stop anywhere.
CHECK_DEADLOCK FALSE
