-------------------------------- MODULE Totals --------------------------------
(***************************************************************************)
(* The total the checkout page shows and the total the order is charged,   *)
(* which are computed apart.                                               *)
(*   apps/server/src/orders/order-pricing.ts, delivery.ts                  *)
(*   apps/server/src/orders/orders.service.ts    createOrder, its amounts  *)
(*   apps/server/src/coupons/coupons.service.ts  validate                  *)
(*   apps/client/src/lib/catalog/pricing.ts, store/cart.ts                 *)
(*   apps/client/src/hooks/storefront/useCheckout.ts  total, submit        *)
(*                                                                         *)
(* Amounts are in agorot, discounts in parts of 1/10000 agora. Where a     *)
(* discount lies halfway the floating point product may fall on either     *)
(* side. The order adds the lines up as decimals. The page adds them up in *)
(* floating point: unless every step of the sum is exact it may fall just  *)
(* short of the decimal sum, which tells wherever it is compared with a    *)
(* bound it should equal: the threshold of free delivery, the minimum of a *)
(* coupon. (Just above it tells nowhere: s >= bound is all that is asked.) *)
(* The page knows the cart, the site config and the coupon as they are;    *)
(* time passes between what it shows and the order.                        *)
(***************************************************************************)
EXTENDS Integers

CONSTANTS
  BasePrices,   \* basePrice or priceOverride, in agorot
  SalePrices,   \* salePrice
  MaxUnits,     \* bound: the units of a line
  Thresholds,   \* freeShippingThreshold; minCartValue is one of them or 0
  Percents,     \* value of a PERCENTAGE coupon, in 1/100 of a percent
  Amounts,      \* value of a fixed coupon
  MaxTime       \* bound: the time, and the ends of a sale

ASSUME TotalsAssumption ==
  /\ BasePrices \subseteq Nat /\ SalePrices \subseteq Nat /\ Thresholds \subseteq Nat
  /\ Percents \subseteq Nat /\ Amounts \subseteq Nat
  /\ MaxUnits \in Nat /\ MaxTime \in Nat

VARIABLES
  offer,        \* [lines, method, threshold, kind, value, least]: the cart, the
                \*   delivery, and the coupon the shopper knows of
  time,         \* now
  shownTotal,   \* the total shown, or -1
  shownOnSale,  \* the lines on sale when it was computed
  couponState,  \* of the page: none, applied, or refused (its error is shown)
  charged       \* the total of the order, or -1

totalsVars == <<offer, time, shownTotal, shownOnSale, couponState, charged>>

Fee == [COURIER |-> 2990, PICKUP_POINT |-> 1990]
CouponsOffered == [kind : {"PERCENTAGE"}, value : Percents] \cup [kind : {"FIXED"}, value : Amounts]

\* A line of the cart, with its sale. Carts have one line or two.
PricedLine ==
  [base : BasePrices, sale : SalePrices, start : 0 .. MaxTime, end : 0 .. MaxTime, units : 1 .. MaxUnits]
PricedCarts == [{1} -> PricedLine] \cup [{1, 2} -> PricedLine]

TotalsInit ==
  /\ \E lines \in PricedCarts, method \in DOMAIN Fee, threshold \in Thresholds,
        coupon \in CouponsOffered, least \in {0} \cup Thresholds :
       offer = [lines |-> lines, method |-> method, threshold |-> threshold,
                kind |-> coupon.kind, value |-> coupon.value, least |-> least]
  /\ time = 0
  /\ shownTotal = -1
  /\ shownOnSale = {}
  /\ couponState = "none"
  /\ charged = -1

\* The whole agorot a sum of x parts may be rounded to.
Rounded(x) == {n \in x \div 10000 .. x \div 10000 + 1 : n * 10000 <= x + 5000 /\ x <= n * 10000 + 5000}
AtLeastZero(n) == IF n < 0 THEN 0 ELSE n

InCart == DOMAIN offer.lines
Price(i, onSale) == IF i \in onSale THEN offer.lines[i].sale ELSE offer.lines[i].base
LineSum(i, onSale) == IF i \in InCart THEN Price(i, onSale) * offer.lines[i].units ELSE 0
\* The sum of the lines as a decimal.
Subtotal(onSale) == LineSum(1, onSale) + LineSum(2, onSale)

\* s >= bound, where s is the sum of the lines or just short of it.
AtLeast(s, short, bound) == s > bound \/ (s = bound /\ ~short)

-----------------------------------------------------------------------------
(* coupons.validate, of a cart of s agorot, or just short of it            *)

MinimumMet(s, short) == AtLeast(s, short, offer.least)

\* Math.min(discount, cartTotal), in parts.
Discount(s) ==
  LET full == IF offer.kind = "PERCENTAGE" THEN s * offer.value ELSE offer.value * 10000
  IN IF full < s * 10000 THEN full ELSE s * 10000

-----------------------------------------------------------------------------
(* The page                                                                *)

\* isSaleActive
OnSaleShown == {i \in InCart : offer.lines[i].start <= time /\ time <= offer.lines[i].end}

\* Quarters of a shekel, and one price times a power of two, add up exactly.
PowersOfTwo == {2^k : k \in 0 .. 6}
SumIsExact(onSale) ==
  \/ \A i \in InCart : Price(i, onSale) % 25 = 0
  \/ InCart = {1} /\ offer.lines[1].units \in PowersOfTwo

\* cartSubtotal: the sum of the unitPrices, and whether it fell short.
SubtotalShown == Subtotal(OnSaleShown)
MayFallShort == IF SumIsExact(OnSaleShown) THEN {FALSE} ELSE BOOLEAN

\* shippingFor
ShippingShown(short) == IF AtLeast(SubtotalShown, short, offer.threshold) THEN 0 ELSE Fee[offer.method]

\* total of useCheckout, as formatPrice writes it.
Show(short, discount) ==
  /\ shownTotal' \in Rounded(AtLeastZero((SubtotalShown + ShippingShown(short)) * 10000 - discount))
  /\ shownOnSale' = OnSaleShown

\* The page shows a total for the cart: no coupon is entered, or the entered
\* one is validated for the page's sum and applied or refused.
ShowPlain ==
  /\ charged = -1
  /\ \E short \in MayFallShort : Show(short, 0)
  /\ couponState' = "none"
  /\ UNCHANGED <<offer, time, charged>>

ShowDiscounted ==
  /\ charged = -1
  /\ \E short \in MayFallShort : MinimumMet(SubtotalShown, short) /\ Show(short, Discount(SubtotalShown))
  /\ couponState' = "applied"
  /\ UNCHANGED <<offer, time, charged>>

ShowRefused ==
  /\ charged = -1
  /\ \E short \in MayFallShort : ~MinimumMet(SubtotalShown, short) /\ Show(short, 0)
  /\ couponState' = "refused"
  /\ UNCHANGED <<offer, time, charged>>

-----------------------------------------------------------------------------
(* The order                                                               *)

\* variantUnitPriceDecimal
OnSaleCharged == {i \in InCart : time >= offer.lines[i].start /\ time <= offer.lines[i].end}
SubtotalCharged == Subtotal(OnSaleCharged)

\* Variant for the checks: free above the threshold only.
FreeAbove(s) == s > offer.threshold
\* shippingCostFor: both methods are free from the threshold.
FreeFrom(s) == s >= offer.threshold
ShippingCharged == IF FreeFrom(SubtotalCharged) THEN 0 ELSE Fee[offer.method]

\* The discount is rounded like its column; the total is what is left.
DiscountsCharged == IF couponState = "applied" THEN Rounded(Discount(SubtotalCharged)) ELSE {0}

PlaceOrder ==
  /\ shownTotal >= 0 /\ charged = -1
  /\ couponState = "applied" => MinimumMet(SubtotalCharged, FALSE)
  /\ \E discount \in DiscountsCharged :
       charged' = AtLeastZero(SubtotalCharged + ShippingCharged - discount)
  /\ UNCHANGED <<offer, time, shownTotal, shownOnSale, couponState>>

\* The order's own validate refuses the coupon; the page drops it and shows
\* the total without.
RefuseCoupon ==
  /\ shownTotal >= 0 /\ charged = -1
  /\ couponState = "applied" /\ ~MinimumMet(SubtotalCharged, FALSE)
  /\ \E short \in MayFallShort : Show(short, 0)
  /\ couponState' = "refused"
  /\ UNCHANGED <<offer, time, charged>>

PassTime ==
  /\ time < MaxTime /\ charged = -1
  /\ time' = time + 1
  /\ UNCHANGED <<offer, shownTotal, shownOnSale, couponState, charged>>

TotalsNext == ShowPlain \/ ShowDiscounted \/ ShowRefused \/ PlaceOrder \/ RefuseCoupon \/ PassTime

TotalsSpec == TotalsInit /\ [][TotalsNext]_totalsVars

-----------------------------------------------------------------------------

\* Types: the totals, the time and the coupon.
TotalsTypeOK ==
  /\ time \in 0 .. MaxTime
  /\ shownTotal \in Nat \cup {-1} /\ charged \in Nat \cup {-1}
  /\ shownOnSale \subseteq InCart
  /\ couponState \in {"none", "applied", "refused"}

\* The order charges delivery or not as the page did, within one agora of
\* rounding; or the lines make exactly the threshold, the page's sum of them
\* fell short of it, and it showed a delivery the order does not charge.
TotalsAgree ==
  \/ charged - shownTotal \in -1 .. 1
  \/ /\ SubtotalCharged = offer.threshold /\ ~SumIsExact(OnSaleCharged)
     /\ charged + Fee[offer.method] - shownTotal \in -1 .. 1

\* The order accepts the coupon the page applied; the page refuses only what
\* the order would, or a cart of exactly the minimum whose sum fell short.
CouponsAgree ==
  /\ couponState = "applied" => SubtotalCharged >= offer.least
  /\ couponState = "refused" => \/ SubtotalCharged < offer.least
                                \/ SubtotalCharged = offer.least /\ ~SumIsExact(OnSaleCharged)

\* While no line's sale began or ended since the total was shown, the order
\* takes the coupon as the page did and charges what it showed, but for one
\* agora of rounding, and but for sums the page's floating point leaves just
\* short of a bound they equal: there the shopper is shown a delivery fee that
\* is not charged, or is refused a coupon, and never the other way round.
ShownNearCharged ==
  shownTotal >= 0 /\ shownOnSale = OnSaleCharged => CouponsAgree /\ (charged >= 0 => TotalsAgree)
=============================================================================
