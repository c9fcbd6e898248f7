----------------------------- MODULE MCStorefront -----------------------------
(* Small instances of the components around the orders. They share no row   *)
(* and no variable: in a behaviour one of them runs, from any of its first  *)
(* states, and the others rest in one of theirs. Their states add up, and   *)
(* do not multiply.                                                         *)
EXTENDS Carts, StockAlerts, AdminGrants, ProductImages, Categories, AddressBook,
        AdminList, CouponField, Wishlist, RateLimit, Totals

VARIABLE part   \* the component that runs

StorefrontInit ==
  /\ part \in {"carts", "alerts", "grants", "images", "tree", "book", "list", "coupon", "wishes", "rate", "totals"}
  /\ CartsInit
  /\ part # "carts" => Carts("unborn") = CartIds
  /\ AlertsInit
  /\ part # "alerts" => left = 0 /\ ~tracked /\ lowMark = 0
  /\ GrantsInit
  /\ part # "grants" => Admins = {Owner} /\ \A a \in Accounts \ {Owner} : role[a] = "none"
  /\ ImagesInit
  /\ TreeInit
  /\ part # "tree" => parent[CHOOSE c \in CategoryIds : TRUE] = Top
  /\ BookInit
  /\ part # "book" => Saved = {}
  /\ ListInit
  /\ part # "list" => ready
  /\ CouponInit
  /\ part # "coupon" => subtotal = 0
  /\ WishesInit
  /\ part # "wishes" => local = {}
  /\ RateInit
  /\ part # "rate" => lastSweep = 0
  /\ TotalsInit
  /\ part # "totals" =>
       offer = [lines |-> [i \in {1} |-> [base |-> Least(BasePrices), sale |-> Least(SalePrices), start |-> 0, end |-> 0, units |-> 1]],
                method |-> "COURIER", threshold |-> Least(Thresholds),
                kind |-> "FIXED", value |-> Least(Amounts), least |-> 0]

Runs(p) == part = p /\ UNCHANGED part

CartsRun ==
  /\ Runs("carts") /\ CartsNext
  /\ UNCHANGED <<alertsVars, grantsVars, imagesVars, treeVars, bookVars, listVars, couponVars, wishesVars, rateVars, totalsVars>>
AlertsRun ==
  /\ Runs("alerts") /\ AlertsNext
  /\ UNCHANGED <<cartsVars, grantsVars, imagesVars, treeVars, bookVars, listVars, couponVars, wishesVars, rateVars, totalsVars>>
GrantsRun ==
  /\ Runs("grants") /\ GrantsNext
  /\ UNCHANGED <<cartsVars, alertsVars, imagesVars, treeVars, bookVars, listVars, couponVars, wishesVars, rateVars, totalsVars>>
ImagesRun ==
  /\ Runs("images") /\ ImagesNext
  /\ UNCHANGED <<cartsVars, alertsVars, grantsVars, treeVars, bookVars, listVars, couponVars, wishesVars, rateVars, totalsVars>>
TreeRun ==
  /\ Runs("tree") /\ TreeNext
  /\ UNCHANGED <<cartsVars, alertsVars, grantsVars, imagesVars, bookVars, listVars, couponVars, wishesVars, rateVars, totalsVars>>
BookRun ==
  /\ Runs("book") /\ BookNext
  /\ UNCHANGED <<cartsVars, alertsVars, grantsVars, imagesVars, treeVars, listVars, couponVars, wishesVars, rateVars, totalsVars>>
ListRun ==
  /\ Runs("list") /\ ListNext
  /\ UNCHANGED <<cartsVars, alertsVars, grantsVars, imagesVars, treeVars, bookVars, couponVars, wishesVars, rateVars, totalsVars>>
CouponRun ==
  /\ Runs("coupon") /\ CouponNext
  /\ UNCHANGED <<cartsVars, alertsVars, grantsVars, imagesVars, treeVars, bookVars, listVars, wishesVars, rateVars, totalsVars>>
WishesRun ==
  /\ Runs("wishes") /\ WishesNext
  /\ UNCHANGED <<cartsVars, alertsVars, grantsVars, imagesVars, treeVars, bookVars, listVars, couponVars, rateVars, totalsVars>>
RateRun ==
  /\ Runs("rate") /\ RateNext
  /\ UNCHANGED <<cartsVars, alertsVars, grantsVars, imagesVars, treeVars, bookVars, listVars, couponVars, wishesVars, totalsVars>>
TotalsRun ==
  /\ Runs("totals") /\ TotalsNext
  /\ UNCHANGED <<cartsVars, alertsVars, grantsVars, imagesVars, treeVars, bookVars, listVars, couponVars, wishesVars, rateVars>>

StorefrontNext ==
  \/ CartsRun \/ AlertsRun \/ GrantsRun \/ ImagesRun \/ TreeRun \/ BookRun \/ ListRun \/ CouponRun \/ WishesRun \/ RateRun \/ TotalsRun

storefrontVars ==
  <<part, cartsVars, alertsVars, grantsVars, imagesVars, treeVars, bookVars, listVars, couponVars, wishesVars, rateVars, totalsVars>>

StorefrontSpec == StorefrontInit /\ [][StorefrontNext]_storefrontVars

\* Types, of every component.
StorefrontTypeOK ==
  /\ CartsTypeOK /\ AlertsTypeOK /\ GrantsTypeOK /\ ImagesTypeOK /\ ListTypeOK
  /\ TreeTypeOK /\ BookTypeOK /\ CouponTypeOK /\ WishesTypeOK /\ RateTypeOK /\ TotalsTypeOK
=============================================================================
