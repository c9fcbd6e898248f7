------------------------------ MODULE Checkout ------------------------------
(***************************************************************************)
(* Carts turned into orders: concurrent checkouts of several carts compete *)
(* for stock and for a limited coupon, while the carts change in other     *)
(* tabs, orders are released and admins edit stock, inventory tracking and *)
(* the coupon.                                                             *)
(*   orders/orders.service.ts      createOrder, releaseOrderResources      *)
(*   cart/cart.service.ts          addItem, updateItemQuantity, removeItem *)
(*   coupons/coupons.service.ts    validate, update                        *)
(*   products/products.service.ts  editStock, update, updateVariant        *)
(* (all under src/apps/server/src)                                         *)
(*                                                                         *)
(* A buyer is one call of createOrder: it reads the cart, then the coupon, *)
(* then runs one transaction. That transaction only writes conditionally   *)
(* and keeps its row locks to the end, so it is one step. Prices, delivery *)
(* and why a product is not for sale are data that changes no stock: such  *)
(* a refusal is a checkout that gives up.                                  *)
(***************************************************************************)
EXTENDS Integers, FiniteSets

CONSTANTS
  Buyers,       \* calls of createOrder
  Carts, Variants,
  MaxQuantity,  \* bound: the most units of a cart line or of a stock edit
  MaxStock,     \* bound: the most units of a variant on the shelf
  MaxLines,     \* bound: cart lines ever created
  Limits,       \* values an admin gives the coupon's maxUses; 0 is no limit
  None

ASSUME BoundsAssumption ==
  MaxQuantity \in Nat \ {0} /\ MaxStock \in Nat /\ MaxLines \in Nat /\ Limits \subseteq Nat
ASSUME BuyersAssumption == IsFiniteSet(Buyers)

VARIABLES
  stock,      \* stockQuantity of each variant
  tracked,    \* the variants with trackInventory
  lines,      \* the cart's line for each variant: its id and quantity
  nextLine,   \* the id of the next cart line
  orders,     \* the order each buyer made
  uses,       \* the coupon's currentUses
  maxUses,    \* the coupon's maxUses
  limits,     \* every maxUses the coupon ever had
  pc, local   \* per buyer: the next step and the local variables

shelf    == <<stock, tracked>>
coupon   == <<uses, maxUses, limits>>
cart     == <<lines, nextLine>>
sessions == <<pc, local>>
vars     == <<shelf, cart, orders, coupon, sessions>>

-----------------------------------------------------------------------------
NoLine   == [id |-> 0, quantity |-> 0]
NoUnits  == [v \in Variants |-> 0]
NoOrder  == [status |-> "none", lines |-> {}, deducted |-> NoUnits, coupon |-> "unused"]
NoLocals == [cart |-> None, items |-> [v \in Variants |-> NoLine], deducts |-> {},
             coupon |-> "unused", limit |-> 0]

Init ==
  /\ stock \in [Variants -> 0 .. MaxStock]
  /\ tracked = Variants
  /\ lines = [c \in Carts |-> [v \in Variants |-> NoLine]]
  /\ nextLine = 1
  /\ orders = [b \in Buyers |-> NoOrder]
  /\ uses = 0
  /\ maxUses \in Limits
  /\ limits = {maxUses}
  /\ pc = [b \in Buyers |-> "new"]
  /\ local = [b \in Buyers |-> NoLocals]

Goto(b, label) == pc' = [pc EXCEPT ![b] = label]

-----------------------------------------------------------------------------
(* createOrder()                                                           *)

Items(c)           == {v \in Variants : lines[c][v] # NoLine}
HasStock(v, units) == v \in tracked => stock[v] >= units

\* The cart is read with its variants: every line must be purchasable, and whether
\* it will deduct stock is decided here.
CartRead(b) ==
  /\ pc[b] = "new"
  /\ \E c \in Carts, used \in {"used", "unused"} :
       /\ Items(c) # {}
       /\ \A v \in Items(c) : HasStock(v, lines[c][v].quantity)
       /\ local' = [local EXCEPT ![b] = [cart |-> c, items |-> lines[c],
                                         deducts |-> Items(c) \cap tracked,
                                         coupon |-> used, limit |-> 0]]
       /\ Goto(b, IF used = "used" THEN "coupon" ELSE "place")
  /\ UNCHANGED <<shelf, cart, orders, coupon>>

\* validate(): the coupon still has a use left; its limit is remembered.
CouponRead(b) ==
  /\ pc[b] = "coupon"
  /\ maxUses # 0 => uses < maxUses
  /\ local' = [local EXCEPT ![b] = [@ EXCEPT !.limit = maxUses]]
  /\ Goto(b, "place")
  /\ UNCHANGED <<shelf, cart, orders, coupon>>

\* Variant for the checks: the lines are claimed by id, whatever their quantity.
ClaimableById(b) ==
  \A v \in Variants : local[b].items[v] # NoLine => lines[local[b].cart][v].id = local[b].items[v].id
\* Variant for the checks: the lines are deleted without counting them.
ClaimableUncounted(b) == TRUE
\* The cart lines that were read are all there, with the quantities that were read.
Claimable(b) ==
  \A v \in Variants : local[b].items[v] # NoLine => lines[local[b].cart][v] = local[b].items[v]

Units(b, v) == IF v \in local[b].deducts THEN local[b].items[v].quantity ELSE 0

\* Variant for the checks: stock is taken as it was read, not conditionally.
InStockAsRead(b) == TRUE
InStock(b) == \A v \in local[b].deducts : v \in tracked /\ stock[v] >= Units(b, v)

\* Variant for the checks: the limit was checked by validate() and is not again.
CouponLeftAsValidated(b) == TRUE
\* The coupon's conditional use, against the limit validate() saw.
CouponLeft(b) == local[b].coupon = "used" /\ local[b].limit # 0 => uses < local[b].limit

\* The transaction: claim the lines, reserve the stock, create the order, count the
\* coupon use.
Place(b) ==
  /\ pc[b] = "place"
  /\ Claimable(b) /\ InStock(b) /\ CouponLeft(b)
  /\ LET l == local[b] IN
       /\ lines' = [lines EXCEPT ![l.cart] =
            [v \in Variants |-> IF l.items[v] # NoLine THEN NoLine ELSE lines[l.cart][v]]]
       /\ stock' = [v \in Variants |-> stock[v] - Units(b, v)]
       /\ orders' = [orders EXCEPT ![b] =
            [status   |-> "open",
             lines    |-> {l.items[v].id : v \in {w \in Variants : l.items[w] # NoLine}},
             deducted |-> [v \in Variants |-> Units(b, v)],
             coupon   |-> l.coupon]]
       /\ uses' = IF l.coupon = "used" THEN uses + 1 ELSE uses
  /\ Goto(b, "done")
  /\ UNCHANGED <<tracked, nextLine, maxUses, limits, local>>

\* The checkout is refused, by any of the conditions above or below them, or dies;
\* the transaction is rolled back.
GiveUp(b) ==
  /\ pc[b] \in {"new", "coupon", "place"}
  /\ Goto(b, "done")
  /\ UNCHANGED <<shelf, cart, orders, coupon, local>>

-----------------------------------------------------------------------------
(* releaseOrderResources(), as part of the one transaction that cancels.   *)

\* Variant for the checks: only what is tracked at the time goes back.
ReturnedIfTracked(b, v) == IF v \in tracked THEN orders[b].deducted[v] ELSE 0
Returned(b, v) == orders[b].deducted[v]

\* Variant for the checks: the coupon use is not given back.
UsesAfterReleaseKept(b) == uses
UsesAfterRelease(b) == IF orders[b].coupon = "used" /\ uses > 0 THEN uses - 1 ELSE uses

Release(b) ==
  /\ orders[b].status = "open"
  /\ orders' = [orders EXCEPT ![b] = [@ EXCEPT !.status = "released"]]
  /\ stock' = [v \in Variants |-> stock[v] + Returned(b, v)]
  /\ uses' = UsesAfterRelease(b)
  /\ UNCHANGED <<tracked, cart, maxUses, limits, sessions>>

-----------------------------------------------------------------------------
(* The cart in other tabs. What a handler read before its write bounds the *)
(* quantity by a stock that may have changed since: any quantity.          *)

\* addItem and updateItemQuantity: a new line, or another quantity of the same line.
PutLine(c, v) ==
  /\ \E q \in 1 .. MaxQuantity :
       \/ /\ lines[c][v] = NoLine /\ nextLine <= MaxLines
          /\ lines' = [lines EXCEPT ![c] = [@ EXCEPT ![v] = [id |-> nextLine, quantity |-> q]]]
          /\ nextLine' = nextLine + 1
       \/ /\ lines[c][v] # NoLine
          /\ lines' = [lines EXCEPT ![c] = [@ EXCEPT ![v] = [id |-> lines[c][v].id, quantity |-> q]]]
          /\ UNCHANGED nextLine
  /\ UNCHANGED <<shelf, orders, coupon, sessions>>

\* removeItem, clearCart, and a quantity of zero.
RemoveLines(c, vs) ==
  /\ vs \cap Items(c) # {}
  /\ lines' = [lines EXCEPT ![c] = [v \in Variants |-> IF v \in vs THEN NoLine ELSE lines[c][v]]]
  /\ UNCHANGED <<shelf, nextLine, orders, coupon, sessions>>

-----------------------------------------------------------------------------
(* Admins.                                                                 *)

\* editStock: the difference to the quantity the form loaded, if that much is left.
EditStock(v) ==
  /\ v \in tracked
  /\ \E delta \in -MaxQuantity .. MaxQuantity :
       /\ stock[v] + delta \in 0 .. MaxStock
       /\ stock' = [stock EXCEPT ![v] = stock[v] + delta]
  /\ UNCHANGED <<tracked, cart, orders, coupon, sessions>>

\* A quantity sent without the one the form loaded overwrites the row's.
SetStock(v) ==
  /\ \E q \in 0 .. MaxStock : stock' = [stock EXCEPT ![v] = q]
  /\ UNCHANGED <<tracked, cart, orders, coupon, sessions>>

\* trackInventory of a variant is switched.
ToggleTracking(v) ==
  /\ tracked' = IF v \in tracked THEN tracked \ {v} ELSE tracked \cup {v}
  /\ UNCHANGED <<stock, cart, orders, coupon, sessions>>

\* The coupon's limit is edited.
EditLimit ==
  /\ maxUses' \in Limits
  /\ limits' = limits \cup {maxUses'}
  /\ UNCHANGED <<uses, shelf, cart, orders, sessions>>

-----------------------------------------------------------------------------
Next ==
  \/ \E b \in Buyers : CartRead(b) \/ CouponRead(b) \/ Place(b) \/ GiveUp(b) \/ Release(b)
  \/ \E c \in Carts : \/ \E v \in Variants : PutLine(c, v)
                      \/ \E vs \in SUBSET Variants : RemoveLines(c, vs)
  \/ \E v \in Variants : EditStock(v) \/ SetStock(v) \/ ToggleTracking(v)
  \/ EditLimit

Spec == Init /\ [][Next]_vars

-----------------------------------------------------------------------------
(* Properties.                                                             *)

LineRows  == [id: Nat, quantity: Nat]
OrderRows == [status: {"none", "open", "released"}, lines: SUBSET Nat,
              deducted: [Variants -> Nat], coupon: {"used", "unused"}]
Locals    == [cart: Carts \cup {None}, items: [Variants -> LineRows], deducts: SUBSET Variants,
              coupon: {"used", "unused"}, limit: Nat]

\* Every variable holds a value of its type; in particular no stock is ever negative,
\* however many checkouts and edits compete for the last unit.
TypeOK ==
  /\ stock \in [Variants -> Nat]
  /\ tracked \in SUBSET Variants
  /\ lines \in [Carts -> [Variants -> LineRows]]
  /\ nextLine \in Nat \ {0}
  /\ orders \in [Buyers -> OrderRows]
  /\ uses \in Nat /\ maxUses \in Nat /\ limits \in SUBSET Nat
  /\ pc \in [Buyers -> {"new", "coupon", "place", "done"}]
  /\ local \in [Buyers -> Locals]

\* "exactly one order is created per cart" (createOrder): no cart line is in two orders,
\* or ordered and still in a cart, after double submits and edits in other tabs.
OrderedOnce ==
  \A b \in Buyers :
    /\ \A d \in Buyers \ {b} : orders[b].lines \cap orders[d].lines = {}
    /\ \A c \in Carts, v \in Variants : lines[c][v].id \notin orders[b].lines

\* A limited coupon is used no more often than the most generous limit it ever had
\* allows (validate() runs outside the transaction).
LimitKept == \E limit \in limits : limit = 0 \/ uses <= limit

Couponed == {b \in Buyers : orders[b].status = "open" /\ orders[b].coupon = "used"}

\* Each open order with the coupon counts as one use, and nothing else does: uses go
\* up and down with orders that interleave with limit edits and each other.
UsesAreOrders == uses = Cardinality(Couponed)

\* What is ordered is what was in the cart when it was ordered, although prices and
\* the order's lines are computed from an earlier read (createOrder's claim).
PlacedAsShown ==
  [][\A b \in Buyers : orders[b].status = "none" /\ orders'[b].status = "open" =>
       \A v \in local[b].deducts :
         orders'[b].deducted[v] = lines[local[b].cart][v].quantity]_vars

\* Seen from the shelf, checkouts and releases are the steps of the stock ledger: an
\* order takes all its units or none, never more than there are, and returns exactly
\* those, whatever happens to inventory tracking in between.
Held(b) == IF orders[b].status = "open" THEN orders[b].deducted ELSE NoUnits
Phase(b) == CASE orders[b].status = "none" -> "none"
              [] orders[b].status = "open" -> "holding"
              [] orders[b].status = "released" -> "returned"
Ledger == INSTANCE StockLedger WITH
  Orders <- Buyers, shelf <- stock,
  held <- [b \in Buyers |-> Held(b)], phase <- [b \in Buyers |-> Phase(b)]
ImplementsLedger == Ledger!Spec

=============================================================================
