--------------------------- MODULE CheckoutProofs ---------------------------
(***************************************************************************)
(* Proofs about Checkout, for any buyers, carts, variants and bounds.      *)
(***************************************************************************)
EXTENDS Checkout, FiniteSetTheorems, TLAPS

-----------------------------------------------------------------------------
(* Type correctness.                                                       *)

LEMMA TypeInit == Init => TypeOK
<1> SUFFICES ASSUME Init PROVE TypeOK
  OBVIOUS
<1>1. NoLine \in LineRows /\ NoUnits \in [Variants -> Nat]
  BY DEF NoLine, LineRows, NoUnits
<1>2. NoOrder \in OrderRows
  BY <1>1 DEF NoOrder, OrderRows
<1>3. NoLocals \in Locals
  BY <1>1 DEF NoLocals, Locals
<1>4. maxUses \in Nat /\ limits \in SUBSET Nat
  BY BoundsAssumption DEF Init
<1>5. stock \in [Variants -> Nat]
  BY BoundsAssumption DEF Init
<1> QED
  BY <1>1, <1>2, <1>3, <1>4, <1>5 DEF Init, TypeOK

\* The transaction of a checkout takes no more than there is.
LEMMA PlaceUnits ==
  ASSUME TypeOK, NEW b \in Buyers, InStock(b)
  PROVE  \A v \in Variants : /\ Units(b, v) \in Nat /\ Units(b, v) <= stock[v]
                             /\ stock[v] - Units(b, v) \in Nat
<1> SUFFICES ASSUME NEW v \in Variants
             PROVE  Units(b, v) \in Nat /\ Units(b, v) <= stock[v] /\ stock[v] - Units(b, v) \in Nat
  OBVIOUS
<1>1. stock[v] \in Nat /\ local[b].items[v].quantity \in Nat
  BY DEF TypeOK, Locals, LineRows
<1>2. Units(b, v) \in Nat /\ Units(b, v) <= stock[v]
  BY <1>1 DEF Units, InStock
<1> QED
  BY <1>1, <1>2

LEMMA TypeStep == TypeOK /\ [Next]_vars => TypeOK'
<1> SUFFICES ASSUME TypeOK, [Next]_vars PROVE TypeOK'
  OBVIOUS
<1>1. /\ lines \in [Carts -> [Variants -> LineRows]] /\ orders \in [Buyers -> OrderRows]
      /\ local \in [Buyers -> Locals] /\ stock \in [Variants -> Nat] /\ NoLine \in LineRows
      /\ \A c \in Carts, v \in Variants : lines[c][v].id \in Nat
  BY DEF TypeOK, NoLine, LineRows
<1>2. ASSUME NEW b \in Buyers, CartRead(b) PROVE TypeOK'
  <2>1. PICK c \in Carts, used \in {"used", "unused"} :
          local' = [local EXCEPT ![b] = [cart |-> c, items |-> lines[c],
                                         deducts |-> Items(c) \cap tracked,
                                         coupon |-> used, limit |-> 0]]
    BY <1>2 DEF CartRead
  <2>2. [cart |-> c, items |-> lines[c], deducts |-> Items(c) \cap tracked,
         coupon |-> used, limit |-> 0] \in Locals
    BY <1>1 DEF Locals, Items
  <2>3. local' \in [Buyers -> Locals]
    BY <1>1, <2>1, <2>2
  <2>4. pc' \in [Buyers -> {"new", "coupon", "place", "done"}]
    BY <1>2 DEF TypeOK, CartRead, Goto
  <2> QED
    BY <1>2, <2>3, <2>4 DEF TypeOK, CartRead, shelf, cart, coupon
<1>3. ASSUME NEW b \in Buyers, CouponRead(b) PROVE TypeOK'
  <2>1. [local[b] EXCEPT !.limit = maxUses] \in Locals
    BY <1>1 DEF TypeOK, Locals
  <2>2. local' \in [Buyers -> Locals]
    BY <1>1, <1>3, <2>1 DEF CouponRead
  <2>3. pc' \in [Buyers -> {"new", "coupon", "place", "done"}]
    BY <1>3 DEF TypeOK, CouponRead, Goto
  <2> QED
    BY <1>3, <2>2, <2>3 DEF TypeOK, CouponRead, shelf, cart, coupon
<1>4. ASSUME NEW b \in Buyers, Place(b) PROVE TypeOK'
  <2> DEFINE l == local[b]
  <2> DEFINE new == [status   |-> "open",
                     lines    |-> {l.items[v].id : v \in {w \in Variants : l.items[w] # NoLine}},
                     deducted |-> [v \in Variants |-> Units(b, v)],
                     coupon   |-> l.coupon]
  <2>1. \A v \in Variants : Units(b, v) \in Nat /\ stock[v] - Units(b, v) \in Nat
    BY <1>4, PlaceUnits DEF Place
  <2>2. stock' \in [Variants -> Nat]
    BY <1>4, <2>1 DEF Place
  <2>3. l.coupon \in {"used", "unused"} /\ \A v \in Variants : l.items[v].id \in Nat
    BY <1>1 DEF Locals, LineRows
  <2>4. new \in OrderRows
    BY <2>1, <2>3 DEF OrderRows
  <2>5. orders' = [orders EXCEPT ![b] = new]
    BY <1>4 DEF Place
  <2> HIDE DEF new
  <2>6. orders' \in [Buyers -> OrderRows]
    BY <1>1, <2>4, <2>5
  <2>8. lines' \in [Carts -> [Variants -> LineRows]]
    <3>1. lines' = [lines EXCEPT ![l.cart] =
            [v \in Variants |-> IF l.items[v] # NoLine THEN NoLine ELSE lines[l.cart][v]]]
      BY <1>4 DEF Place
    <3>2. CASE l.cart \in Carts
      BY <1>1, <3>1, <3>2
    <3>3. CASE l.cart \notin Carts
      BY <1>1, <3>1, <3>3
    <3> QED
      BY <3>2, <3>3
  <2>9. uses' \in Nat
    BY <1>4 DEF TypeOK, Place
  <2>10. pc' \in [Buyers -> {"new", "coupon", "place", "done"}]
    BY <1>4 DEF TypeOK, Place, Goto
  <2> QED
    BY <1>4, <2>2, <2>6, <2>8, <2>9, <2>10 DEF TypeOK, Place
<1>5. ASSUME NEW b \in Buyers, GiveUp(b) PROVE TypeOK'
  <2>1. pc' \in [Buyers -> {"new", "coupon", "place", "done"}]
    BY <1>5 DEF TypeOK, GiveUp, Goto
  <2> QED
    BY <1>5, <2>1 DEF TypeOK, GiveUp, shelf, cart, coupon
<1>6. ASSUME NEW b \in Buyers, Release(b) PROVE TypeOK'
  <2>1. [orders[b] EXCEPT !.status = "released"] \in OrderRows
    BY <1>1 DEF OrderRows
  <2>2. orders' \in [Buyers -> OrderRows]
    BY <1>1, <1>6, <2>1 DEF Release
  <2>3. \A v \in Variants : orders[b].deducted[v] \in Nat
    BY <1>1 DEF OrderRows
  <2>4. stock' \in [Variants -> Nat]
    BY <1>1, <1>6, <2>3 DEF Release, Returned
  <2>5. uses' \in Nat
    BY <1>6 DEF TypeOK, Release, UsesAfterRelease
  <2> QED
    BY <1>6, <2>2, <2>4, <2>5 DEF TypeOK, Release, cart, sessions
<1>7. ASSUME NEW c \in Carts, NEW v \in Variants, PutLine(c, v) PROVE TypeOK'
  <2>1. PICK q \in 1 .. MaxQuantity :
          \/ /\ lines' = [lines EXCEPT ![c] = [lines[c] EXCEPT ![v] = [id |-> nextLine, quantity |-> q]]]
             /\ nextLine' = nextLine + 1
          \/ /\ lines' = [lines EXCEPT ![c] =
                            [lines[c] EXCEPT ![v] = [id |-> lines[c][v].id, quantity |-> q]]]
             /\ nextLine' = nextLine
    BY <1>7 DEF PutLine
  <2>2. q \in Nat /\ nextLine \in Nat
    BY BoundsAssumption DEF TypeOK
  <2>3. \A n \in Nat : [id |-> n, quantity |-> q] \in LineRows
    BY <2>2 DEF LineRows
  <2>4. \A r \in LineRows :
          [lines EXCEPT ![c] = [lines[c] EXCEPT ![v] = r]] \in [Carts -> [Variants -> LineRows]]
    BY <1>1
  <2>5. [id |-> nextLine, quantity |-> q] \in LineRows
        /\ [id |-> lines[c][v].id, quantity |-> q] \in LineRows
    BY <1>1, <2>2, <2>3
  <2>6. lines' \in [Carts -> [Variants -> LineRows]]
    BY <2>1, <2>4, <2>5
  <2>7. nextLine' \in Nat \ {0}
    BY <2>1, <2>2 DEF TypeOK
  <2> QED
    BY <1>7, <2>6, <2>7 DEF TypeOK, PutLine, shelf, coupon, sessions
<1>8. ASSUME NEW c \in Carts, NEW vs \in SUBSET Variants, RemoveLines(c, vs) PROVE TypeOK'
  <2>1. lines' \in [Carts -> [Variants -> LineRows]]
    BY <1>1, <1>8 DEF RemoveLines
  <2> QED
    BY <1>8, <2>1 DEF TypeOK, RemoveLines, shelf, coupon, sessions
<1>9. ASSUME NEW v \in Variants, EditStock(v) \/ SetStock(v) PROVE TypeOK'
  <2>1. 0 .. MaxStock \subseteq Nat
    BY BoundsAssumption
  <2>2. PICK q \in Nat : stock' = [stock EXCEPT ![v] = q]
    BY <1>9, <2>1 DEF EditStock, SetStock
  <2>3. stock' \in [Variants -> Nat]
    BY <1>1, <2>2
  <2> QED
    BY <1>9, <2>3 DEF TypeOK, EditStock, SetStock, cart, coupon, sessions
<1>10. ASSUME NEW v \in Variants, ToggleTracking(v) PROVE TypeOK'
  BY <1>10 DEF TypeOK, ToggleTracking, cart, coupon, sessions
<1>11. CASE EditLimit
  BY <1>11, BoundsAssumption DEF TypeOK, EditLimit, shelf, cart, sessions
<1>12. CASE UNCHANGED vars
  BY <1>12 DEF TypeOK, vars, shelf, cart, coupon, sessions
<1> QED
  BY <1>2, <1>3, <1>4, <1>5, <1>6, <1>7, <1>8, <1>9, <1>10, <1>11, <1>12 DEF Next

\* No stock is ever negative, however many checkouts, releases and edits race.
THEOREM CheckoutTypeCorrect == Spec => []TypeOK
  BY TypeInit, TypeStep, PTL DEF Spec

-----------------------------------------------------------------------------
(* Cart lines and orders. An order takes the ids of the lines it claims, so *)
(* that no line is ordered twice rests on ids being handed out once.        *)

LineIds ==
  \A c \in Carts, v \in Variants :
    /\ lines[c][v].id \in 0 .. nextLine - 1
    /\ lines[c][v] # NoLine => lines[c][v].id # 0
    /\ \A d \in Carts, w \in Variants :
         lines[c][v].id = lines[d][w].id /\ lines[c][v].id # 0 => c = d /\ v = w
OrderIds == \A b \in Buyers : orders[b].lines \subseteq 1 .. nextLine - 1

\* What a checkout under way has in its locals.
Underway ==
  \A b \in Buyers :
    /\ pc[b] # "done" => orders[b] = NoOrder
    /\ pc[b] \in {"coupon", "place"} => local[b].cart \in Carts
    /\ \A v \in local[b].deducts : local[b].items[v] # NoLine

OrdersInv == TypeOK /\ LineIds /\ OrderIds /\ Underway /\ OrderedOnce

LEMMA OrdersInit == Init => OrdersInv
<1> SUFFICES ASSUME Init PROVE OrdersInv
  OBVIOUS
<1>1. TypeOK
  BY TypeInit
<1>2. /\ nextLine = 1 /\ \A c \in Carts, v \in Variants : lines[c][v] = NoLine /\ lines[c][v].id = 0
      /\ \A b \in Buyers : orders[b] = NoOrder /\ orders[b].lines = {}
  BY DEF Init, NoLine, NoOrder
<1>3. LineIds /\ OrderIds /\ OrderedOnce
  BY <1>2 DEF LineIds, OrderIds, OrderedOnce
<1>4. Underway
  BY DEF Init, Underway, NoLocals
<1> QED
  BY <1>1, <1>3, <1>4 DEF OrdersInv

LEMMA UnderwayStep == TypeOK /\ Underway /\ [Next]_vars => Underway'
<1> SUFFICES ASSUME TypeOK, Underway, [Next]_vars PROVE Underway'
  OBVIOUS
<1>1. /\ pc \in [Buyers -> {"new", "coupon", "place", "done"}]
      /\ orders \in [Buyers -> OrderRows] /\ local \in [Buyers -> Locals]
  BY DEF TypeOK
<1>2. ASSUME NEW b \in Buyers, CartRead(b) PROVE Underway'
  <2>1. PICK c \in Carts, used \in {"used", "unused"} :
          /\ local' = [local EXCEPT ![b] = [cart |-> c, items |-> lines[c],
                                            deducts |-> Items(c) \cap tracked,
                                            coupon |-> used, limit |-> 0]]
          /\ pc' = [pc EXCEPT ![b] = IF used = "used" THEN "coupon" ELSE "place"]
    BY <1>2 DEF CartRead, Goto
  <2>2. /\ local'[b].cart = c /\ local'[b].items = lines[c]
        /\ local'[b].deducts = Items(c) \cap tracked
        /\ \A d \in Buyers \ {b} : local'[d] = local[d] /\ pc'[d] = pc[d]
        /\ orders' = orders
    BY <1>1, <1>2, <2>1 DEF CartRead
  <2>3. \A v \in local'[b].deducts : local'[b].items[v] # NoLine
    BY <2>2 DEF Items
  <2>4. orders[b] = NoOrder
    BY <1>2 DEF Underway, CartRead
  <2> QED
    BY <2>2, <2>3, <2>4 DEF Underway
<1>3. ASSUME NEW b \in Buyers, CouponRead(b) PROVE Underway'
  <2>1. /\ orders' = orders /\ pc[b] = "coupon"
        /\ \A d \in Buyers : /\ local'[d].cart = local[d].cart /\ local'[d].items = local[d].items
                             /\ local'[d].deducts = local[d].deducts
        /\ \A d \in Buyers \ {b} : pc'[d] = pc[d]
    BY <1>1, <1>3 DEF CouponRead, Goto, Locals
  <2> QED
    BY <2>1 DEF Underway
<1>4. ASSUME NEW b \in Buyers, Place(b) PROVE Underway'
  <2>1. /\ local' = local /\ pc'[b] = "done"
        /\ \A d \in Buyers \ {b} : orders'[d] = orders[d] /\ pc'[d] = pc[d]
    BY <1>1, <1>4 DEF Place, Goto
  <2> QED
    BY <2>1 DEF Underway
<1>5. ASSUME NEW b \in Buyers, GiveUp(b) PROVE Underway'
  <2>1. /\ local' = local /\ orders' = orders /\ pc'[b] = "done"
        /\ \A d \in Buyers \ {b} : pc'[d] = pc[d]
    BY <1>1, <1>5 DEF GiveUp, Goto
  <2> QED
    BY <2>1 DEF Underway
<1>6. ASSUME NEW b \in Buyers, Release(b) PROVE Underway'
  <2>1. /\ local' = local /\ pc' = pc
        /\ \A d \in Buyers \ {b} : orders'[d] = orders[d]
    BY <1>1, <1>6 DEF Release, sessions
  <2>2. pc[b] = "done"
    BY <1>6 DEF Underway, Release, NoOrder
  <2> QED
    BY <2>1, <2>2 DEF Underway
<1>7. CASE UNCHANGED <<orders, pc, local>>
  BY <1>7 DEF Underway
<1>8. ASSUME NEW c \in Carts, NEW v \in Variants, PutLine(c, v) PROVE UNCHANGED <<orders, pc, local>>
  BY <1>8 DEF PutLine, sessions
<1>9. ASSUME NEW c \in Carts, NEW vs \in SUBSET Variants, RemoveLines(c, vs)
      PROVE  UNCHANGED <<orders, pc, local>>
  BY <1>9 DEF RemoveLines, sessions
<1>10. ASSUME NEW v \in Variants, EditStock(v) \/ SetStock(v) \/ ToggleTracking(v)
       PROVE  UNCHANGED <<orders, pc, local>>
  BY <1>10 DEF EditStock, SetStock, ToggleTracking, sessions
<1>11. EditLimit \/ UNCHANGED vars => UNCHANGED <<orders, pc, local>>
  BY DEF EditLimit, vars, sessions
<1> QED
  BY <1>2, <1>3, <1>4, <1>5, <1>6, <1>7, <1>8, <1>9, <1>10, <1>11 DEF Next

LEMMA OrdersStep == OrdersInv /\ [Next]_vars => OrdersInv'
<1> SUFFICES ASSUME OrdersInv, [Next]_vars PROVE LineIds' /\ OrderIds' /\ OrderedOnce'
  BY TypeStep, UnderwayStep DEF OrdersInv
<1>1. /\ lines \in [Carts -> [Variants -> LineRows]] /\ nextLine \in Nat \ {0}
      /\ orders \in [Buyers -> OrderRows]
      /\ NoLine.id = 0
  BY DEF OrdersInv, TypeOK, NoLine
<1>2. ASSUME NEW b \in Buyers, Place(b) PROVE LineIds' /\ OrderIds' /\ OrderedOnce'
  <2> DEFINE cart1 == local[b].cart
  <2> DEFINE taken == {v \in Variants : local[b].items[v] # NoLine}
  <2>1. /\ cart1 \in Carts /\ orders[b] = NoOrder
        /\ \A v \in taken : lines[cart1][v] = local[b].items[v]
    BY <1>2 DEF Place, Claimable, OrdersInv, Underway
  <2>2. lines' = [lines EXCEPT ![cart1] =
                   [v \in Variants |-> IF local[b].items[v] # NoLine THEN NoLine ELSE lines[cart1][v]]]
    BY <1>2 DEF Place
  <2>3. /\ orders'[b].lines = {local[b].items[v].id : v \in taken}
        /\ \A d \in Buyers \ {b} : orders'[d] = orders[d]
        /\ nextLine' = nextLine
    BY <1>1, <1>2 DEF Place
  <2>4. \A c \in Carts, v \in Variants :
          lines'[c][v] = IF c = cart1 /\ v \in taken THEN NoLine ELSE lines[c][v]
    BY <1>1, <2>1, <2>2
  <2>5. \A n \in orders'[b].lines : \E v \in taken : n = lines[cart1][v].id
    BY <2>1, <2>3
  <2>6. \A v \in taken : lines[cart1][v] # NoLine
    BY <2>1
  <2> HIDE DEF cart1, taken
  <2>7. taken \subseteq Variants
    BY DEF taken
  <2>8. \A v \in taken : lines[cart1][v].id \in 1 .. nextLine - 1
    <3>1. \A c \in Carts, v \in Variants :
            lines[c][v].id \in 0 .. nextLine - 1 /\ (lines[c][v] # NoLine => lines[c][v].id # 0)
      BY DEF OrdersInv, LineIds
    <3> QED
      BY <2>1, <2>6, <2>7, <3>1, <1>1
  <2>9. LineIds'
    <3>1. \A c \in Carts, v \in Variants :
            lines'[c][v] = lines[c][v] \/ (lines'[c][v] = NoLine /\ lines'[c][v].id = 0)
      BY <1>1, <2>4
    <3> QED
      BY <1>1, <2>3, <3>1 DEF OrdersInv, LineIds
  <2>10. OrderIds'
    BY <2>3, <2>5, <2>8 DEF OrdersInv, OrderIds
  <2>11. ASSUME NEW n \in orders'[b].lines
         PROVE  /\ \A d \in Buyers \ {b} : n \notin orders'[d].lines
                /\ \A c \in Carts, v \in Variants : lines'[c][v].id # n
    <3>1. PICK w \in taken : n = lines[cart1][w].id
      BY <2>5
    <3>2. n # 0 /\ w \in Variants
      BY <2>7, <2>8, <3>1
    <3>3. \A d \in Buyers \ {b} : n \notin orders'[d].lines
      BY <2>1, <2>3, <3>1, <3>2 DEF OrdersInv, OrderedOnce
    <3>4. \A c \in Carts, v \in Variants : lines[c][v].id = n => c = cart1 /\ v = w
      BY <2>1, <3>1, <3>2 DEF OrdersInv, LineIds
    <3>5. \A c \in Carts, v \in Variants : lines'[c][v].id # n
      BY <1>1, <2>4, <3>2, <3>4
    <3> QED
      BY <3>3, <3>5
  <2>12. ASSUME NEW d \in Buyers \ {b}
         PROVE  /\ orders'[d].lines \cap orders'[b].lines = {}
                /\ \A e \in Buyers \ {d} : orders'[d].lines \cap orders'[e].lines = {}
                /\ \A c \in Carts, v \in Variants : lines'[c][v].id \notin orders'[d].lines
    <3>1. orders'[d].lines \cap orders'[b].lines = {}
      BY <2>11
    <3>2. orders'[d].lines \subseteq 1 .. nextLine - 1
      BY <2>3 DEF OrdersInv, OrderIds
    <3>3. \A c \in Carts, v \in Variants : lines'[c][v].id \notin orders'[d].lines
      BY <1>1, <2>3, <2>4, <3>2 DEF OrdersInv, OrderedOnce
    <3>4. \A e \in Buyers \ {d} : orders'[d].lines \cap orders'[e].lines = {}
      BY <2>3, <3>1 DEF OrdersInv, OrderedOnce
    <3> QED
      BY <3>1, <3>3, <3>4
  <2>13. OrderedOnce'
    BY <2>11, <2>12 DEF OrderedOnce
  <2> QED
    BY <2>9, <2>10, <2>13
<1>3. ASSUME NEW b \in Buyers, Release(b) PROVE LineIds' /\ OrderIds' /\ OrderedOnce'
  <2>1. /\ lines' = lines /\ nextLine' = nextLine
        /\ \A d \in Buyers : orders'[d].lines = orders[d].lines
    BY <1>1, <1>3 DEF Release, cart, OrderRows
  <2> QED
    BY <2>1 DEF OrdersInv, LineIds, OrderIds, OrderedOnce
<1>4. ASSUME NEW c \in Carts, NEW v \in Variants, PutLine(c, v)
      PROVE  LineIds' /\ OrderIds' /\ OrderedOnce'
  <2>0. orders' = orders
    BY <1>4 DEF PutLine
  <2>1. PICK q \in 1 .. MaxQuantity :
          \/ /\ lines[c][v] = NoLine
             /\ lines' = [lines EXCEPT ![c] = [lines[c] EXCEPT ![v] = [id |-> nextLine, quantity |-> q]]]
             /\ nextLine' = nextLine + 1
          \/ /\ lines[c][v] # NoLine
             /\ lines' = [lines EXCEPT ![c] =
                            [lines[c] EXCEPT ![v] = [id |-> lines[c][v].id, quantity |-> q]]]
             /\ nextLine' = nextLine
    BY <1>4 DEF PutLine
  <2>2. ASSUME lines[c][v] # NoLine, nextLine' = nextLine,
               lines' = [lines EXCEPT ![c] = [lines[c] EXCEPT ![v] = [id |-> lines[c][v].id, quantity |-> q]]]
        PROVE  LineIds' /\ OrderIds' /\ OrderedOnce'
    <3>1. \A d \in Carts, w \in Variants :
            /\ lines'[d][w].id = lines[d][w].id
            /\ lines'[d][w] # NoLine => lines[d][w] # NoLine
      BY <1>1, <2>2
    <3> QED
      BY <2>0, <2>2, <3>1 DEF OrdersInv, LineIds, OrderIds, OrderedOnce
  <2>3. ASSUME nextLine' = nextLine + 1,
               lines' = [lines EXCEPT ![c] = [lines[c] EXCEPT ![v] = [id |-> nextLine, quantity |-> q]]]
        PROVE  LineIds' /\ OrderIds' /\ OrderedOnce'
    <3>1. \A d \in Carts, w \in Variants :
            IF d = c /\ w = v THEN lines'[d][w].id = nextLine ELSE lines'[d][w] = lines[d][w]
      BY <1>1, <2>3
    <3>2. LineIds'
      <4> SUFFICES ASSUME NEW d \in Carts, NEW w \in Variants
                   PROVE  /\ lines'[d][w].id \in 0 .. nextLine' - 1
                          /\ lines'[d][w] # NoLine => lines'[d][w].id # 0
                          /\ \A e \in Carts, x \in Variants :
                               lines'[d][w].id = lines'[e][x].id /\ lines'[d][w].id # 0 => d = e /\ w = x
        BY DEF LineIds
      <4>1. \A e \in Carts, x \in Variants : lines[e][x].id \in 0 .. nextLine - 1
        BY DEF OrdersInv, LineIds
      <4>2. lines[d][w] # NoLine => lines[d][w].id # 0
        BY DEF OrdersInv, LineIds
      <4>3. \A e \in Carts, x \in Variants :
              lines[d][w].id = lines[e][x].id /\ lines[d][w].id # 0 => d = e /\ w = x
        BY DEF OrdersInv, LineIds
      <4>4. lines'[d][w].id \in 0 .. nextLine' - 1 /\ (lines'[d][w] # NoLine => lines'[d][w].id # 0)
        BY <1>1, <2>3, <3>1, <4>1, <4>2
      <4>5. CASE d = c /\ w = v
        BY <1>1, <3>1, <4>1, <4>4, <4>5
      <4>6. CASE ~(d = c /\ w = v)
        BY <1>1, <3>1, <4>1, <4>3, <4>4, <4>6
      <4> QED
        BY <4>4, <4>5, <4>6
    <3>3. OrderIds'
      BY <1>1, <2>0, <2>3 DEF OrdersInv, OrderIds
    <3>4. OrderedOnce'
      BY <1>1, <2>0, <3>1 DEF OrdersInv, OrderedOnce, OrderIds
    <3> QED
      BY <3>2, <3>3, <3>4
  <2> QED
    BY <2>1, <2>2, <2>3
<1>5. ASSUME NEW c \in Carts, NEW vs \in SUBSET Variants, RemoveLines(c, vs)
      PROVE  LineIds' /\ OrderIds' /\ OrderedOnce'
  <2>1. /\ nextLine' = nextLine /\ orders' = orders
        /\ \A d \in Carts, w \in Variants :
             lines'[d][w] = lines[d][w] \/ (lines'[d][w] = NoLine /\ lines'[d][w].id = 0)
    BY <1>1, <1>5 DEF RemoveLines
  <2>2. LineIds' /\ OrderIds'
    BY <1>1, <2>1 DEF OrdersInv, LineIds, OrderIds
  <2>3. OrderedOnce'
    BY <1>1, <2>1 DEF OrdersInv, OrderedOnce, OrderIds
  <2> QED
    BY <2>2, <2>3
<1>6. ASSUME UNCHANGED <<lines, nextLine, orders>> PROVE LineIds' /\ OrderIds' /\ OrderedOnce'
  BY <1>6 DEF OrdersInv, LineIds, OrderIds, OrderedOnce
<1>7. ASSUME NEW b \in Buyers, CartRead(b) \/ CouponRead(b) \/ GiveUp(b)
      PROVE  UNCHANGED <<lines, nextLine, orders>>
  BY <1>7 DEF CartRead, CouponRead, GiveUp, cart
<1>8. ASSUME NEW v \in Variants, EditStock(v) \/ SetStock(v) \/ ToggleTracking(v)
      PROVE  UNCHANGED <<lines, nextLine, orders>>
  BY <1>8 DEF EditStock, SetStock, ToggleTracking, cart
<1>9. EditLimit \/ UNCHANGED vars => UNCHANGED <<lines, nextLine, orders>>
  BY DEF EditLimit, vars, cart
<1> QED
  BY <1>2, <1>3, <1>4, <1>5, <1>6, <1>7, <1>8, <1>9 DEF Next

\* No cart line is ordered twice, or ordered and kept in a cart, whatever the number of
\* tabs and double submits.
THEOREM OrderedOnceCorrect == Spec => []OrderedOnce
<1>1. Spec => []OrdersInv
  BY OrdersInit, OrdersStep, PTL DEF Spec
<1>2. OrdersInv => OrderedOnce
  BY DEF OrdersInv
<1> QED
  BY <1>1, <1>2, PTL

\* A step that makes an order orders what its buyer's cart holds as it takes it.
THEOREM PlacedCorrect == Spec => PlacedAsShown
<1>1. OrdersInv /\ [Next]_vars =>
        [\A b \in Buyers : orders[b].status = "none" /\ orders'[b].status = "open" =>
           \A v \in local[b].deducts :
             orders'[b].deducted[v] = lines[local[b].cart][v].quantity]_vars
  <2> SUFFICES ASSUME OrdersInv, Next, NEW b \in Buyers,
                      orders[b].status = "none", orders'[b].status = "open",
                      NEW v \in local[b].deducts
               PROVE  orders'[b].deducted[v] = lines[local[b].cart][v].quantity
    BY DEF vars
  <2>1. orders \in [Buyers -> OrderRows] /\ v \in Variants
    BY DEF OrdersInv, TypeOK, Locals
  <2>2. orders' # orders
    OBVIOUS
  <2>3. PICK d \in Buyers : Place(d) \/ Release(d)
    BY <2>2 DEF Next, CartRead, CouponRead, GiveUp, PutLine, RemoveLines, EditStock, SetStock,
                ToggleTracking, EditLimit
  <2>4. d = b
    BY <2>1, <2>3 DEF Place, Release
  <2>5. Place(b)
    BY <2>1, <2>3, <2>4 DEF Release
  <2>6. orders'[b].deducted[v] = local[b].items[v].quantity
    BY <2>1, <2>5 DEF Place, Units
  <2>7. lines[local[b].cart][v] = local[b].items[v]
    BY <2>1, <2>5 DEF Place, Claimable, OrdersInv, Underway
  <2> QED
    BY <2>6, <2>7
<1>2. Spec => []OrdersInv
  BY OrdersInit, OrdersStep, PTL DEF Spec
<1> QED
  BY <1>1, <1>2, PTL DEF Spec, PlacedAsShown

-----------------------------------------------------------------------------
(* The coupon.                                                             *)

\* The limit a checkout will hold its coupon use against is one the coupon had.
LimitRemembered ==
  /\ maxUses \in limits
  /\ \A b \in Buyers : pc[b] = "place" /\ local[b].coupon = "used" => local[b].limit \in limits

LimitInv == TypeOK /\ LimitRemembered /\ LimitKept

LEMMA LimitInit == Init => LimitInv
<1> SUFFICES ASSUME Init PROVE LimitInv
  OBVIOUS
<1>1. TypeOK
  BY TypeInit
<1>2. LimitRemembered
  BY DEF Init, LimitRemembered
<1>3. maxUses \in limits /\ uses = 0 /\ maxUses \in Nat
  BY <1>1 DEF Init, TypeOK
<1>4. LimitKept
  BY <1>3 DEF LimitKept
<1> QED
  BY <1>1, <1>2, <1>4 DEF LimitInv

LEMMA LimitStep == LimitInv /\ [Next]_vars => LimitInv'
<1> SUFFICES ASSUME LimitInv, [Next]_vars PROVE LimitRemembered' /\ LimitKept'
  BY TypeStep DEF LimitInv
<1>1. /\ uses \in Nat /\ limits \in SUBSET Nat /\ local \in [Buyers -> Locals]
      /\ pc \in [Buyers -> {"new", "coupon", "place", "done"}]
  BY DEF LimitInv, TypeOK
<1>2. PICK limit \in limits : limit = 0 \/ uses <= limit
  BY DEF LimitInv, LimitKept
<1>3. ASSUME NEW b \in Buyers, CartRead(b) PROVE LimitRemembered' /\ LimitKept'
  <2>1. /\ maxUses' = maxUses /\ limits' = limits /\ uses' = uses
        /\ \A d \in Buyers \ {b} : local'[d] = local[d] /\ pc'[d] = pc[d]
    BY <1>1, <1>3 DEF CartRead, Goto, coupon
  <2>2. pc'[b] = "place" => local'[b].coupon # "used"
    BY <1>1, <1>3 DEF CartRead, Goto
  <2> QED
    BY <2>1, <2>2 DEF LimitInv, LimitRemembered, LimitKept
<1>4. ASSUME NEW b \in Buyers, CouponRead(b) PROVE LimitRemembered' /\ LimitKept'
  <2>1. /\ maxUses' = maxUses /\ limits' = limits /\ uses' = uses
        /\ \A d \in Buyers \ {b} : local'[d] = local[d] /\ pc'[d] = pc[d]
    BY <1>1, <1>4 DEF CouponRead, Goto, coupon
  <2>2. local'[b].limit = maxUses
    BY <1>1, <1>4 DEF CouponRead, Locals
  <2> QED
    BY <2>1, <2>2 DEF LimitInv, LimitRemembered, LimitKept
<1>5. ASSUME NEW b \in Buyers, Place(b) PROVE LimitRemembered' /\ LimitKept'
  <2>1. /\ maxUses' = maxUses /\ limits' = limits /\ local' = local /\ pc'[b] = "done"
        /\ \A d \in Buyers \ {b} : pc'[d] = pc[d]
    BY <1>1, <1>5 DEF Place, Goto
  <2>2. LimitRemembered'
    BY <2>1 DEF LimitInv, LimitRemembered
  <2>3. CASE local[b].coupon = "used"
    <3>1. local[b].limit \in limits /\ local[b].limit \in Nat
      BY <1>1, <1>5, <2>3 DEF LimitInv, LimitRemembered, Place
    <3>2. local[b].limit = 0 \/ uses' <= local[b].limit
      BY <1>1, <1>5, <2>3, <3>1 DEF Place, CouponLeft
    <3> QED
      BY <2>1, <2>2, <3>1, <3>2 DEF LimitKept
  <2>4. CASE local[b].coupon # "used"
    <3>1. uses' = uses
      BY <1>5, <2>4 DEF Place
    <3> QED
      BY <1>2, <2>1, <2>2, <3>1 DEF LimitKept
  <2> QED
    BY <2>3, <2>4
<1>6. ASSUME NEW b \in Buyers, GiveUp(b) PROVE LimitRemembered' /\ LimitKept'
  <2>1. /\ maxUses' = maxUses /\ limits' = limits /\ uses' = uses /\ local' = local /\ pc'[b] = "done"
        /\ \A d \in Buyers \ {b} : pc'[d] = pc[d]
    BY <1>1, <1>6 DEF GiveUp, Goto, coupon
  <2> QED
    BY <2>1 DEF LimitInv, LimitRemembered, LimitKept
<1>7. ASSUME NEW b \in Buyers, Release(b) PROVE LimitRemembered' /\ LimitKept'
  <2>1. maxUses' = maxUses /\ limits' = limits /\ local' = local /\ pc' = pc
    BY <1>7 DEF Release, sessions
  <2>2. uses' \in Nat /\ uses' <= uses
    BY <1>1, <1>7 DEF Release, UsesAfterRelease
  <2>3. limit = 0 \/ uses' <= limit
    BY <1>1, <1>2, <2>2
  <2> QED
    BY <1>2, <2>1, <2>3 DEF LimitInv, LimitRemembered, LimitKept
<1>8. CASE EditLimit
  <2>1. /\ maxUses' \in limits' /\ limits \subseteq limits' /\ uses' = uses
        /\ local' = local /\ pc' = pc
    BY <1>8 DEF EditLimit, sessions
  <2> QED
    BY <1>2, <2>1 DEF LimitInv, LimitRemembered, LimitKept
<1>9. ASSUME UNCHANGED <<coupon, sessions>> PROVE LimitRemembered' /\ LimitKept'
  BY <1>9 DEF LimitInv, LimitRemembered, LimitKept, coupon, sessions
<1>10. ASSUME NEW c \in Carts, NEW v \in Variants, PutLine(c, v) PROVE UNCHANGED <<coupon, sessions>>
  BY <1>10 DEF PutLine
<1>11. ASSUME NEW c \in Carts, NEW vs \in SUBSET Variants, RemoveLines(c, vs)
       PROVE  UNCHANGED <<coupon, sessions>>
  BY <1>11 DEF RemoveLines
<1>12. ASSUME NEW v \in Variants, EditStock(v) \/ SetStock(v) \/ ToggleTracking(v)
       PROVE  UNCHANGED <<coupon, sessions>>
  BY <1>12 DEF EditStock, SetStock, ToggleTracking
<1>13. UNCHANGED vars => UNCHANGED <<coupon, sessions>>
  BY DEF vars
<1> QED
  BY <1>3, <1>4, <1>5, <1>6, <1>7, <1>8, <1>9, <1>10, <1>11, <1>12, <1>13 DEF Next

\* No run of checkouts, releases and edits takes a coupon past every limit it had.
THEOREM LimitCorrect == Spec => []LimitKept
<1>1. Spec => []LimitInv
  BY LimitInit, LimitStep, PTL DEF Spec
<1>2. LimitInv => LimitKept
  BY DEF LimitInv
<1> QED
  BY <1>1, <1>2, PTL

UsesInv == OrdersInv /\ UsesAreOrders

LEMMA UsesInit == Init => UsesInv
<1> SUFFICES ASSUME Init PROVE UsesInv
  OBVIOUS
<1>1. Couponed = {} /\ uses = 0
  BY DEF Init, Couponed, NoOrder
<1> QED
  BY <1>1, OrdersInit, FS_EmptySet DEF UsesInv, UsesAreOrders

LEMMA UsesStep == UsesInv /\ [Next]_vars => UsesInv'
<1> SUFFICES ASSUME UsesInv, [Next]_vars PROVE UsesAreOrders'
  BY OrdersStep DEF UsesInv
<1>1. uses \in Nat /\ orders \in [Buyers -> OrderRows] /\ uses = Cardinality(Couponed)
  BY DEF UsesInv, OrdersInv, TypeOK, UsesAreOrders
<1>2. IsFiniteSet(Couponed)
  BY BuyersAssumption, FS_Subset DEF Couponed
<1>3. ASSUME NEW b \in Buyers, Place(b) PROVE UsesAreOrders'
  <2>1. /\ orders[b].status = "none" /\ b \notin Couponed
    BY <1>3 DEF Place, UsesInv, OrdersInv, Underway, NoOrder, Couponed
  <2>2. /\ orders'[b].status = "open" /\ orders'[b].coupon = local[b].coupon
        /\ \A d \in Buyers \ {b} : orders'[d] = orders[d]
    BY <1>1, <1>3 DEF Place
  <2>3. CASE local[b].coupon = "used"
    <3>1. Couponed' = Couponed \cup {b}
      BY <2>2, <2>3 DEF Couponed
    <3>2. uses' = uses + 1
      BY <1>3, <2>3 DEF Place
    <3> QED
      BY <1>1, <1>2, <2>1, <3>1, <3>2, FS_AddElement DEF UsesAreOrders
  <2>4. CASE local[b].coupon # "used"
    <3>1. Couponed' = Couponed
      BY <2>1, <2>2, <2>4 DEF Couponed
    <3>2. uses' = uses
      BY <1>3, <2>4 DEF Place
    <3> QED
      BY <1>1, <3>1, <3>2 DEF UsesAreOrders
  <2> QED
    BY <2>3, <2>4
<1>4. ASSUME NEW b \in Buyers, Release(b) PROVE UsesAreOrders'
  <2>1. /\ orders[b].status = "open" /\ orders'[b].status = "released"
        /\ \A d \in Buyers \ {b} : orders'[d] = orders[d]
    BY <1>1, <1>4 DEF Release, OrderRows
  <2>2. Couponed' = Couponed \ {b}
    BY <2>1 DEF Couponed
  <2>3. CASE b \in Couponed
    <3>1. Cardinality(Couponed \ {b}) = Cardinality(Couponed) - 1
      BY <1>2, <2>3, FS_RemoveElement
    <3>2. Cardinality(Couponed \ {b}) \in Nat
      BY <1>2, FS_RemoveElement, FS_CardinalityType
    <3>3. orders[b].coupon = "used" /\ uses > 0
      BY <1>1, <2>3, <3>1, <3>2 DEF Couponed
    <3>4. uses' = uses - 1
      BY <1>4, <3>3 DEF Release, UsesAfterRelease
    <3> QED
      BY <1>1, <2>2, <3>1, <3>4 DEF UsesAreOrders
  <2>4. CASE b \notin Couponed
    <3>1. uses' = uses /\ Couponed' = Couponed
      BY <1>4, <2>1, <2>2, <2>4 DEF Release, UsesAfterRelease, Couponed
    <3> QED
      BY <1>1, <3>1 DEF UsesAreOrders
  <2> QED
    BY <2>3, <2>4
<1>5. ASSUME UNCHANGED <<uses, orders>> PROVE UsesAreOrders'
  BY <1>5 DEF UsesInv, UsesAreOrders, Couponed
<1>6. ASSUME NEW b \in Buyers, CartRead(b) \/ CouponRead(b) \/ GiveUp(b) PROVE UNCHANGED <<uses, orders>>
  BY <1>6 DEF CartRead, CouponRead, GiveUp, coupon
<1>7. ASSUME NEW c \in Carts, NEW v \in Variants, PutLine(c, v) PROVE UNCHANGED <<uses, orders>>
  BY <1>7 DEF PutLine, coupon
<1>8. ASSUME NEW c \in Carts, NEW vs \in SUBSET Variants, RemoveLines(c, vs)
      PROVE  UNCHANGED <<uses, orders>>
  BY <1>8 DEF RemoveLines, coupon
<1>9. ASSUME NEW v \in Variants, EditStock(v) \/ SetStock(v) \/ ToggleTracking(v)
      PROVE  UNCHANGED <<uses, orders>>
  BY <1>9 DEF EditStock, SetStock, ToggleTracking, coupon
<1>10. EditLimit \/ UNCHANGED vars => UNCHANGED <<uses, orders>>
  BY DEF EditLimit, vars, coupon
<1> QED
  BY <1>3, <1>4, <1>5, <1>6, <1>7, <1>8, <1>9, <1>10 DEF Next

\* The counted uses of the coupon are the open orders that have it; the floor at zero
\* in releaseOrderResources is never needed.
THEOREM UsesCorrect == Spec => []UsesAreOrders
<1>1. Spec => []UsesInv
  BY UsesInit, UsesStep, PTL DEF Spec
<1>2. UsesInv => UsesAreOrders
  BY DEF UsesInv
<1> QED
  BY <1>1, <1>2, PTL

-----------------------------------------------------------------------------
(* The refinement of the stock ledger.                                     *)

LEMMA LedgerInit == Init => Ledger!Init
<1> SUFFICES ASSUME Init PROVE Ledger!Init
  OBVIOUS
<1>1. stock \in [Variants -> Nat]
  BY BoundsAssumption DEF Init
<1>2. \A b \in Buyers : Held(b) = NoUnits /\ Phase(b) = "none"
  BY DEF Init, Held, Phase, NoOrder
<1>3. [b \in Buyers |-> Held(b)] = [o \in Buyers |-> Ledger!Nothing]
  BY <1>2 DEF NoUnits, Ledger!Nothing
<1>4. [b \in Buyers |-> Phase(b)] = [o \in Buyers |-> "none"]
  BY <1>2
<1> QED
  BY <1>1, <1>3, <1>4 DEF Ledger!Init

LEMMA LedgerStep == OrdersInv /\ [Next]_vars => [Ledger!Next]_Ledger!ledger
<1> SUFFICES ASSUME OrdersInv, [Next]_vars PROVE [Ledger!Next]_Ledger!ledger
  OBVIOUS
<1> DEFINE held  == [b \in Buyers |-> Held(b)]
<1> DEFINE phase == [b \in Buyers |-> Phase(b)]
<1>1. /\ stock \in [Variants -> Nat] /\ orders \in [Buyers -> OrderRows]
      /\ TypeOK
  BY DEF OrdersInv, TypeOK
<1>2. ASSUME NEW b \in Buyers, Place(b) PROVE Ledger!Reserve(b)
  <2>1. orders[b].status = "none" /\ InStock(b)
    BY <1>2 DEF Place, OrdersInv, Underway, NoOrder
  <2>2. \A v \in Variants : Units(b, v) \in Nat /\ Units(b, v) <= stock[v]
    BY <1>1, <2>1, PlaceUnits
  <2>3. /\ orders'[b].status = "open" /\ orders'[b].deducted = [v \in Variants |-> Units(b, v)]
        /\ \A d \in Buyers \ {b} : orders'[d] = orders[d]
    BY <1>1, <1>2 DEF Place
  <2>4. /\ \A d \in Buyers \ {b} : Held(d)' = Held(d) /\ Phase(d)' = Phase(d)
        /\ Held(b)' = [v \in Variants |-> Units(b, v)]
        /\ Phase(b) = "none" /\ Phase(b)' = "holding"
    BY <2>1, <2>3 DEF Held, Phase
  <2>5. phase[b] = "none" /\ phase' = [phase EXCEPT ![b] = "holding"]
    BY <2>4
  <2>6. \A d \in Buyers : Held(d) \in [Variants -> Nat]
    BY <1>1 DEF Held, OrderRows, NoUnits
  <2>7. Held(b)' \in [Variants -> Nat]
    BY <2>2, <2>4
  <2>8. held' \in [Buyers -> [Variants -> Nat]]
    BY <2>4, <2>6, <2>7
  <2>9. \A d \in Buyers \ {b} : held'[d] = held[d]
    BY <2>4
  <2>10. \A v \in Variants : held'[b][v] <= stock[v]
    BY <2>2, <2>4
  <2>11. stock' = [v \in Variants |-> stock[v] - held'[b][v]]
    BY <1>2, <2>4 DEF Place
  <2> QED
    BY <2>5, <2>8, <2>9, <2>10, <2>11 DEF Ledger!Reserve
<1>3. ASSUME NEW b \in Buyers, Release(b) PROVE Ledger!Return(b)
  <2>1. /\ orders[b].status = "open" /\ orders'[b].status = "released"
        /\ \A d \in Buyers \ {b} : orders'[d] = orders[d]
    BY <1>1, <1>3 DEF Release, OrderRows
  <2>2. /\ \A d \in Buyers \ {b} : Held(d)' = Held(d) /\ Phase(d)' = Phase(d)
        /\ Held(b) = orders[b].deducted /\ Held(b)' = NoUnits
        /\ Phase(b) = "holding" /\ Phase(b)' = "returned"
    BY <2>1 DEF Held, Phase
  <2>3. phase[b] = "holding" /\ phase' = [phase EXCEPT ![b] = "returned"]
    BY <2>2
  <2>4. held' = [held EXCEPT ![b] = Ledger!Nothing]
    BY <2>2 DEF NoUnits, Ledger!Nothing
  <2>5. stock' = [v \in Variants |-> stock[v] + held[b][v]]
    BY <1>3, <2>2 DEF Release, Returned
  <2> QED
    BY <2>3, <2>4, <2>5 DEF Ledger!Return
<1>4. ASSUME NEW v \in Variants, EditStock(v) \/ SetStock(v) PROVE Ledger!Correct
  <2>1. stock' \in [Variants -> Nat]
    BY <1>1, TypeStep DEF TypeOK
  <2>2. orders' = orders
    BY <1>4 DEF EditStock, SetStock
  <2>3. held' = held /\ phase' = phase
    BY <2>2 DEF Held, Phase
  <2> QED
    BY <2>1, <2>3 DEF Ledger!Correct
<1>5. ASSUME UNCHANGED <<stock, orders>> PROVE UNCHANGED Ledger!ledger
  <2>1. held' = held /\ phase' = phase
    BY <1>5 DEF Held, Phase
  <2> QED
    BY <1>5, <2>1 DEF Ledger!ledger
<1>6. ASSUME NEW b \in Buyers, CartRead(b) \/ CouponRead(b) \/ GiveUp(b) PROVE UNCHANGED <<stock, orders>>
  BY <1>6 DEF CartRead, CouponRead, GiveUp, shelf
<1>7. ASSUME NEW c \in Carts, NEW v \in Variants, PutLine(c, v) PROVE UNCHANGED <<stock, orders>>
  BY <1>7 DEF PutLine, shelf
<1>8. ASSUME NEW c \in Carts, NEW vs \in SUBSET Variants, RemoveLines(c, vs)
      PROVE  UNCHANGED <<stock, orders>>
  BY <1>8 DEF RemoveLines, shelf
<1>9. ASSUME NEW v \in Variants, ToggleTracking(v) PROVE UNCHANGED <<stock, orders>>
  BY <1>9 DEF ToggleTracking
<1>10. EditLimit \/ UNCHANGED vars => UNCHANGED <<stock, orders>>
  BY DEF EditLimit, vars, shelf
<1> QED
  BY <1>2, <1>3, <1>4, <1>5, <1>6, <1>7, <1>8, <1>9, <1>10 DEF Next, Ledger!Next

\* Concurrent checkouts, releases and admin edits move stock as the ledger says.
THEOREM LedgerCorrect == Spec => ImplementsLedger
<1>1. Spec => []OrdersInv
  BY OrdersInit, OrdersStep, PTL DEF Spec
<1> QED
  BY <1>1, LedgerInit, LedgerStep, PTL DEF Spec, ImplementsLedger, Ledger!Spec
=============================================================================
