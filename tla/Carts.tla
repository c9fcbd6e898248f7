-------------------------------- MODULE Carts --------------------------------
(***************************************************************************)
(* The carts of one customer, as guest and as user.                        *)
(*   apps/server/src/cart/cart.service.ts      CartService                 *)
(*   apps/server/src/orders/orders.service.ts  createOrder, its claim      *)
(*                                                                         *)
(* The requests read a cart, then write what they read: a line by its id,  *)
(* a quantity computed from the one read. One action is one stretch        *)
(* between awaits. A merge writes in one transaction; at READ COMMITTED    *)
(* what it read earlier may be old when it does. Whether a variant is      *)
(* sold and how much of it is left is any answer, so a request may be      *)
(* refused, or fail, at each of its steps.                                 *)
(***************************************************************************)
EXTENDS Integers, FiniteSets

CONSTANTS
  CartCalls,     \* the requests
  CartVariants,  \* the variants
  MaxCarts,      \* bound: the rows of table carts are 1 .. MaxCarts
  MaxLine,       \* MAX_LINE_QUANTITY
  MaxAsk         \* bound: units of one request

ASSUME CartsAssumption ==
  MaxCarts \in Nat /\ MaxLine \in Nat \ {0} /\ MaxAsk \in 0 .. MaxLine /\ CartVariants # {}

VARIABLES
  owner,    \* per cart: unborn, guest (sessionId), user (userId), gone
  qty,      \* per cart and variant: the quantity of its line, 0 if it has none
  gen,      \* the identity of that line: how many the cart has had
  at,       \* per request: what it does next
  cart,     \* the cart it read; of a merge, the guest cart
  item,     \* the variant it is about
  amount,   \* the quantity it was sent
  seen,     \* the quantities of the cart it read
  seenGen,  \* and the identities of its lines
  into,     \* of a merge: the user cart it read, 0 if there was none
  base,     \* and the quantities of that
  asked,    \* history: units requests have put in the cart
  ordered,  \* history: units ordered from the cart
  resold    \* history: of those, units ordered while a merge held what it had read

cartRows == <<owner, qty, gen>>
cartReads == <<cart, item, amount, seen, seenGen, into, base>>
cartHistory == <<asked, ordered, resold>>
cartsVars == <<cartRows, at, cartReads, cartHistory>>

CartIds == 1 .. MaxCarts
Owners == {"guest", "user"}
CreateStep == [guest |-> "create guest", user |-> "create user"]
NoLines == [v \in CartVariants |-> 0]
Carts(o) == {c \in CartIds : owner[c] = o}
\* The row the next cart.create makes; none beyond the bound.
Fresh == {c \in Carts("unborn") : \A d \in Carts("unborn") : c <= d}
Least(S) == CHOOSE n \in S : \A m \in S : n <= m

\* The customer may have a guest cart (1), a user cart (2), each with a unit.
CartsInit ==
  /\ owner \in {o \in [CartIds -> {"unborn", "guest", "user"}] :
                  \A c \in CartIds : o[c] \in (CASE c = 1 -> {"unborn", "guest"}
                                                 [] c = 2 -> {"unborn", "user"}
                                                 [] OTHER -> {"unborn"})}
  /\ qty \in [CartIds -> {NoLines, [v \in CartVariants |-> 1]}]
  /\ \A c \in CartIds : owner[c] = "unborn" => qty[c] = NoLines
  /\ gen = qty
  /\ at = [k \in CartCalls |-> "idle"]
  /\ cart = [k \in CartCalls |-> 0]
  /\ item = [k \in CartCalls |-> CHOOSE v \in CartVariants : TRUE]
  /\ amount = [k \in CartCalls |-> 0]
  /\ seen = [k \in CartCalls |-> NoLines]
  /\ seenGen = [k \in CartCalls |-> NoLines]
  /\ into = [k \in CartCalls |-> 0]
  /\ base = [k \in CartCalls |-> NoLines]
  /\ asked = qty
  /\ ordered = [c \in CartIds |-> NoLines]
  /\ resold = [c \in CartIds |-> NoLines]

Goto(k, next) == at' = [at EXCEPT ![k] = next]

\* findCart, cart c found.
ReadCart(k, c) ==
  /\ cart' = [cart EXCEPT ![k] = c]
  /\ seen' = [seen EXCEPT ![k] = qty[c]]
  /\ seenGen' = [seenGen EXCEPT ![k] = gen[c]]
  /\ UNCHANGED <<into, base>>

-----------------------------------------------------------------------------
(* addItem                                                                 *)

\* loadPurchasableVariant and findCart. Of several user carts, any is first.
FindForAdd(k, o, v, n) ==
  /\ at[k] = "idle"
  /\ item' = [item EXCEPT ![k] = v]
  /\ amount' = [amount EXCEPT ![k] = n]
  /\ \/ \E c \in Carts(o) :
          /\ ReadCart(k, c)
          /\ qty[c][v] + n <= MaxLine
          /\ Goto(k, IF qty[c][v] > 0 THEN "raise" ELSE "insert")
     \/ /\ Carts(o) = {}
        /\ Goto(k, CreateStep[o])
        /\ UNCHANGED <<cart, seen, seenGen, into, base>>
  /\ UNCHANGED <<cartRows, cartHistory>>

\* cart.create. Cart.sessionId is unique, Cart.userId is not.
CreateCart(k, o) ==
  /\ at[k] = CreateStep[o]
  /\ o = "guest" => Carts(o) = {}
  /\ \E c \in Fresh : /\ owner' = [owner EXCEPT ![c] = o]
                      /\ cart' = [cart EXCEPT ![k] = c]
  /\ Goto(k, "insert")
  /\ UNCHANGED <<qty, gen, item, amount, seen, seenGen, into, base, cartHistory>>

\* cartItem.create: the cart must be there, and have no line of the variant.
InsertLine(k) ==
  LET c == cart[k]
      v == item[k]
  IN /\ at[k] = "insert"
     /\ owner[c] \in Owners
     /\ qty[c][v] = 0
     /\ qty' = [qty EXCEPT ![c][v] = amount[k]]
     /\ gen' = [gen EXCEPT ![c][v] = @ + 1]
     /\ asked' = [asked EXCEPT ![c][v] = @ + amount[k]]
     /\ Goto(k, "done")
     /\ UNCHANGED <<owner, cartReads, ordered, resold>>

\* Whether the line request k read of variant v is still there.
LineStands(k, v) ==
  /\ qty[cart[k]][v] > 0
  /\ gen[cart[k]][v] = seenGen[k][v]

\* cartItem.update by id, of addItem and of updateItemQuantity.
WriteLine(k) ==
  LET c == cart[k]
      v == item[k]
  IN /\ at[k] \in {"raise", "set"}
     /\ LineStands(k, v)
     /\ qty' = [qty EXCEPT ![c][v] = IF at[k] = "raise" THEN seen[k][v] + amount[k] ELSE amount[k]]
     /\ asked' = [asked EXCEPT ![c][v] = @ + amount[k]]
     /\ Goto(k, "done")
     /\ UNCHANGED <<owner, gen, cartReads, ordered, resold>>

-----------------------------------------------------------------------------
(* updateItemQuantity, removeItem, clearCart                               *)

\* findOwnItem, of a line of the caller's own cart.
FindOwnItem(k, o, v, n) ==
  /\ at[k] = "idle"
  /\ \E c \in Carts(o) : qty[c][v] > 0 /\ ReadCart(k, c)
  /\ item' = [item EXCEPT ![k] = v]
  /\ amount' = [amount EXCEPT ![k] = n]
  /\ Goto(k, IF n > 0 THEN "set" ELSE "remove")
  /\ UNCHANGED <<cartRows, cartHistory>>

\* cartItem.delete by id.
RemoveLine(k) ==
  /\ at[k] = "remove"
  /\ LineStands(k, item[k])
  /\ qty' = [qty EXCEPT ![cart[k]][item[k]] = 0]
  /\ Goto(k, "done")
  /\ UNCHANGED <<owner, gen, cartReads, cartHistory>>

FindForClear(k, o) ==
  /\ at[k] = "idle"
  /\ \E c \in Carts(o) : ReadCart(k, c)
  /\ Goto(k, "clear")
  /\ UNCHANGED <<cartRows, item, amount, cartHistory>>

\* cartItem.deleteMany of the cart, whatever it holds by now.
ClearLines(k) ==
  /\ at[k] = "clear"
  /\ qty' = [qty EXCEPT ![cart[k]] = NoLines]
  /\ Goto(k, "done")
  /\ UNCHANGED <<owner, gen, cartReads, cartHistory>>

-----------------------------------------------------------------------------
(* mergeGuestCart                                                          *)

ReadGuestCart(k) ==
  /\ at[k] = "idle"
  /\ \E c \in Carts("guest") :
       /\ ReadCart(k, c)
       /\ Goto(k, IF qty[c] = NoLines THEN "delete" ELSE "merge")
  /\ UNCHANGED <<cartRows, item, amount, cartHistory>>

ReadUserCart(k) ==
  /\ at[k] = "merge"
  /\ \/ \E u \in Carts("user") : /\ into' = [into EXCEPT ![k] = u]
                                 /\ base' = [base EXCEPT ![k] = qty[u]]
     \/ Carts("user") = {} /\ UNCHANGED <<into, base>>
  /\ Goto(k, "commit")
  /\ UNCHANGED <<cartRows, cart, item, amount, seen, seenGen, cartHistory>>

\* Variant for the checks: the guest cart is not checked to be there still.
StillGuestUnchecked(g) == TRUE
\* deleted.count !== 1 rolls the merge back.
StillGuest(g) == owner[g] = "guest"

\* Variant for the checks: the merged line may be any length.
MergedUncapped(k, v, available) == Least({base[k][v] + seen[k][v], available})
\* Math.min(requested, availableStock(variant), MAX_LINE_QUANTITY)
Merged(k, v, available) ==
  Least({base[k][v] + seen[k][v], available, MaxLine})

\* The upserts, then the guest cart and its lines are deleted. Lines whose
\* variant has nothing available are dropped.
CommitMerge(k, u, available) ==
  LET g == cart[k]
      moved == {v \in CartVariants : seen[k][v] > 0 /\ available[v] > 0}
  IN /\ at[k] = "commit"
     /\ u \in (IF into[k] > 0 THEN {into[k]} ELSE Fresh)
     /\ StillGuest(g)
     /\ owner' = [owner EXCEPT ![u] = "user", ![g] = "gone"]
     /\ qty' = [qty EXCEPT ![u] = [v \in CartVariants |-> IF v \in moved THEN Merged(k, v, available[v]) ELSE @[v]],
                           ![g] = NoLines]
     /\ gen' = [gen EXCEPT ![u] = [v \in CartVariants |-> IF v \in moved /\ qty[u][v] = 0 THEN @[v] + 1 ELSE @[v]]]
     /\ asked' = [asked EXCEPT ![u] = [v \in CartVariants |-> @[v] + asked[g][v]], ![g] = NoLines]
     /\ ordered' = [ordered EXCEPT ![u] = [v \in CartVariants |-> @[v] + ordered[g][v]], ![g] = NoLines]
     /\ resold' = [resold EXCEPT ![u] = [v \in CartVariants |-> @[v] + resold[g][v]], ![g] = NoLines]
     /\ Goto(k, "done")
     /\ UNCHANGED cartReads

\* The guest cart was empty: only it is deleted.
DeleteEmpty(k) ==
  /\ at[k] = "delete"
  /\ StillGuest(cart[k])
  /\ owner' = [owner EXCEPT ![cart[k]] = "gone"]
  /\ qty' = [qty EXCEPT ![cart[k]] = NoLines]
  /\ Goto(k, "done")
  /\ UNCHANGED <<gen, cartReads, cartHistory>>

-----------------------------------------------------------------------------
(* createOrder, its first statement                                        *)

ReadForOrder(k, o) ==
  /\ at[k] = "idle"
  /\ \E c \in Carts(o) : qty[c] # NoLines /\ ReadCart(k, c)
  /\ Goto(k, "claim")
  /\ UNCHANGED <<cartRows, item, amount, cartHistory>>

\* A merge that will write from what it read of cart c.
HeldByMerge(c) ==
  \E k \in CartCalls : \/ at[k] \in {"merge", "commit"} /\ cart[k] = c
                       \/ at[k] = "commit" /\ into[k] = c

\* The line is there with the quantity the order was priced for.
AsRead(k, v) == LineStands(k, v) /\ qty[cart[k]][v] = seen[k][v]

\* deleteMany of exactly the lines read; the count must be theirs.
ClaimLines(k) ==
  LET c == cart[k]
      lines == {v \in CartVariants : seen[k][v] > 0}
      Add(units) == [units EXCEPT ![c] = [v \in CartVariants |-> @[v] + seen[k][v]]]
  IN /\ at[k] = "claim"
     /\ \A v \in lines : AsRead(k, v)
     /\ qty' = [qty EXCEPT ![c] = [v \in CartVariants |-> IF v \in lines THEN 0 ELSE @[v]]]
     /\ ordered' = Add(ordered)
     /\ resold' = IF HeldByMerge(c) THEN Add(resold) ELSE resold
     /\ Goto(k, "done")
     /\ UNCHANGED <<owner, gen, cartReads, asked>>

-----------------------------------------------------------------------------

\* A request is refused, loses a race, or fails: what it wrote is rolled back.
GiveUp(k) ==
  /\ at[k] \notin {"idle", "done"}
  /\ Goto(k, "done")
  /\ UNCHANGED <<cartRows, cartReads, cartHistory>>

CartsNext ==
  \E k \in CartCalls :
    \/ \E o \in Owners :
         \/ \E v \in CartVariants, n \in 1 .. MaxAsk : FindForAdd(k, o, v, n)
         \/ \E v \in CartVariants, n \in 0 .. MaxAsk : FindOwnItem(k, o, v, n)
         \/ CreateCart(k, o) \/ FindForClear(k, o) \/ ReadForOrder(k, o)
    \/ InsertLine(k) \/ WriteLine(k) \/ RemoveLine(k) \/ ClearLines(k)
    \/ ReadGuestCart(k) \/ ReadUserCart(k) \/ DeleteEmpty(k) \/ ClaimLines(k)
    \/ \E u \in CartIds, available \in [CartVariants -> 0 .. MaxLine + 1] : CommitMerge(k, u, available)
    \/ GiveUp(k)

CartsSpec == CartsInit /\ [][CartsNext]_cartsVars

-----------------------------------------------------------------------------

Units == [CartVariants -> Nat]
CartSteps == {"idle", "create guest", "create user", "insert", "raise", "set", "remove", "clear",
              "delete", "merge", "commit", "claim", "done"}

\* Types: the rows, and what each request holds. No line outgrows
\* MAX_LINE_QUANTITY, whatever it was computed from.
CartsTypeOK ==
  /\ owner \in [CartIds -> {"unborn", "guest", "user", "gone"}]
  /\ qty \in [CartIds -> [CartVariants -> 0 .. MaxLine]] /\ gen \in [CartIds -> Units]
  /\ at \in [CartCalls -> CartSteps]
  /\ cart \in [CartCalls -> 0 .. MaxCarts] /\ into \in [CartCalls -> 0 .. MaxCarts]
  /\ item \in [CartCalls -> CartVariants]
  /\ amount \in [CartCalls -> 0 .. MaxAsk]
  /\ seen \in [CartCalls -> Units] /\ seenGen \in [CartCalls -> Units] /\ base \in [CartCalls -> Units]
  /\ asked \in [CartIds -> Units] /\ ordered \in [CartIds -> Units] /\ resold \in [CartIds -> Units]

\* A cart, with what was ordered from it, never holds more than its owner
\* asked for: no line is added twice by a double submit of the merge or by
\* a retried add. What may be had twice is exactly what was ordered between
\* the reads of a merge and its commit.
LinesWereAsked ==
  \A c \in CartIds, v \in CartVariants :
    owner[c] \in Owners => qty[c][v] + ordered[c][v] <= asked[c][v] + resold[c][v]
=============================================================================
