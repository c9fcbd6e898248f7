-------------------------- MODULE StockTransactions --------------------------
(***************************************************************************)
(* The transactions that move stock, statement by statement and row lock   *)
(* by row lock: checkouts, releases of orders and edits of a product wait  *)
(* for each other, deadlock, are chosen as victims, rolled back and, some  *)
(* of them, run again.                                                     *)
(*   orders/orders.service.ts      createOrder, changeStatus, the sweeper, *)
(*                                 releaseOrderResources                   *)
(*   products/products.service.ts  update, delete, editStock               *)
(*   common/tx-retry.ts            withTxRetry                             *)
(* (all under src/apps/server/src)                                         *)
(*                                                                         *)
(* A transaction writes the rows of its plan in order. Each write waits    *)
(* until no other transaction has written the row, evaluates its condition *)
(* on the committed value (READ COMMITTED) and keeps the lock to the end.  *)
(* What it writes shows when it commits. Cart lines, limits of coupons and *)
(* the rest of an order are in Checkout.                                   *)
(***************************************************************************)
EXTENDS Integers, Sequences, FiniteSets

CONSTANTS
  Checkouts,    \* calls of createOrder; each places at most the order of its name
  Releases,     \* cancellations and sweeps of an order
  Edits,        \* edits and archivals of the product
  MaxVariant,   \* the product has the variants 1 .. MaxVariant
  MaxUnits,     \* bound: units of a line
  Corrections,  \* what an edit may add to a variant's stock
  MaxStock,     \* bound: units of a variant at first
  Product, Coupon   \* the rows of the product and of the coupon

Calls    == Checkouts \cup Releases \cup Edits
Orders   == Checkouts
Variants == 1 .. MaxVariant

ASSUME BoundsAssumption == MaxVariant \in Nat /\ MaxUnits \in Nat /\ MaxStock \in Nat /\ Corrections \subseteq Int
ASSUME CallsAssumption ==
  Checkouts \cap (Releases \cup Edits) = {} /\ Releases \cap Edits = {}
ASSUME RowsAssumption ==
  /\ Orders \cap Variants = {}
  /\ Product # Coupon /\ {Product, Coupon} \cap (Orders \cup Variants) = {}

VARIABLES
  stock,     \* stockQuantity of each variant, as committed
  orders,    \* the orders, as committed
  pc,        \* per call: new, run (its transaction is open), done, failed
  plan,      \* the rows its transaction writes, in order
  change,    \* what it adds to the stock of each variant
  next,      \* the position of its next write
  retried    \* whether its transaction has been run again

vars == <<stock, orders, pc, plan, change, next, retried>>

NoUnits == [v \in Variants |-> 0]

Init ==
  /\ stock \in [Variants -> 0 .. MaxStock]
  /\ orders = [o \in Orders |-> [phase |-> "none", units |-> NoUnits, coupon |-> <<>>]]
  /\ pc = [t \in Calls |-> "new"]
  /\ plan = [t \in Calls |-> <<>>]
  /\ change = [t \in Calls |-> NoUnits]
  /\ next = [t \in Calls |-> 1]
  /\ retried = [t \in Calls |-> FALSE]

-----------------------------------------------------------------------------
(* The plans.                                                              *)

\* The ways to line up a set of variants.
Lines(vs) == {s \in [1 .. Cardinality(vs) -> vs] : \A v \in vs : \E i \in DOMAIN s : s[i] = v}

\* Variant for the checks: in the order of the cart.
SortedAsGiven(vs) == Lines(vs)
\* .sort(byVariantId)
Sorted(vs) == {s \in Lines(vs) : \A i, j \in DOMAIN s : i < j => s[i] < s[j]}

Begin(t, rows, amounts) ==
  /\ pc[t] = "new"
  /\ pc' = [pc EXCEPT ![t] = "run"]
  /\ plan' = [plan EXCEPT ![t] = rows]
  /\ change' = [change EXCEPT ![t] = amounts]
  /\ UNCHANGED <<stock, orders, next, retried>>

\* createOrder: the lines that deduct, then the coupon if one is used.
BeginCheckout(t) ==
  \E units \in [Variants -> 0 .. MaxUnits], coupon \in {<<>>, <<Coupon>>} :
    \E lines \in Sorted({v \in Variants : units[v] > 0}) :
      Begin(t, lines \o coupon, [v \in Variants |-> -units[v]])

\* changeStatus and the sweeper: the order, then what releaseOrderResources returns.
BeginRelease(t) ==
  \E o \in Orders :
    /\ orders[o].phase = "open"
    /\ \E lines \in Sorted({v \in Variants : orders[o].units[v] > 0}) :
         Begin(t, <<o>> \o (lines \o orders[o].coupon), orders[o].units)

\* The product editor: the product, then its variants as the form lists them.
BeginEdit(t) ==
  \E vs \in SUBSET Variants : \E lines \in Lines(vs), amounts \in [Variants -> Corrections \cup {0}] :
    /\ \A v \in Variants \ vs : amounts[v] = 0
    /\ Begin(t, <<Product>> \o lines, amounts)

-----------------------------------------------------------------------------
(* Locks.                                                                  *)

\* The rows a call has written and therefore locks.
Held(t) == IF pc[t] = "run" THEN {plan[t][i] : i \in 1 .. next[t] - 1} ELSE {}

Writing(t) == pc[t] = "run" /\ next[t] <= Len(plan[t])
Row(t)     == plan[t][next[t]]

WaitsFor(t, u) == Writing(t) /\ u # t /\ Row(t) \in Held(u)

Blocked(t)     == \E u \in Calls : WaitsFor(t, u)

\* Calls that wait for each other.
Deadlocked(S) == S # {} /\ \A t \in S : \E u \in S : WaitsFor(t, u)
\* Those on a cycle: every one of them is waited for as well.
Cycle(S) == Deadlocked(S) /\ \A u \in S : \E t \in S : WaitsFor(t, u)

-----------------------------------------------------------------------------
(* One statement.                                                          *)

\* Variant for the checks: the order's status is not a condition of the update.
MatchesAnyStatus(t) == Row(t) \in Variants => stock[Row(t)] + change[t][Row(t)] >= 0
\* Variant for the checks: stock is not a condition of the update.
MatchesUncounted(t) == Row(t) \in Orders => orders[Row(t)].phase = "open"
\* The WHERE clause of the statement: enough stock, or the status that was read.
Matches(t) ==
  /\ Row(t) \in Variants => stock[Row(t)] + change[t][Row(t)] >= 0
  /\ Row(t) \in Orders => orders[Row(t)].phase = "open"

Write(t) ==
  /\ Writing(t) /\ ~Blocked(t)
  /\ Matches(t)
  /\ next' = [next EXCEPT ![t] = next[t] + 1]
  /\ UNCHANGED <<stock, orders, pc, plan, change, retried>>

\* A call that ends forgets its transaction.
End(t, how) ==
  /\ pc' = [pc EXCEPT ![t] = how]
  /\ plan' = [plan EXCEPT ![t] = <<>>]
  /\ change' = [change EXCEPT ![t] = NoUnits]
  /\ next' = [next EXCEPT ![t] = 1]
  /\ retried' = [retried EXCEPT ![t] = FALSE]

Fail(t) == End(t, "failed") /\ UNCHANGED <<stock, orders>>

\* No row matches: the handler throws, and the transaction is rolled back.
Refuse(t) == Writing(t) /\ ~Blocked(t) /\ ~Matches(t) /\ Fail(t)

\* Another refusal, a timeout of the transaction, or the process dies.
Abort(t) == pc[t] = "run" /\ Fail(t)

Taken(t)    == [v \in Variants |-> -change[t][v]]
CouponOf(t) == IF \E i \in DOMAIN plan[t] : plan[t][i] = Coupon THEN <<Coupon>> ELSE <<>>

OrdersAfter(t) ==
  [o \in Orders |->
     CASE t \in Checkouts /\ o = t -> [phase |-> "open", units |-> Taken(t), coupon |-> CouponOf(t)]
       [] t \in Releases /\ o = plan[t][1] -> [orders[o] EXCEPT !.phase = "cancelled"]
       [] OTHER -> orders[o]]

Commit(t) ==
  /\ pc[t] = "run" /\ next[t] > Len(plan[t])
  /\ stock' = [v \in Variants |-> stock[v] + change[t][v]]
  /\ orders' = OrdersAfter(t)
  /\ End(t, "done")

\* Variant for the checks: a victim is run again as often as it takes.
MayRetryAlways(t) == t \notin Edits
\* withTxRetry runs a transaction once more; the product editor does not use it.
MayRetry(t) == t \notin Edits /\ ~retried[t]

\* Postgres ends a deadlock by aborting one of its transactions.
Victim(t) ==
  /\ Blocked(t) /\ \E S \in SUBSET Calls : t \in S /\ Cycle(S)
  /\ \/ /\ MayRetry(t)
        /\ next' = [next EXCEPT ![t] = 1]
        /\ retried' = [retried EXCEPT ![t] = TRUE]
        /\ UNCHANGED <<stock, orders, pc, plan, change>>
     \/ ~MayRetry(t) /\ Fail(t)

-----------------------------------------------------------------------------
Start == \/ \E t \in Checkouts : BeginCheckout(t)
         \/ \E t \in Releases : BeginRelease(t)
         \/ \E t \in Edits : BeginEdit(t)

Statement(t) == Write(t) \/ Refuse(t) \/ Commit(t)

Next == Start \/ \E t \in Calls : Statement(t) \/ Victim(t) \/ Abort(t)

Spec == Init /\ [][Next]_vars

\* Postgres runs what is not blocked and breaks every deadlock. Nobody has to call.
Fairness == \A t \in Calls : WF_vars(Statement(t)) /\ WF_vars(Victim(t))
FairSpec == Spec /\ Fairness

-----------------------------------------------------------------------------
(* Properties.                                                             *)

Rows   == Orders \cup Variants \cup {Product, Coupon}
Phases == {"none", "open", "cancelled"}

\* Every variable holds a value of its type; no committed stock is negative.
TypeOK ==
  /\ stock \in [Variants -> Nat]
  /\ orders \in [Orders -> [phase: Phases, units: [Variants -> Nat], coupon: {<<>>, <<Coupon>>}]]
  /\ pc \in [Calls -> {"new", "run", "done", "failed"}]
  /\ plan \in [Calls -> Seq(Rows)]
  /\ change \in [Calls -> [Variants -> Int]]
  /\ next \in [Calls -> Nat \ {0}]
  /\ retried \in [Calls -> BOOLEAN]

\* "two checkouts with opposite cart orders cannot deadlock each other" (createOrder),
\* "a restock never deadlocks with a purchase" (releaseOrderResources): every deadlock
\* has a product edit in it.
OnlyEditsDeadlock == \A S \in SUBSET (Checkouts \cup Releases) : ~Deadlocked(S)

\* Stock moves only with an order that is placed or cancelled, or with an edit: releases
\* that race, or run again as victims, restock once.
StockMovesWithOrders ==
  [][stock' # stock => \/ orders' # orders
                       \/ \E t \in Edits : pc[t] = "run" /\ pc'[t] = "done"]_vars

\* Whatever deadlocks, every call that opens a transaction ends: those not chosen as
\* victims go on, and victims are not run again for ever (withTxRetry).
EveryCallEnds == \A t \in Calls : pc[t] = "run" ~> pc[t] \in {"done", "failed"}

\* Statement by statement, with waits, victims and second runs in between, stock is what
\* StockLedger promises: an order takes all of its units or none, once, and returns
\* exactly those, once.
LedgerPhase(o) == CASE orders[o].phase = "none" -> "none"
                    [] orders[o].phase = "open" -> "holding"
                    [] orders[o].phase = "cancelled" -> "returned"
Ledger == INSTANCE StockLedger WITH
  shelf <- stock,
  held <- [o \in Orders |-> IF orders[o].phase = "open" THEN orders[o].units ELSE NoUnits],
  phase <- [o \in Orders |-> LedgerPhase(o)]
ImplementsLedger == Ledger!Spec
=============================================================================
