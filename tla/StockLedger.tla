----------------------------- MODULE StockLedger -----------------------------
(***************************************************************************)
(* What checkout and the release of an order promise about stock: units    *)
(* move between the shelf and an order in one step, all of an order's or   *)
(* none; an order takes units once, returns exactly those it took, and     *)
(* nobody but an admin changes the sum.                                    *)
(*   src/apps/server/src/orders/orders.service.ts (createOrder,            *)
(*   releaseOrderResources), src/apps/server/src/products/                 *)
(*   products.service.ts (editStock)                                       *)
(***************************************************************************)
EXTENDS Integers

CONSTANTS Orders, Variants

VARIABLES
  shelf,    \* units of each variant that may still be sold
  held,     \* units of each variant an order took off the shelf
  phase     \* of each order: none, holding, returned

ledger == <<shelf, held, phase>>

Nothing == [v \in Variants |-> 0]

Init ==
  /\ shelf \in [Variants -> Nat]
  /\ held  = [o \in Orders |-> Nothing]
  /\ phase = [o \in Orders |-> "none"]

\* An order takes what it holds from now on, never more than there is.
Reserve(o) ==
  /\ phase[o] = "none"
  /\ phase' = [phase EXCEPT ![o] = "holding"]
  /\ held' \in [Orders -> [Variants -> Nat]]
  /\ \A q \in Orders \ {o} : held'[q] = held[q]
  /\ \A v \in Variants : held'[o][v] <= shelf[v]
  /\ shelf' = [v \in Variants |-> shelf[v] - held'[o][v]]

\* An order that is cancelled returns exactly what it took.
Return(o) ==
  /\ phase[o] = "holding"
  /\ phase' = [phase EXCEPT ![o] = "returned"]
  /\ held'  = [held EXCEPT ![o] = Nothing]
  /\ shelf' = [v \in Variants |-> shelf[v] + held[o][v]]

\* An admin corrects what is on the shelf.
Correct ==
  /\ shelf' \in [Variants -> Nat]
  /\ UNCHANGED <<held, phase>>

Next == (\E o \in Orders : Reserve(o) \/ Return(o)) \/ Correct

Spec == Init /\ [][Next]_ledger
=============================================================================
