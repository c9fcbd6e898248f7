------------------------------ MODULE OrderLife ------------------------------
(***************************************************************************)
(* What an order promises, whatever runs against it at once: it is paid or *)
(* accepted once, and while it is not cancelled it moves within its        *)
(* fulfilment; it is cancelled once, and what it held goes back in that    *)
(* step, in which the refund of an order that was accepted is recorded;    *)
(* refunds are recorded once, for an amount that stays, settled once and   *)
(* never taken back, and only settling one makes an order REFUNDED.        *)
(*   src/apps/server/src/orders/orders.service.ts   changeStatus, sweep    *)
(*   src/apps/server/src/orders/refunds.service.ts  refunds, settlement    *)
(*   src/apps/server/src/payment/payment.service.ts confirmPaid, late ones *)
(***************************************************************************)
EXTENDS Integers, OrderStatus

CONSTANTS
  Ids,     \* charges, and the calls that may record a refund
  Total,   \* the order's total
  None

VARIABLES
  status,    \* of the order
  payment,   \* the charge that paid it, or None
  released,  \* how often its stock and coupon use were handed back
  refund,    \* the refund recorded by each of Ids: [cause, amount], or NoneDue
  settled    \* the refunds that are settled

life == <<status, payment, released, refund, settled>>

NoneDue == [cause |-> "none", amount |-> 0]
Due(cause, amount) == [cause |-> cause, amount |-> amount]

Init ==
  /\ status = Pending
  /\ payment = None
  /\ released = 0
  /\ refund = [r \in Ids |-> NoneDue]
  /\ settled = {}

Pay(c) ==
  /\ status = Pending
  /\ status' = Confirmed
  /\ payment' = c
  /\ UNCHANGED <<released, refund, settled>>

\* By an admin: an unpaid order is accepted, an accepted one is moved on or back.
MoveTo(to) ==
  /\ to \in Fulfilment
  /\ CanTransition(status, to)
  /\ status' = to
  /\ UNCHANGED <<payment, released, refund, settled>>

\* By a customer, an admin or the sweeper. Not every cancellation refunds.
Cancel ==
  /\ status \notin RestockStatuses
  /\ status' = Cancelled
  /\ released' = released + 1
  /\ \/ UNCHANGED refund
     \/ /\ status \in PaidStatuses
        /\ \E r \in Ids, n \in 1 .. Total :
             /\ refund[r] = NoneDue
             /\ refund' = [refund EXCEPT ![r] = Due("cancellation", n)]
  /\ UNCHANGED <<payment, settled>>

\* A charge that came too late goes back whole.
ReturnLate(r) ==
  /\ status # Pending
  /\ refund[r] = NoneDue
  /\ refund' = [refund EXCEPT ![r] = Due("late", Total)]
  /\ UNCHANGED <<status, payment, released, settled>>

Settle(r) ==
  /\ refund[r].cause # "none" /\ r \notin settled
  /\ settled' = settled \cup {r}
  /\ status' = IF status = Cancelled THEN Refunded ELSE status
  /\ UNCHANGED <<payment, released, refund>>

Next ==
  \/ \E c \in Ids : Pay(c) \/ ReturnLate(c) \/ Settle(c)
  \/ \E to \in Statuses : MoveTo(to)
  \/ Cancel

Spec == Init /\ [][Next]_life

-----------------------------------------------------------------------------

\* What an accountant reads off the row and its refunds.
Accounts ==
  /\ released = IF status \in RestockStatuses THEN 1 ELSE 0
  /\ status = Pending => payment = None
  /\ status = Refunded => settled # {}
  /\ \A r \in Ids : r \in settled => refund[r].cause # "none"
  /\ \A r \in Ids : refund[r].cause # "none" => status # Pending
  /\ \A r \in Ids : refund[r].amount \in 0 .. Total

\* An order that is cancelled is refunded at most once for it, while its stock is
\* back, and is REFUNDED once that refund is settled.
CancelledOnce ==
  /\ \A r, q \in Ids : refund[r].cause = "cancellation" /\ refund[q].cause = "cancellation" => r = q
  /\ \A r \in Ids : refund[r].cause = "cancellation" =>
       /\ status \in RestockStatuses
       /\ r \in settled => status = Refunded
=============================================================================
