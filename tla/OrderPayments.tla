---------------------------- MODULE OrderPayments ----------------------------
(***************************************************************************)
(* One order, from checkout to its settlement: paying it, the provider's   *)
(* webhooks, admin status changes, cancellations, refunds and the sweeper  *)
(* of unpaid orders, all running concurrently against one database row.    *)
(*   payment/payment.service.ts      charge, applyWebhookEvent             *)
(*   orders/orders.service.ts        changeStatus, markRefunded, sweep     *)
(*   orders/refunds.service.ts       refunds and their settlement          *)
(*   cancellations/cancellations.service.ts   cancelAndRefund              *)
(* (all under src/apps/server/src)                                         *)
(*                                                                         *)
(* A request is one call of a handler. Its steps are the stretches between *)
(* two awaits, each with at most one database statement or transaction;    *)
(* pc[p] names the next one. A request makes at most one payment attempt,  *)
(* at most one refund and at most one provider transaction, so all three   *)
(* are identified by the request that makes them.                          *)
(***************************************************************************)
EXTENDS Integers, Sequences, OrderStatus

CONSTANTS
  Requests,      \* the handler calls that may happen
  Traffic,       \* the kinds of request that reach the server
  Targets,       \* the statuses an admin asks for
  Fees,          \* the cancellation fees an admin withholds
  Total,         \* the order's total, in units of money
  ClaimTTL,      \* age at which a payment claim counts as abandoned
  PendingTTL,    \* age at which an unpaid order is swept
  MaxCallTime,   \* bound: the longest a live charge takes
  LastArrival,   \* bound: no charge starts later than this
  MaxTime,       \* bound: the clock stops here
  None

Kinds == {"charge", "paid", "failed", "status", "cancel", "complete", "fail"}

ASSUME TrafficAssumption == Traffic \subseteq Kinds
ASSUME TargetsAssumption == Targets \subseteq Statuses
ASSUME TotalAssumption   == Total \in Nat
ASSUME FeesAssumption    == Fees \subseteq 0 .. Total
ASSUME TimesAssumption   ==
  /\ ClaimTTL \in Nat /\ PendingTTL \in Nat /\ MaxCallTime \in Nat
  /\ LastArrival \in Nat /\ MaxTime \in Nat
ASSUME NoneAssumption    == None \notin Nat /\ None \notin Requests

VARIABLES
  order,      \* the row: status, paymentClaimedAt, paymentRef, stamps
  released,   \* how often the order's stock and coupon use were handed back
  history,    \* OrderStatusEvent rows, oldest first; by = who changed it
  attempts,   \* PaymentAttempt row of each request, by status
  refunds,    \* Refund row of each request
  outcome,    \* provider: what became of each charge
  returned,   \* provider: money returned of each charge
  now,        \* the clock
  kind, pc, local,   \* per request: its handler, next step and local variables
  sweep       \* the sweeper: its next step and the time it started

rows     == <<order, released, history, attempts, refunds>>
provider == <<outcome, returned>>
vars     == <<rows, provider, now, kind, pc, local, sweep>>

-----------------------------------------------------------------------------
NoRefund == [status |-> "none", amount |-> 0, cause |-> "none", at |-> 0]
NoLocals == [at |-> 0, target |-> Pending, seen |-> Pending, stamps |-> {},
             amount |-> 0, subject |-> None, ref |-> None, next |-> "done", refund |-> "due"]

Init ==
  /\ order = [status |-> Pending, claimedAt |-> None, paymentRef |-> None, stamps |-> {}]
  /\ released = 0
  /\ history = <<>>
  /\ attempts = [p \in Requests |-> "none"]
  /\ refunds  = [p \in Requests |-> NoRefund]
  /\ outcome  = [p \in Requests |-> "none"]
  /\ returned = [p \in Requests |-> 0]
  /\ now = 0
  /\ kind  = [p \in Requests |-> "none"]
  /\ pc    = [p \in Requests |-> "new"]
  /\ local = [p \in Requests |-> NoLocals]
  /\ sweep = [pc |-> "idle", at |-> 0]

Goto(p, label) == pc' = [pc EXCEPT ![p] = label]
Arrive(p, k)   == /\ pc[p] = "new"
                  /\ k \in Traffic
                  /\ kind' = [kind EXCEPT ![p] = k]
At(p, label)   == pc[p] = label /\ UNCHANGED kind

Event(from, to, by) == [from |-> from, to |-> to, by |-> by]
\* recordStatusEvent
Record(from, to, by) == history' = Append(history, Event(from, to, by))

-----------------------------------------------------------------------------
(* charge(): POST /payment/charge and POST /orders/:id/pay.                *)

\* The order is read; one that is not awaiting payment is answered from the row.
ChargeRead(p) ==
  /\ Arrive(p, "charge") /\ now <= LastArrival
  /\ \/ /\ order.status # Pending
        /\ Goto(p, "done") /\ UNCHANGED local
     \/ /\ order.status = Pending
        /\ Goto(p, "claim")
        /\ local' = [local EXCEPT ![p] = [@ EXCEPT !.at = now, !.subject = p]]
  /\ UNCHANGED <<rows, provider, now, sweep>>

\* Variant for the checks: any claim may be taken over.
ClaimableAlways(at) == order.status = Pending

\* The condition of the claim's UPDATE: unpaid, and no claim younger than the TTL.
Claimable(at) ==
  /\ order.status = Pending
  /\ order.claimedAt # None => order.claimedAt + ClaimTTL < at

ChargeClaim(p) ==
  /\ At(p, "claim")
  /\ \/ /\ Claimable(local[p].at)
        /\ order' = [order EXCEPT !.claimedAt = local[p].at]
        /\ Goto(p, "attempt")
     \/ /\ ~Claimable(local[p].at)
        /\ Goto(p, "done") /\ UNCHANGED order
  /\ UNCHANGED <<released, history, attempts, refunds, provider, now, local, sweep>>

\* The attempt's row, of a charge or of a webhook's payment.
CreateAttempt(p) ==
  /\ At(p, "attempt")
  /\ attempts' = [attempts EXCEPT ![p] = "PENDING"]
  /\ Goto(p, IF kind[p] = "charge" THEN "provider" ELSE "confirm")
  /\ UNCHANGED <<order, released, history, refunds, provider, now, local, sweep>>

\* The provider takes the money or declines; an error of the call, also one
\* raised after the money was taken, counts as a decline.
ProviderCharge(p) ==
  /\ At(p, "provider")
  /\ \/ outcome' = [outcome EXCEPT ![p] = "captured"] /\ Goto(p, "confirm")
     \/ outcome' = [outcome EXCEPT ![p] = "captured"] /\ Goto(p, "decline")
     \/ outcome' = [outcome EXCEPT ![p] = "declined"] /\ Goto(p, "decline")
  /\ UNCHANGED <<rows, returned, now, local, sweep>>

\* UPDATE ... SET paymentClaimedAt = NULL WHERE status = PENDING_PAYMENT: any claim.
ReleaseClaim ==
  order' = IF order.status = Pending THEN [order EXCEPT !.claimedAt = None] ELSE order

ChargeDeclined(p) ==
  /\ At(p, "decline")
  /\ attempts' = [attempts EXCEPT ![p] = "FAILED"]
  /\ ReleaseClaim
  /\ Goto(p, "done")
  /\ UNCHANGED <<released, history, refunds, provider, now, local, sweep>>

\* Variant for the checks: a payment confirms whatever is not cancelled.
PayableUnlessCancelled == order.status \notin RestockStatuses
Payable == order.status = Pending

\* Variant for the checks: a charge that cannot be confirmed is only logged.
AfterUnconfirmedForgotten(p) == "done"
\* A charge that found the order no longer payable refunds; a webhook does not.
AfterUnconfirmed(p) == IF kind[p] = "charge" THEN "late" ELSE "done"

\* confirmPaid: order and attempt in one transaction.
Confirm(p) ==
  /\ At(p, "confirm")
  /\ attempts' = [attempts EXCEPT ![p] = "SUCCEEDED"]
  /\ \/ /\ Payable
        /\ order' = [order EXCEPT !.status = Confirmed, !.claimedAt = None,
                                  !.paymentRef = local[p].subject, !.stamps = @ \cup {"paidAt"}]
        /\ Record(Pending, Confirmed, p)
        /\ Goto(p, "done")
     \/ /\ ~Payable
        /\ Goto(p, AfterUnconfirmed(p))
        /\ UNCHANGED <<order, history>>
  /\ UNCHANGED <<released, refunds, provider, now, local, sweep>>

PendingRefund(amount, cause) ==
  [status |-> "PENDING", amount |-> amount, cause |-> cause, at |-> now]

\* refundLateCharge: the durable record first, then the provider.
LateRefund(p) ==
  /\ At(p, "late")
  /\ refunds' = [refunds EXCEPT ![p] = PendingRefund(Total, "late")]
  /\ local' = [local EXCEPT ![p] = [@ EXCEPT !.ref = p, !.amount = Total, !.subject = p]]
  /\ Goto(p, "refund")
  /\ UNCHANGED <<order, released, history, attempts, provider, now, sweep>>

-----------------------------------------------------------------------------
(* applyWebhookEvent(): the provider reports what became of a charge, any  *)
(* number of times and at any later moment.                                *)

WebhookPaid(p) ==
  /\ Arrive(p, "paid")
  /\ \E t \in Requests :
       /\ outcome[t] = "captured"
       /\ local' = [local EXCEPT ![p] = [@ EXCEPT !.subject = t]]
  /\ \/ Goto(p, "attempt")
     \/ Goto(p, "done")            \* the amount or currency does not match
  /\ UNCHANGED <<rows, provider, now, sweep>>

WebhookFailed(p) ==
  /\ Arrive(p, "failed")
  /\ \E t \in Requests : outcome[t] = "declined"
  /\ Goto(p, "unclaim")
  /\ UNCHANGED <<rows, provider, now, local, sweep>>

WebhookUnclaim(p) ==
  /\ At(p, "unclaim")
  /\ ReleaseClaim
  /\ Goto(p, "done")
  /\ UNCHANGED <<released, history, attempts, refunds, provider, now, local, sweep>>

-----------------------------------------------------------------------------
(* changeStatus(), alone (PUT /admin/orders/:id/status) and as the last    *)
(* step of cancelAndRefund().                                              *)

Allowed(target) == target = order.status \/ CanTransition(order.status, target)
ToWrite(p, target, amount) ==
  /\ Goto(p, "write")
  /\ local' = [local EXCEPT ![p] = [@ EXCEPT !.target = target, !.amount = amount,
                                               !.seen = order.status, !.stamps = order.stamps]]

\* The admin's request: the status is read and checked. REFUNDED settles the
\* refund of a cancelled order, and cancels first an order that is not.
StatusRead(p) ==
  /\ Arrive(p, "status")
  /\ \E target \in Targets :
       \/ /\ ~Allowed(target) \/ (target = Refunded /\ order.status = Refunded)
          /\ Goto(p, "done") /\ UNCHANGED local
       \/ /\ Allowed(target) /\ target # Refunded
          /\ ToWrite(p, target, Total)
       \/ /\ target = Refunded /\ order.status = Cancelled
          /\ Goto(p, "find") /\ UNCHANGED local
       \/ /\ target = Refunded /\ order.status \in Fulfilment
          /\ Goto(p, "read")
          /\ local' = [local EXCEPT ![p] = [@ EXCEPT !.amount = Total, !.next = "find"]]
  /\ UNCHANGED <<rows, provider, now, sweep>>

\* Variant for the checks: the fee is withheld from an unpaid order too.
AmountToRefundAlwaysLessFee(fee, refund) ==
  (IF order.status \in PaidStatuses /\ refund = "due" THEN Total ELSE 0) - fee
AmountToRefund(fee, refund) ==
  IF order.status \in PaidStatuses /\ refund = "due" THEN Total - fee ELSE 0

\* cancelAndRefund: whether the order was paid, and so the amount to refund, is
\* decided on this read; changeStatus reads the order again.
CancelRead(p) ==
  /\ Arrive(p, "cancel")
  /\ \/ /\ order.status \in RestockStatuses
        /\ Goto(p, "done") /\ UNCHANGED local
     \/ /\ order.status \notin RestockStatuses
        /\ Goto(p, "read")
        /\ \E fee \in Fees, refund \in {"due", "waived"} :
             local' = [local EXCEPT ![p] =
                         [@ EXCEPT !.amount = AmountToRefund(fee, refund), !.refund = refund]]
  /\ UNCHANGED <<rows, provider, now, sweep>>

\* The read at the head of a nested changeStatus(CANCELLED).
ChangeRead(p) ==
  /\ At(p, "read")
  /\ \/ ~Allowed(Cancelled) /\ Goto(p, "done") /\ UNCHANGED local
     \/ Allowed(Cancelled) /\ ToWrite(p, Cancelled, local[p].amount)
  /\ UNCHANGED <<rows, provider, now, sweep>>

\* Variant for the checks: the write does not repeat the status it was decided on.
SameStatusUnchecked(p) == TRUE
SameStatus(p) == order.status = local[p].seen

Restocks(p) == local[p].target \in RestockStatuses /\ local[p].seen \notin RestockStatuses
\* Variant for the checks: only the confirmed status counts as paid.
RefundDueOnConfirmed(p) == Restocks(p) /\ local[p].seen = Confirmed /\ local[p].amount > 0
RefundDue(p) == Restocks(p) /\ local[p].seen \in PaidStatuses /\ local[p].amount > 0

\* The transaction: conditional status write, resources handed back, refund
\* recorded, stamps, status event; or a conflict and nothing.
StatusWrite(p) ==
  /\ At(p, "write")
  /\ \/ /\ ~SameStatus(p)
        /\ Goto(p, "done")
        /\ UNCHANGED <<order, released, refunds, history>>
     \/ /\ SameStatus(p)
        /\ LET target  == local[p].target
               changed == target # local[p].seen
           IN /\ order' = [order EXCEPT !.status = target,
                             !.stamps = IF changed THEN Stamped(@, local[p].stamps, target) ELSE @]
              /\ IF changed THEN Record(local[p].seen, target, p) ELSE UNCHANGED history
        /\ released' = IF Restocks(p) THEN released + 1 ELSE released
        /\ refunds' = IF RefundDue(p)
                        THEN [refunds EXCEPT ![p] = PendingRefund(local[p].amount, "cancellation")]
                        ELSE refunds
        /\ Goto(p, IF RefundDue(p) THEN "autoRead" ELSE local[p].next)
  /\ UNCHANGED <<attempts, provider, now, local, sweep>>

-----------------------------------------------------------------------------
(* Settling refunds.                                                       *)

\* tryAutoRefund: reads the refund with its order, before the provider is asked.
AutoRefundRead(p) ==
  /\ At(p, "autoRead")
  /\ \/ /\ refunds[p].status # "PENDING" \/ order.paymentRef = None
        /\ Goto(p, local[p].next) /\ UNCHANGED local
     \/ /\ refunds[p].status = "PENDING" /\ order.paymentRef # None
        /\ Goto(p, "refund")
        /\ local' = [local EXCEPT ![p] = [@ EXCEPT !.ref = order.paymentRef, !.subject = p]]
  /\ UNCHANGED <<rows, provider, now, sweep>>

\* provider.refund: done, refused or failed, or done with the reply lost.
ProviderRefund(p) ==
  /\ At(p, "refund")
  /\ \/ /\ returned' = [returned EXCEPT ![local[p].ref] = @ + local[p].amount]
        /\ Goto(p, "settle")
     \/ /\ returned' = [returned EXCEPT ![local[p].ref] = @ + local[p].amount]
        /\ Goto(p, local[p].next)
     \/ /\ Goto(p, local[p].next)
        /\ UNCHANGED returned
  /\ UNCHANGED <<rows, outcome, now, local, sweep>>

\* An admin confirms a refund of the queue as settled.
CompleteRequest(p) ==
  /\ Arrive(p, "complete")
  /\ \E r \in Requests :
       /\ refunds[r].status # "none"
       /\ local' = [local EXCEPT ![p] = [@ EXCEPT !.subject = r]]
  /\ Goto(p, "settle")
  /\ UNCHANGED <<rows, provider, now, sweep>>

\* markRefunded: the newest open refund of the order, or none.
OpenRefunds == {r \in Requests : refunds[r].status \in {"PENDING", "FAILED"}}
FindRefund(p) ==
  /\ At(p, "find")
  /\ \/ OpenRefunds = {} /\ Goto(p, "done") /\ UNCHANGED local
     \/ /\ \E r \in OpenRefunds :
             /\ \A q \in OpenRefunds : refunds[q].at <= refunds[r].at
             /\ local' = [local EXCEPT ![p] = [@ EXCEPT !.subject = r, !.next = "done"]]
        /\ Goto(p, "settle")
  /\ UNCHANGED <<rows, provider, now, sweep>>

Open(r) == refunds[r].status \in {"PENDING", "FAILED"}

\* complete: claims the refund and moves a cancelled order to REFUNDED, in one
\* transaction; a refund that was settled meanwhile is a conflict.
Settle(p) ==
  /\ At(p, "settle")
  /\ LET r == local[p].subject IN
       \/ /\ Open(r)
          /\ refunds' = [refunds EXCEPT ![r].status = "COMPLETED"]
          /\ IF order.status = Cancelled
               THEN /\ order' = [order EXCEPT !.status = Refunded]
                    /\ Record(Cancelled, Refunded, p)
               ELSE UNCHANGED <<order, history>>
       \/ /\ ~Open(r)
          /\ UNCHANGED <<refunds, order, history>>
  /\ Goto(p, local[p].next)
  /\ UNCHANGED <<released, attempts, provider, now, local, sweep>>

\* markFailed: only a pending refund; another is a conflict.
FailRefund(p) ==
  /\ Arrive(p, "fail")
  /\ \E r \in Requests :
       \/ /\ refunds[r].status = "PENDING"
          /\ refunds' = [refunds EXCEPT ![r].status = "FAILED"]
       \/ /\ refunds[r].status \in {"COMPLETED", "FAILED"}
          /\ UNCHANGED refunds
  /\ Goto(p, "done")
  /\ UNCHANGED <<order, released, history, attempts, provider, now, local, sweep>>

-----------------------------------------------------------------------------
(* The sweeper, the clock and lost requests.                               *)

\* An order created at time 0 and unpaid for longer than the TTL is listed.
SweepRead ==
  /\ sweep.pc = "idle"
  /\ order.status = Pending /\ now > PendingTTL
  /\ sweep' = [pc |-> "release", at |-> now]
  /\ UNCHANGED <<rows, provider, now, kind, pc, local>>

\* Variant for the checks: the sweep trusts the list it read.
SweepableAsListed == TRUE
\* Variant for the checks: an order somebody once claimed is left alone for ever.
SweepableUnclaimed == order.status = Pending /\ order.claimedAt = None
\* The condition of the release: still unpaid, no claim fresh when the sweep began.
Sweepable == Claimable(sweep.at)

SweepRelease ==
  /\ sweep.pc = "release"
  /\ sweep' = [sweep EXCEPT !.pc = "idle"]
  /\ \/ /\ Sweepable
        /\ order' = [order EXCEPT !.status = Cancelled, !.stamps = @ \cup {"cancelledAt"}]
        /\ released' = released + 1
        /\ Record(Pending, Cancelled, None)
     \/ /\ ~Sweepable
        /\ UNCHANGED <<order, released, history>>
  /\ UNCHANGED <<attempts, refunds, provider, now, kind, pc, local>>

\* The sweep ends early on a database error; the next interval runs it again.
SweepFails ==
  /\ sweep.pc = "release"
  /\ sweep' = [sweep EXCEPT !.pc = "idle"]
  /\ UNCHANGED <<rows, provider, now, kind, pc, local>>

\* A request dies at an await: its process crashes or its statement fails.
Abort(p) ==
  /\ pc[p] \notin {"new", "done", "aborted"}
  /\ Goto(p, "aborted")
  /\ UNCHANGED <<rows, provider, now, kind, local, sweep>>

\* A charge from its first read to the transaction that ends it.
Live(p) == kind[p] = "charge" /\ pc[p] \in {"claim", "attempt", "provider", "confirm", "decline"}

\* Time passes; with a small MaxCallTime, only while no live charge exceeds it.
Tick ==
  /\ now < MaxTime
  /\ \A p \in Requests : Live(p) => now - local[p].at < MaxCallTime
  /\ now' = now + 1
  /\ UNCHANGED <<rows, provider, kind, pc, local, sweep>>

-----------------------------------------------------------------------------
Charging(p) == \/ ChargeRead(p) \/ ChargeClaim(p) \/ CreateAttempt(p) \/ ProviderCharge(p)
               \/ ChargeDeclined(p) \/ Confirm(p) \/ LateRefund(p)
Webhook(p)  == WebhookPaid(p) \/ WebhookFailed(p) \/ WebhookUnclaim(p)
Changing(p) == StatusRead(p) \/ CancelRead(p) \/ ChangeRead(p) \/ StatusWrite(p)
Settling(p) == \/ AutoRefundRead(p) \/ ProviderRefund(p) \/ CompleteRequest(p)
               \/ FindRefund(p) \/ Settle(p) \/ FailRefund(p)
Sweeping    == SweepRead \/ SweepRelease \/ SweepFails

Next ==
  \/ \E p \in Requests : Charging(p) \/ Webhook(p) \/ Changing(p) \/ Settling(p) \/ Abort(p)
  \/ Sweeping
  \/ Tick

Spec == Init /\ [][Next]_vars

\* The clock runs, and the sweeper's interval keeps firing: a sweep may fail, but
\* not every time. Nothing is assumed of the requests.
FairSpec == Spec /\ WF_vars(Tick) /\ WF_vars(SweepRead) /\ SF_vars(SweepRelease)

-----------------------------------------------------------------------------
(* Properties.                                                             *)

Labels == {"new", "claim", "attempt", "provider", "confirm", "decline", "late", "unclaim",
           "read", "write", "autoRead", "refund", "find", "settle", "done", "aborted"}
OrderRows   == [status: Statuses, claimedAt: Nat \cup {None},
                paymentRef: Requests \cup {None}, stamps: SUBSET StampNames]
Events      == [from: Statuses, to: Statuses, by: Requests \cup {None}]
RefundRows  == [status: {"none", "PENDING", "COMPLETED", "FAILED"}, amount: Nat,
                cause: {"none", "cancellation", "late"}, at: Nat]
Locals      == [at: Nat, target: Statuses, seen: Statuses, stamps: SUBSET StampNames,
                amount: Nat, subject: Requests \cup {None}, ref: Requests \cup {None},
                next: {"done", "find"}, refund: {"due", "waived"}]

\* Every variable holds a value of its type: no negative amount is ever asked
\* of the provider or recorded as a refund.
TypeOK ==
  /\ order \in OrderRows
  /\ released \in Nat
  /\ history \in Seq(Events)
  /\ attempts \in [Requests -> {"none", "PENDING", "SUCCEEDED", "FAILED"}]
  /\ refunds \in [Requests -> RefundRows]
  /\ outcome \in [Requests -> {"none", "captured", "declined"}]
  /\ returned \in [Requests -> Nat]
  /\ now \in Nat
  /\ kind \in [Requests -> Kinds \cup {"none"}]
  /\ pc \in [Requests -> Labels]
  /\ local \in [Requests -> Locals]
  /\ sweep \in [pc: {"idle", "release"}, at: Nat]

\* Stock and coupon use go back exactly once, when the order is cancelled, however
\* many cancellations, sweeps and refunds race (changeStatus, releaseExpiredPendingOrders).
ReleasedOnce == released = IF order.status \in RestockStatuses THEN 1 ELSE 0

\* The status history is one unbroken chain from PENDING_PAYMENT to the present
\* status, nothing is reopened, and a cancelled order is at most settled: no status
\* write of any handler overwrites one it did not see (recordStatusEvent).
HistoryIsChain ==
  /\ \A i \in 1 .. Len(history) :
       /\ history[i].from = IF i = 1 THEN Pending ELSE history[i - 1].to
       /\ history[i].to \notin {Pending, history[i].from}
       /\ history[i].from = Cancelled => history[i].to = Refunded
       /\ history[i].from # Refunded
  /\ order.status = IF history = <<>> THEN Pending ELSE history[Len(history)].to

\* The fulfilment dates always tell the status, although changeStatus computes them
\* from a row it read earlier: that row may have moved on and come back.
StampsMatchStatus ==
  IF order.status \in RestockStatuses
    THEN "cancelledAt" \in order.stamps
    ELSE order.stamps = StampsOf(order.status)

Paid(e) == e.from \in PaidStatuses /\ e.to = Cancelled
HasCancellationRefund(r) == refunds[r].cause = "cancellation"

\* A cancellation of a paid order and its refund record go together: the request
\* that cancelled it holds the refund of the amount it decided on, and no other
\* request holds a cancellation refund (createPending in the cancel transaction).
RefundsMatchCancellation ==
  /\ \A i \in 1 .. Len(history) :
       LET r == history[i].by IN
         Paid(history[i]) /\ local[r].amount > 0 =>
           HasCancellationRefund(r) /\ refunds[r].amount = local[r].amount
  /\ \A r \in Requests : HasCancellationRefund(r) =>
       \E i \in 1 .. Len(history) : Paid(history[i]) /\ history[i].by = r

\* Money charge() took and knows of is never forgotten: it is the order's payment,
\* or a refund of it is recorded, unless the request died in between.
ChargedMoneyAccounted ==
  \A p \in Requests : kind[p] = "charge" /\ attempts[p] = "SUCCEEDED" =>
    \/ order.paymentRef = p
    \/ refunds[p].status # "none" /\ refunds[p].amount = Total
    \/ pc[p] \in {"late", "aborted"}

\* REFUNDED is never a bare status: some refund is completed; and a completed
\* cancellation refund has moved its order to REFUNDED (complete, markRefunded).
RefundedIsSettled ==
  /\ order.status = Refunded => \E r \in Requests : refunds[r].status = "COMPLETED"
  /\ \A r \in Requests : HasCancellationRefund(r) /\ refunds[r].status = "COMPLETED" =>
       order.status = Refunded

\* What is settled stays so: the first payment of an order is never replaced, and a
\* completed refund is neither failed nor reopened (confirmPaid, complete, markFailed).
Irrevocable ==
  [][ /\ order.paymentRef # None => order.paymentRef' = order.paymentRef
      /\ \A r \in Requests : refunds[r].status = "COMPLETED" => refunds'[r].status = "COMPLETED" ]_vars

\* The order of this module is one of OrderLife's: whatever the handlers interleave,
\* what a reader of the rows sees is one payment, one cancellation, and refunds
\* recorded and settled once (changeStatus, confirmPaid, complete, the sweeper).
Life == INSTANCE OrderLife WITH
  Ids     <- Requests,
  status  <- order.status,
  payment <- order.paymentRef,
  refund  <- [r \in Requests |-> [cause |-> refunds[r].cause, amount |-> refunds[r].amount]],
  settled <- {r \in Requests : refunds[r].status = "COMPLETED"}
ImplementsLife == Life!Spec

\* "at most one in-flight charge per order" (PaymentService.charge): while a live charge
\* may still take money or has taken it, no other one is let through to the provider.
InFlight(p) == kind[p] = "charge" /\ pc[p] \in {"attempt", "provider", "confirm"}
SingleFlight == \A p, q \in Requests : InFlight(p) /\ InFlight(q) => p = q

\* An abandoned checkout does not hold its stock for ever, whatever claims dead
\* charges left behind (releaseExpiredPendingOrders, PAYMENT_CLAIM_TTL_MS).
AbandonedOrderReleased == (order.status = Pending) ~> (order.status # Pending)

\* "the order can never be cancelled without its refund record" (RefundsService):
\* a paid order that was cancelled, unless the admin waived the refund, has one.
PaidCancelHasRefund ==
  \A i \in 1 .. Len(history) :
    Paid(history[i]) /\ local[history[i].by].refund = "due" => HasCancellationRefund(history[i].by)

\* "duplicate or reordered deliveries are harmless" (webhook verifier): the payment
\* of an order that is being fulfilled is not returned to the customer.
LiveOrderKeepsItsPayment ==
  order.status \in Fulfilment /\ order.paymentRef # None => returned[order.paymentRef] = 0

=============================================================================
