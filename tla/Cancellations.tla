---------------------------- MODULE Cancellations ----------------------------
(***************************************************************************)
(* Cancellation requests: customers cancelling or asking to, admins        *)
(* approving, rejecting and cancelling, all on one order that meanwhile    *)
(* is paid, shipped and delivered.                                         *)
(*   cancellations/cancellations.service.ts   (under src/apps/server/src)  *)
(*   orders/cancellation-eligibility.ts                                    *)
(*   orders/orders.service.ts                 changeStatus                 *)
(*                                                                         *)
(* A call is one run of a handler. It files at most one request and makes  *)
(* at most one refund, which are identified by the call. changeStatus      *)
(* writes only if the status is still the one it read, so it takes effect  *)
(* in one step or is a conflict (OrderPayments has both its steps, and the *)
(* settlement of refunds). publicCancel picks one of selfCancel and        *)
(* createRequest, which read the order again.                              *)
(***************************************************************************)
EXTENDS Integers, OrderStatus

CONSTANTS
  Calls,   \* the runs of handlers that may happen
  Total,   \* the order's total, in units of money
  Fees,    \* the fees an admin withholds
  None

Kinds == {"self", "request", "approve", "reject", "admin", "status"}

ASSUME MoneyAssumption == Total \in Nat /\ Fees \subseteq Nat /\ None \notin Nat

VARIABLES
  status,     \* the order's
  requests,   \* the CancellationRequest row each call filed
  refunds,    \* the amount of the Refund row each call made
  kind, pc, local   \* per call: its handler, next step and local variables

vars == <<status, requests, refunds, kind, pc, local>>

NoRequest == [status |-> "none", fee |-> 0, refund |-> None]
NoLocals  == [fee |-> 0, due |-> "due", amount |-> 0, request |-> None, refund |-> None,
              from |-> Pending]

Init ==
  /\ status = Pending
  /\ requests = [p \in Calls |-> NoRequest]
  /\ refunds = [p \in Calls |-> None]
  /\ kind = [p \in Calls |-> "none"]
  /\ pc = [p \in Calls |-> "new"]
  /\ local = [p \in Calls |-> NoLocals]

Goto(p, label) == pc' = [pc EXCEPT ![p] = label]
Arrive(p, k)   == pc[p] = "new" /\ kind' = [kind EXCEPT ![p] = k]
At(p, label)   == pc[p] = label /\ UNCHANGED kind

Open(r) == requests[r].status = "REQUESTED"

-----------------------------------------------------------------------------
(* The customer.                                                           *)

SelfCancellable == {Pending, Confirmed, Processing}
CanSelfCancel   == status \in SelfCancellable /\ \A r \in Calls : ~Open(r)
CanRequest      == status \in SentStatuses /\ \A r \in Calls : ~Open(r)

\* selfCancel: eligible by this read, then cancelled free of charge.
SelfRead(p) ==
  /\ Arrive(p, "self")
  /\ Goto(p, IF CanSelfCancel THEN "read" ELSE "done")
  /\ UNCHANGED <<status, requests, refunds, local>>

RecordSelf(p) ==
  /\ At(p, "record")
  /\ requests' = [requests EXCEPT ![p] =
                    [status |-> "AUTO_CANCELLED", fee |-> 0, refund |-> local[p].refund]]
  /\ Goto(p, "done")
  /\ UNCHANGED <<status, refunds, local>>

\* createRequest
RequestRead(p) ==
  /\ Arrive(p, "request")
  /\ Goto(p, IF CanRequest THEN "file" ELSE "done")
  /\ UNCHANGED <<status, requests, refunds, local>>

File(p) ==
  /\ At(p, "file")
  /\ requests' = [requests EXCEPT ![p] = [status |-> "REQUESTED", fee |-> 0, refund |-> None]]
  /\ Goto(p, "done")
  /\ UNCHANGED <<status, refunds, local>>

-----------------------------------------------------------------------------
(* Admins. What resolve() reads before it claims the request, the claim    *)
(* repeats.                                                                *)

Reject(p) ==
  /\ Arrive(p, "reject")
  /\ \E r \in Calls :
       /\ Open(r)
       /\ requests' = [requests EXCEPT ![r] = [@ EXCEPT !.status = "REJECTED"]]
  /\ Goto(p, "done")
  /\ UNCHANGED <<status, refunds, local>>

\* Variant for the checks: the claim does not repeat the status that was read.
ApprovableTwice(r) == requests[r].status \in {"REQUESTED", "APPROVED"}
Approvable(r) == Open(r)

Approve(p) ==
  /\ Arrive(p, "approve")
  /\ \E r \in Calls, fee \in Fees :
       /\ Approvable(r)
       /\ requests' = [requests EXCEPT ![r] = [@ EXCEPT !.status = "APPROVED", !.fee = fee]]
       /\ local' = [local EXCEPT ![p] = [@ EXCEPT !.fee = fee, !.request = r]]
  /\ Goto(p, "read")
  /\ UNCHANGED <<status, refunds>>

\* The approval failed: its request is open again.
Reopen(p) ==
  /\ At(p, "reopen")
  /\ requests' = [requests EXCEPT ![local[p].request] = [@ EXCEPT !.status = "REQUESTED", !.fee = 0]]
  /\ Goto(p, "done")
  /\ UNCHANGED <<status, refunds, local>>

FinishApproval(p) ==
  /\ At(p, "finish")
  /\ requests' = [requests EXCEPT ![local[p].request] = [@ EXCEPT !.refund = local[p].refund]]
  /\ Goto(p, "done")
  /\ UNCHANGED <<status, refunds, local>>

\* adminCancelOrder, with or without a refund.
AdminCancel(p) ==
  /\ Arrive(p, "admin")
  /\ \E fee \in Fees, due \in {"due", "waived"} :
       local' = [local EXCEPT ![p] = [@ EXCEPT !.fee = fee, !.due = due]]
  /\ Goto(p, "read")
  /\ UNCHANGED <<status, requests, refunds>>

\* Every open request of the order is approved with it.
CloseRequests(p) ==
  /\ At(p, "close")
  /\ requests' = [r \in Calls |->
       IF Open(r) THEN [status |-> "APPROVED", fee |-> local[p].fee, refund |-> local[p].refund]
                  ELSE requests[r]]
  /\ Goto(p, "done")
  /\ UNCHANGED <<status, refunds, local>>

\* The status screen: changeStatus(CANCELLED) by itself, which refunds the total.
StatusCancel(p) ==
  /\ Arrive(p, "status")
  /\ local' = [local EXCEPT ![p] = [@ EXCEPT !.amount = Total]]
  /\ Goto(p, "cancel")
  /\ UNCHANGED <<status, requests, refunds>>

-----------------------------------------------------------------------------
(* cancelAndRefund()                                                       *)

\* Variant for the checks: a failed approval is forgotten.
AfterFailureForgotten(p) == "done"
\* An error is thrown to the caller; resolve() catches it.
AfterFailure(p) == IF kind[p] = "approve" THEN "reopen" ELSE "done"
AfterCancel(p)  == CASE kind[p] = "self" -> "record"
                     [] kind[p] = "approve" -> "finish"
                     [] kind[p] = "admin" -> "close"
                     [] kind[p] = "status" -> "done"

\* Variant for the checks: the fee is not withheld.
AmountWithoutFee(p) == IF status \in PaidStatuses /\ local[p].due = "due" THEN Total ELSE 0
\* What goes back: the total without the fee, if the order was paid and it is due.
Amount(p) == IF status \in PaidStatuses /\ local[p].due = "due" THEN Total - local[p].fee ELSE 0

\* Variant for the checks: any fee is accepted.
FeeAcceptable(p) == TRUE
FeeAllowed(p) == local[p].fee <= Total

\* The first read decides whether the order was paid, and so what is refunded.
OrderRead(p) ==
  /\ At(p, "read")
  /\ \/ /\ status \in RestockStatuses \/ ~FeeAllowed(p)
        /\ Goto(p, AfterFailure(p)) /\ UNCHANGED local
     \/ /\ status \notin RestockStatuses /\ FeeAllowed(p)
        /\ Goto(p, "cancel")
        /\ local' = [local EXCEPT ![p] = [@ EXCEPT !.amount = Amount(p)]]
  /\ UNCHANGED <<status, requests, refunds>>

\* The refund that is recorded with the cancellation, if any.
Refund(p) == IF status \in PaidStatuses /\ local[p].amount > 0 THEN local[p].amount ELSE None

\* changeStatus(CANCELLED). An order that is cancelled already is accepted and left
\* alone; an error may follow the commit.
ChangeStatus(p) ==
  /\ At(p, "cancel")
  /\ \/ Goto(p, AfterFailure(p)) /\ UNCHANGED <<status, refunds, local>>
     \/ /\ status = Cancelled
        /\ Goto(p, AfterCancel(p)) /\ UNCHANGED <<status, refunds, local>>
     \/ /\ status \notin RestockStatuses
        /\ status' = Cancelled
        /\ refunds' = [refunds EXCEPT ![p] = Refund(p)]
        /\ local' = [local EXCEPT ![p] = [@ EXCEPT !.refund = Refund(p), !.from = status]]
        /\ \/ Goto(p, AfterCancel(p))
           \/ Goto(p, AfterFailure(p))
  /\ UNCHANGED requests

-----------------------------------------------------------------------------
\* The order moves on: it is paid, fulfilled or moved back by an admin, swept while it
\* is unpaid, or a refund of it is settled.
Move ==
  /\ \E to \in Statuses :
       /\ CanTransition(status, to)
       /\ to = Cancelled => status = Pending
       /\ to = Refunded => status = Cancelled
       /\ status' = to
  /\ UNCHANGED <<requests, refunds, kind, pc, local>>

\* A call dies at an await.
Abort(p) ==
  /\ pc[p] \notin {"new", "done", "aborted"}
  /\ Goto(p, "aborted")
  /\ UNCHANGED <<status, requests, refunds, kind, local>>

Customer(p) == SelfRead(p) \/ RecordSelf(p) \/ RequestRead(p) \/ File(p)
Admin(p)    == \/ Reject(p) \/ Approve(p) \/ Reopen(p) \/ FinishApproval(p)
               \/ AdminCancel(p) \/ CloseRequests(p) \/ StatusCancel(p)

Next ==
  \/ \E p \in Calls : Customer(p) \/ Admin(p) \/ OrderRead(p) \/ ChangeStatus(p) \/ Abort(p)
  \/ Move

Spec == Init /\ [][Next]_vars

-----------------------------------------------------------------------------
(* Properties.                                                             *)

Labels   == {"new", "read", "cancel", "record", "file", "reopen", "finish", "close",
             "done", "aborted"}
Amounts  == Nat \cup {None}
Requests == [status: {"none", "REQUESTED", "APPROVED", "REJECTED", "AUTO_CANCELLED"},
             fee: Nat, refund: Amounts]
Locals   == [fee: Nat, due: {"due", "waived"}, amount: Nat, request: Calls \cup {None},
             refund: Amounts, from: Statuses]

\* Every variable holds a value of its type; no fee makes a refund negative.
TypeOK ==
  /\ status \in Statuses
  /\ requests \in [Calls -> Requests]
  /\ refunds \in [Calls -> Amounts]
  /\ kind \in [Calls -> Kinds \cup {"none"}]
  /\ pc \in [Calls -> Labels]
  /\ local \in [Calls -> Locals]

\* The call that holds an approval that has not succeeded or failed yet.
Approving(p, r) == kind[p] = "approve" /\ local[p].request = r /\ pc[p] \in {"read", "cancel", "reopen"}
Died(p, r)      == kind[p] = "approve" /\ local[p].request = r /\ pc[p] = "aborted"

\* "Claim the request first so two admins cannot approve (and refund) twice" (resolve):
\* no request has two approvals under way, though a failed one opens it again.
OneApproval ==
  \A r \in Calls, p, q \in Calls : Approving(p, r) /\ Approving(q, r) => p = q

\* A customer whose request reads APPROVED has a cancelled order, unless the approval is
\* still under way or its process died: failures put the request back (resolve).
ApprovedIsCancelled ==
  \A r \in Calls : requests[r].status = "APPROVED" =>
    status \in RestockStatuses \/ \E p \in Calls : Approving(p, r) \/ Died(p, r)

\* However many cancellations race, the order is refunded once, and every request that
\* names a refund names that one, together with the fee withheld from it.
RefundAsRecorded ==
  /\ \A p, q \in Calls : refunds[p] # None /\ refunds[q] # None => p = q
  /\ \A r \in Calls : requests[r].refund # None =>
       /\ \E p \in Calls : refunds[p] = requests[r].refund
       /\ requests[r].fee + requests[r].refund = Total

\* "The conditional status claim inside makes a concurrent ship ... fail"
\* (cancelAndRefund): no customer cancels an order that has shipped without its
\* parcel coming back.
ShippedIsNotSelfCancelled ==
  \A p \in Calls : kind[p] = "self" => local[p].from \notin SentStatuses

=============================================================================
