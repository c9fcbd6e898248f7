------------------------- MODULE OrderPaymentsProofs -------------------------
(***************************************************************************)
(* Proofs about OrderPayments, for any requests, traffic and bounds.       *)
(***************************************************************************)
EXTENDS OrderPayments, TLAPS

-----------------------------------------------------------------------------
(* Type correctness.                                                       *)

\* The initial values have their types.
LEMMA TypeInit == Init => TypeOK
<1> SUFFICES ASSUME Init PROVE TypeOK
  OBVIOUS
<1>1. order \in OrderRows
  BY DEF Init, OrderRows, Statuses
<1>2. history \in Seq(Events)
  BY DEF Init
<1>3. NoRefund \in RefundRows
  BY DEF NoRefund, RefundRows
<1>4. NoLocals \in Locals
  BY DEF NoLocals, Locals, Statuses
<1>5. local \in [Requests -> Locals] /\ refunds \in [Requests -> RefundRows]
  BY <1>3, <1>4 DEF Init
<1>6. sweep \in [pc: {"idle", "release"}, at: Nat] /\ pc \in [Requests -> Labels]
  BY DEF Init, Labels
<1> QED
  BY <1>1, <1>2, <1>5, <1>6 DEF Init, TypeOK

\* Rows that are updated, or added to the history, keep their types.
LEMMA RefundUpdate ==
  ASSUME refunds \in [Requests -> RefundRows], NEW r \in Requests, NEW f \in RefundRows,
         refunds' = [refunds EXCEPT ![r] = f]
  PROVE  refunds' \in [Requests -> RefundRows]
  OBVIOUS

LEMMA RecordType ==
  ASSUME history \in Seq(Events), NEW s \in Statuses, NEW t \in Statuses,
         NEW b \in Requests \cup {None}, Record(s, t, b)
  PROVE  history' \in Seq(Events)
<1>1. Event(s, t, b) \in Events
  BY DEF Event, Events
<1> QED
  BY <1>1 DEF Record

LEMMA StampedType ==
  ASSUME NEW c \in SUBSET StampNames, NEW m \in SUBSET StampNames, NEW s \in Statuses
  PROVE  Stamped(c, m, s) \in SUBSET StampNames
  BY DEF Stamped, SetStamps, ClearedStamps, StampsOf, StampNames

LEMMA ReleaseClaimType ==
  ASSUME TypeOK, ReleaseClaim
  PROVE  order' \in OrderRows
<1>1. order \in OrderRows /\ [order EXCEPT !.claimedAt = None] \in OrderRows
  BY DEF TypeOK, OrderRows
<1> QED
  BY <1>1 DEF ReleaseClaim

LEMMA SettleType ==
  ASSUME TypeOK, NEW p \in Requests, Settle(p)
  PROVE  TypeOK'
<1> DEFINE r == local[p].subject
<1>1. order \in OrderRows /\ history \in Seq(Events) /\ refunds \in [Requests -> RefundRows]
      /\ r \in Requests \cup {None} /\ local[p].next \in {"done", "find"}
  BY DEF TypeOK, Locals
<1>2. order' \in OrderRows
  <2>1. [order EXCEPT !.status = Refunded] \in OrderRows
    BY <1>1 DEF OrderRows, Statuses, RestockStatuses
  <2> QED
    BY <1>1, <2>1 DEF Settle
<1>3. history' \in Seq(Events)
  <2>1. history' = history \/ Record(Cancelled, Refunded, p)
    BY DEF Settle
  <2>2. CASE Record(Cancelled, Refunded, p)
    BY <2>2, <1>1, RecordType DEF Statuses, RestockStatuses
  <2> QED
    BY <1>1, <2>1, <2>2
<1>4. refunds' \in [Requests -> RefundRows]
  <2>1. CASE refunds' = refunds
    BY <1>1, <2>1
  <2>2. CASE r \in Requests /\ refunds' = [refunds EXCEPT ![r].status = "COMPLETED"]
    <3>1. refunds \in [Requests -> RefundRows] /\ r \in Requests
      BY <1>1, <2>2
    <3>2. [refunds[r] EXCEPT !.status = "COMPLETED"] \in RefundRows
      BY <3>1 DEF RefundRows
    <3>3. refunds' = [refunds EXCEPT ![r] = [refunds[r] EXCEPT !.status = "COMPLETED"]]
      BY <2>2
    <3> QED
      BY <3>1, <3>2, <3>3, RefundUpdate
  <2>3. CASE r \notin Requests /\ refunds' = [refunds EXCEPT ![r].status = "COMPLETED"]
    BY <1>1, <2>3
  <2> QED
    BY <1>1, <2>1, <2>2, <2>3 DEF Settle
<1>5. pc' \in [Requests -> Labels]
  BY <1>1 DEF TypeOK, Settle, Goto, Labels
<1> QED
  BY <1>2, <1>3, <1>4, <1>5 DEF TypeOK, Settle, At, provider
\* The transaction that changes the status.
LEMMA StatusWriteType ==
  ASSUME TypeOK, NEW p \in Requests, StatusWrite(p)
  PROVE  TypeOK'
<1> DEFINE target == local[p].target
           m      == Stamped(order.stamps, local[p].stamps, target)
<1>1. /\ order \in OrderRows /\ history \in Seq(Events) /\ refunds \in [Requests -> RefundRows]
      /\ released \in Nat /\ now \in Nat
  BY DEF TypeOK
<1>2. /\ target \in Statuses /\ local[p].seen \in Statuses /\ local[p].amount \in Nat
      /\ local[p].stamps \in SUBSET StampNames /\ local[p].next \in {"done", "find"}
  BY DEF TypeOK, Locals
<1>3. CASE ~SameStatus(p)
  <2>1. pc' \in [Requests -> Labels]
    BY <1>3 DEF TypeOK, StatusWrite, Goto, Labels
  <2> QED
    BY <1>3, <2>1 DEF TypeOK, StatusWrite, At, provider
<1>4. CASE SameStatus(p)
  <2>1. order' \in OrderRows
    <3>1. order.stamps \in SUBSET StampNames
      BY <1>1 DEF OrderRows
    <3>2. m \in SUBSET StampNames
      BY <1>2, <3>1, StampedType
    <3>3. /\ [order EXCEPT !.status = target, !.stamps = m] \in OrderRows
          /\ [order EXCEPT !.status = target, !.stamps = order.stamps] \in OrderRows
      BY <1>1, <1>2, <3>1, <3>2 DEF OrderRows
    <3>4. \/ order' = [order EXCEPT !.status = target, !.stamps = m]
          \/ order' = [order EXCEPT !.status = target, !.stamps = order.stamps]
      BY <1>4, <1>1 DEF StatusWrite, OrderRows
    <3> QED
      BY <3>3, <3>4
  <2>2. history' \in Seq(Events)
    <3>1. history' = history \/ Record(local[p].seen, target, p)
      BY <1>4 DEF StatusWrite
    <3> QED
      BY <1>1, <1>2, <3>1, RecordType
  <2>3. refunds' \in [Requests -> RefundRows]
    <3>1. PendingRefund(local[p].amount, "cancellation") \in RefundRows
      BY <1>1, <1>2 DEF PendingRefund, RefundRows
    <3>2. \/ refunds' = refunds
          \/ refunds' = [refunds EXCEPT ![p] = PendingRefund(local[p].amount, "cancellation")]
      BY <1>4 DEF StatusWrite
    <3> QED
      BY <1>1, <3>1, <3>2
  <2>4. released' \in Nat
    BY <1>4, <1>1 DEF StatusWrite
  <2>5. pc' \in [Requests -> Labels]
    BY <1>4, <1>2 DEF TypeOK, StatusWrite, Goto, Labels
  <2> QED
    BY <2>1, <2>2, <2>3, <2>4, <2>5 DEF TypeOK, StatusWrite, At, provider
<1> QED
  BY <1>3, <1>4

\* The transaction that confirms a payment.
LEMMA ConfirmType ==
  ASSUME TypeOK, NEW p \in Requests, Confirm(p)
  PROVE  TypeOK'
<1>1. /\ order \in OrderRows /\ history \in Seq(Events)
      /\ local[p].subject \in Requests \cup {None}
  BY DEF TypeOK, Locals
<1>2. order' \in OrderRows
  <2>1. CASE Payable
    <3>1. order' = [order EXCEPT !.status = Confirmed, !.claimedAt = None,
                                 !.paymentRef = local[p].subject, !.stamps = @ \cup {"paidAt"}]
      BY <2>1 DEF Confirm
    <3> QED
      BY <1>1, <3>1 DEF OrderRows, Statuses, Fulfilment, StampNames
  <2>2. CASE ~Payable
    BY <1>1, <2>2 DEF Confirm
  <2> QED
    BY <2>1, <2>2
<1>3. history' \in Seq(Events)
  <2>1. history' = history \/ Record(Pending, Confirmed, p)
    BY DEF Confirm
  <2> QED
    BY <1>1, <2>1, RecordType DEF Statuses, Fulfilment
<1>4. pc' \in [Requests -> Labels]
  BY DEF TypeOK, Confirm, Goto, AfterUnconfirmed, Labels
<1> QED
  BY <1>2, <1>3, <1>4 DEF TypeOK, Confirm, At, provider

\* The sweeper's steps.
LEMMA SweepType ==
  ASSUME TypeOK, Sweeping
  PROVE  TypeOK'
<1>1. order \in OrderRows /\ history \in Seq(Events) /\ released \in Nat /\ now \in Nat
  BY DEF TypeOK
<1>2. CASE SweepRead
  BY <1>2, <1>1 DEF TypeOK, SweepRead, rows, provider
<1>3. CASE SweepFails
  BY <1>3 DEF TypeOK, SweepFails, rows, provider
<1>4. CASE SweepRelease
  <2>1. order' \in OrderRows
    <3>1. [order EXCEPT !.status = Cancelled, !.stamps = order.stamps \cup {"cancelledAt"}] \in OrderRows
      BY <1>1 DEF OrderRows, Statuses, RestockStatuses, StampNames
    <3>2. \/ order' = order
          \/ order' = [order EXCEPT !.status = Cancelled, !.stamps = order.stamps \cup {"cancelledAt"}]
      BY <1>4, <1>1 DEF SweepRelease, OrderRows
    <3> QED
      BY <1>1, <3>1, <3>2
  <2>2. history' \in Seq(Events)
    <3>1. history' = history \/ Record(Pending, Cancelled, None)
      BY <1>4 DEF SweepRelease
    <3> QED
      BY <1>1, <3>1, RecordType DEF Statuses, RestockStatuses
  <2>3. released' \in Nat
    BY <1>4, <1>1 DEF SweepRelease
  <2>4. sweep' \in [pc: {"idle", "release"}, at: Nat]
    BY <1>4 DEF TypeOK, SweepRelease
  <2> QED
    BY <1>4, <2>1, <2>2, <2>3, <2>4 DEF TypeOK, SweepRelease, provider
<1> QED
  BY <1>2, <1>3, <1>4 DEF Sweeping

\* The other steps of a request write at most one row and its local record.
LEMMA RequestType ==
  ASSUME TypeOK, NEW p \in Requests,
         Charging(p) \/ Webhook(p) \/ Changing(p) \/ Settling(p) \/ Abort(p)
  PROVE  TypeOK'
<1>1. /\ order \in OrderRows /\ refunds \in [Requests -> RefundRows]
      /\ local \in [Requests -> Locals] /\ local[p] \in Locals /\ now \in Nat
      /\ order.status \in Statuses /\ order.stamps \in SUBSET StampNames
      /\ order.paymentRef \in Requests \cup {None}
  BY DEF TypeOK, OrderRows
<1>2. local[p].at \in Nat /\ local[p].amount \in Nat /\ local[p].next \in {"done", "find"}
  BY <1>1 DEF Locals
<1>3. \A target \in Statuses, amount \in Nat :
        ToWrite(p, target, amount) => local' \in [Requests -> Locals]
  <2> SUFFICES ASSUME NEW target \in Statuses, NEW amount \in Nat, ToWrite(p, target, amount)
               PROVE  local' \in [Requests -> Locals]
    OBVIOUS
  <2>1. [local[p] EXCEPT !.target = target, !.amount = amount,
                         !.seen = order.status, !.stamps = order.stamps] \in Locals
    BY <1>1 DEF Locals
  <2>2. local' = [local EXCEPT ![p] = [local[p] EXCEPT !.target = target, !.amount = amount,
                                         !.seen = order.status, !.stamps = order.stamps]]
    BY DEF ToWrite
  <2> QED
    BY <1>1, <2>1, <2>2
<1>4. CASE ChargeRead(p)
  <2>1. [local[p] EXCEPT !.at = now, !.subject = p] \in Locals
    BY <1>1 DEF Locals
  <2>2. local' = local \/ local' = [local EXCEPT ![p] = [local[p] EXCEPT !.at = now, !.subject = p]]
    BY <1>4 DEF ChargeRead
  <2>3. local' \in [Requests -> Locals]
    BY <1>1, <2>1, <2>2
  <2>4. kind' \in [Requests -> Kinds \cup {"none"}] /\ pc' \in [Requests -> Labels]
    BY <1>4 DEF TypeOK, ChargeRead, Arrive, Goto, Kinds, Labels
  <2> QED
    BY <1>4, <2>3, <2>4 DEF TypeOK, ChargeRead, rows, provider
<1>5. CASE ChargeClaim(p)
  <2>1. [order EXCEPT !.claimedAt = local[p].at] \in OrderRows
    BY <1>1, <1>2 DEF OrderRows
  <2>2. order' \in OrderRows
    BY <1>5, <1>1, <2>1 DEF ChargeClaim
  <2>3. pc' \in [Requests -> Labels]
    BY <1>5 DEF TypeOK, ChargeClaim, Goto, Labels
  <2> QED
    BY <1>5, <2>2, <2>3 DEF TypeOK, ChargeClaim, At, provider
<1>6. CASE CreateAttempt(p)
  <2>1. pc' \in [Requests -> Labels]
    BY <1>6 DEF TypeOK, CreateAttempt, Goto, Labels
  <2> QED
    BY <1>6, <2>1 DEF TypeOK, CreateAttempt, At, provider
<1>7. CASE ProviderCharge(p)
  <2>1. pc' \in [Requests -> Labels]
    BY <1>7 DEF TypeOK, ProviderCharge, Goto, Labels
  <2>2. outcome' \in [Requests -> {"none", "captured", "declined"}]
    BY <1>7 DEF TypeOK, ProviderCharge
  <2> QED
    BY <1>7, <2>1, <2>2 DEF TypeOK, ProviderCharge, At, rows
<1>8. CASE ChargeDeclined(p)
  <2>1. pc' \in [Requests -> Labels] /\ order' \in OrderRows
    BY <1>8, ReleaseClaimType DEF TypeOK, ChargeDeclined, Goto, Labels
  <2> QED
    BY <1>8, <2>1 DEF TypeOK, ChargeDeclined, At, provider
<1>9. CASE LateRefund(p)
  <2>1. PendingRefund(Total, "late") \in RefundRows
    BY <1>1, TotalAssumption DEF PendingRefund, RefundRows
  <2>2. [local[p] EXCEPT !.ref = p, !.amount = Total, !.subject = p] \in Locals
    BY <1>1, TotalAssumption DEF Locals
  <2>3. refunds' \in [Requests -> RefundRows] /\ local' \in [Requests -> Locals]
    BY <1>9, <1>1, <2>1, <2>2 DEF LateRefund
  <2>4. pc' \in [Requests -> Labels]
    BY <1>9 DEF TypeOK, LateRefund, Goto, Labels
  <2> QED
    BY <1>9, <2>3, <2>4 DEF TypeOK, LateRefund, At, provider
<1>10. CASE WebhookPaid(p)
  <2>1. PICK t \in Requests : local' = [local EXCEPT ![p] = [local[p] EXCEPT !.subject = t]]
    BY <1>10 DEF WebhookPaid
  <2>2. [local[p] EXCEPT !.subject = t] \in Locals
    BY <1>1 DEF Locals
  <2>3. local' \in [Requests -> Locals]
    BY <1>1, <2>1, <2>2
  <2>4. kind' \in [Requests -> Kinds \cup {"none"}] /\ pc' \in [Requests -> Labels]
    BY <1>10 DEF TypeOK, WebhookPaid, Arrive, Goto, Kinds, Labels
  <2> QED
    BY <1>10, <2>3, <2>4 DEF TypeOK, WebhookPaid, rows, provider
<1>11. CASE WebhookFailed(p)
  <2>1. kind' \in [Requests -> Kinds \cup {"none"}] /\ pc' \in [Requests -> Labels]
    BY <1>11 DEF TypeOK, WebhookFailed, Arrive, Goto, Kinds, Labels
  <2> QED
    BY <1>11, <2>1 DEF TypeOK, WebhookFailed, rows, provider
<1>12. CASE WebhookUnclaim(p)
  <2>1. pc' \in [Requests -> Labels] /\ order' \in OrderRows
    BY <1>12, ReleaseClaimType DEF TypeOK, WebhookUnclaim, Goto, Labels
  <2> QED
    BY <1>12, <2>1 DEF TypeOK, WebhookUnclaim, At, provider
<1>13. CASE StatusRead(p)
  <2>1. PICK target \in Targets :
          \/ local' = local
          \/ ToWrite(p, target, Total)
          \/ local' = [local EXCEPT ![p] = [local[p] EXCEPT !.amount = Total, !.next = "find"]]
    BY <1>13 DEF StatusRead
  <2>2. [local[p] EXCEPT !.amount = Total, !.next = "find"] \in Locals
    BY <1>1, TotalAssumption DEF Locals
  <2>3. local' \in [Requests -> Locals]
    BY <1>1, <1>3, <2>1, <2>2, TotalAssumption, TargetsAssumption
  <2>4. kind' \in [Requests -> Kinds \cup {"none"}]
    BY <1>13 DEF TypeOK, StatusRead, Arrive, Kinds
  <2>5. pc' \in [Requests -> Labels]
    BY <1>13 DEF TypeOK, StatusRead, ToWrite, Goto, Labels
  <2> QED
    BY <1>13, <2>3, <2>4, <2>5 DEF TypeOK, StatusRead, rows, provider
<1>14. CASE CancelRead(p)
  <2> DEFINE new(fee, refund) ==
        [local[p] EXCEPT !.amount = AmountToRefund(fee, refund), !.refund = refund]
  <2>1. \A fee \in Fees, refund \in {"due", "waived"} : new(fee, refund) \in Locals
    <3> SUFFICES ASSUME NEW fee \in Fees, NEW refund \in {"due", "waived"}
                 PROVE  new(fee, refund) \in Locals
      OBVIOUS
    <3>1. AmountToRefund(fee, refund) \in Nat
      BY TotalAssumption, FeesAssumption DEF AmountToRefund
    <3> QED
      BY <1>1, <3>1 DEF Locals
  <2>2. \/ local' = local
        \/ \E fee \in Fees, refund \in {"due", "waived"} :
             local' = [local EXCEPT ![p] = new(fee, refund)]
    BY <1>14 DEF CancelRead
  <2> HIDE DEF new
  <2>3. local' \in [Requests -> Locals]
    BY <1>1, <2>1, <2>2
  <2>4. kind' \in [Requests -> Kinds \cup {"none"}] /\ pc' \in [Requests -> Labels]
    BY <1>14 DEF TypeOK, CancelRead, Arrive, Goto, Kinds, Labels
  <2> QED
    BY <1>14, <2>3, <2>4 DEF TypeOK, CancelRead, rows, provider
<1>15. CASE ChangeRead(p)
  <2>1. local' \in [Requests -> Locals]
    BY <1>15, <1>1, <1>2, <1>3 DEF ChangeRead, Statuses, RestockStatuses
  <2>2. pc' \in [Requests -> Labels]
    BY <1>15 DEF TypeOK, ChangeRead, ToWrite, Goto, Labels
  <2> QED
    BY <1>15, <2>1, <2>2 DEF TypeOK, ChangeRead, At, rows, provider
<1>16. CASE AutoRefundRead(p)
  <2>1. [local[p] EXCEPT !.ref = order.paymentRef, !.subject = p] \in Locals
    BY <1>1 DEF Locals
  <2>2. \/ local' = local
        \/ local' = [local EXCEPT ![p] = [local[p] EXCEPT !.ref = order.paymentRef, !.subject = p]]
    BY <1>16 DEF AutoRefundRead
  <2>3. local' \in [Requests -> Locals]
    BY <1>1, <2>1, <2>2
  <2>4. pc' \in [Requests -> Labels]
    BY <1>16, <1>2 DEF TypeOK, AutoRefundRead, Goto, Labels
  <2> QED
    BY <1>16, <2>3, <2>4 DEF TypeOK, AutoRefundRead, At, rows, provider
<1>17. CASE ProviderRefund(p)
  <2>1. returned' \in [Requests -> Nat]
    <3>1. returned \in [Requests -> Nat]
      BY DEF TypeOK
    <3>2. \/ returned' = returned
          \/ returned' = [returned EXCEPT ![local[p].ref] = @ + local[p].amount]
      BY <1>17 DEF ProviderRefund
    <3> QED
      BY <1>2, <3>1, <3>2
  <2>2. pc' \in [Requests -> Labels]
    BY <1>17, <1>2 DEF TypeOK, ProviderRefund, Goto, Labels
  <2> QED
    BY <1>17, <2>1, <2>2 DEF TypeOK, ProviderRefund, At, rows
<1>18. CASE CompleteRequest(p)
  <2>1. PICK r \in Requests : local' = [local EXCEPT ![p] = [local[p] EXCEPT !.subject = r]]
    BY <1>18 DEF CompleteRequest
  <2>2. [local[p] EXCEPT !.subject = r] \in Locals
    BY <1>1 DEF Locals
  <2>3. local' \in [Requests -> Locals]
    BY <1>1, <2>1, <2>2
  <2>4. kind' \in [Requests -> Kinds \cup {"none"}] /\ pc' \in [Requests -> Labels]
    BY <1>18 DEF TypeOK, CompleteRequest, Arrive, Goto, Kinds, Labels
  <2> QED
    BY <1>18, <2>3, <2>4 DEF TypeOK, CompleteRequest, rows, provider
<1>19. CASE FindRefund(p)
  <2>1. \A r \in Requests : [local[p] EXCEPT !.subject = r, !.next = "done"] \in Locals
    BY <1>1 DEF Locals
  <2>2. \/ local' = local
        \/ \E r \in Requests :
             local' = [local EXCEPT ![p] = [local[p] EXCEPT !.subject = r, !.next = "done"]]
    BY <1>19 DEF FindRefund, OpenRefunds
  <2>3. local' \in [Requests -> Locals]
    BY <1>1, <2>1, <2>2
  <2>4. pc' \in [Requests -> Labels]
    BY <1>19 DEF TypeOK, FindRefund, Goto, Labels
  <2> QED
    BY <1>19, <2>3, <2>4 DEF TypeOK, FindRefund, At, rows, provider
<1>20. CASE FailRefund(p)
  <2>1. \A r \in Requests : [refunds[r] EXCEPT !.status = "FAILED"] \in RefundRows
    BY <1>1 DEF RefundRows
  <2>2. \/ refunds' = refunds
        \/ \E r \in Requests :
             refunds' = [refunds EXCEPT ![r] = [refunds[r] EXCEPT !.status = "FAILED"]]
    BY <1>20 DEF FailRefund
  <2>3. refunds' \in [Requests -> RefundRows]
    BY <1>1, <2>1, <2>2
  <2>4. kind' \in [Requests -> Kinds \cup {"none"}] /\ pc' \in [Requests -> Labels]
    BY <1>20 DEF TypeOK, FailRefund, Arrive, Goto, Kinds, Labels
  <2> QED
    BY <1>20, <2>3, <2>4 DEF TypeOK, FailRefund, provider
<1>21. CASE Abort(p)
  <2>1. pc' \in [Requests -> Labels]
    BY <1>21 DEF TypeOK, Abort, Goto, Labels
  <2> QED
    BY <1>21, <2>1 DEF TypeOK, Abort, rows, provider
<1> QED
  BY <1>4, <1>5, <1>6, <1>7, <1>8, <1>9, <1>10, <1>11, <1>12, <1>13, <1>14, <1>15, <1>16,
     <1>17, <1>18, <1>19, <1>20, <1>21, ConfirmType, StatusWriteType, SettleType
     DEF Charging, Webhook, Changing, Settling

LEMMA TypeStep == TypeOK /\ [Next]_vars => TypeOK'
<1> SUFFICES ASSUME TypeOK, [Next]_vars PROVE TypeOK'
  OBVIOUS
<1>1. CASE Tick
  BY <1>1 DEF TypeOK, Tick, rows, provider
<1>2. CASE UNCHANGED vars
  BY <1>2 DEF TypeOK, vars, rows, provider
<1> QED
  BY <1>1, <1>2, RequestType, SweepType DEF Next

\* Every variable has its type in every reachable state, and so no negative or
\* fractional amount is ever asked of the provider or recorded as a refund.
THEOREM TypeCorrect == Spec => []TypeOK
  BY TypeInit, TypeStep, PTL DEF Spec

-----------------------------------------------------------------------------
(* What a step may do to the status, and what follows from it.             *)

\* A handler about to write a status decided on an allowed change, never on
\* REFUNDED, and holds the stamps that went with the status it saw.
StampsFit(status, stamps) ==
  IF status \in RestockStatuses THEN "cancelledAt" \in stamps ELSE stamps = StampsOf(status)
Decided(l) ==
  /\ l.target = l.seen \/ CanTransition(l.seen, l.target)
  /\ l.target # Refunded
  /\ StampsFit(l.seen, l.stamps)
WritesDecided == \A p \in Requests : pc[p] = "write" => Decided(local[p])

StatusInv == TypeOK /\ WritesDecided /\ StampsMatchStatus

\* A step leaves the status alone, or moves it along an allowed change and, in
\* the same step, records the event, hands resources back and sets the stamps.
Stays ==
  /\ order'.status = order.status /\ order'.stamps = order.stamps
  /\ UNCHANGED <<released, history>>
Moves(to, by) ==
  /\ order'.status = to /\ to # order.status
  /\ CanTransition(order.status, to)
  /\ StampsFit(to, order'.stamps)
  /\ Record(order.status, to, by)
  /\ released' = IF to \in RestockStatuses /\ order.status \notin RestockStatuses
                   THEN released + 1 ELSE released
StatusStep == Stays \/ \E to \in Statuses, by \in Requests \cup {None} : Moves(to, by)

\* Stamping a row whose stamps fit gives the stamps that fit the new status.
LEMMA StampedFits ==
  ASSUME NEW from \in Statuses, NEW to \in Statuses, NEW m \in SUBSET StampNames,
         NEW c \in SUBSET StampNames,
         CanTransition(from, to), to # Refunded, StampsFit(from, m), StampsFit(from, c)
  PROVE  StampsFit(to, Stamped(c, m, to))
<1>1. from \notin RestockStatuses /\ m = c /\ m = StampsOf(from)
  BY DEF StampsFit, CanTransition, RestockStatuses, Fulfilment, Pending, Cancelled, Refunded,
         Confirmed, Processing, Shipped, Delivered
<1>2. CASE to \in RestockStatuses
  BY <1>1, <1>2 DEF StampsFit, Stamped, SetStamps, ClearedStamps, StampsOf, RestockStatuses,
         PaidStatuses, SentStatuses, Fulfilment, Pending, Cancelled, Refunded,
         Confirmed, Processing, Shipped, Delivered
<1>3. CASE to \notin RestockStatuses
  BY <1>1, <1>3 DEF StampsFit, Stamped, SetStamps, ClearedStamps, StampsOf, RestockStatuses,
         PaidStatuses, SentStatuses, Fulfilment, Statuses, Pending, Cancelled, Refunded,
         Confirmed, Processing, Shipped, Delivered, StampNames, CanTransition
<1> QED
  BY <1>2, <1>3

LEMMA StatusWriteStep ==
  ASSUME StatusInv, NEW p \in Requests, StatusWrite(p)
  PROVE  StatusStep
<1> DEFINE l == local[p]
<1>1. /\ l.target \in Statuses /\ l.seen \in Statuses /\ l.stamps \in SUBSET StampNames
      /\ order \in OrderRows /\ order.stamps \in SUBSET StampNames
  BY DEF StatusInv, TypeOK, Locals, OrderRows
<1>2. Decided(l)
  BY DEF StatusInv, WritesDecided, StatusWrite, At
<1>3. CASE ~SameStatus(p)
  BY <1>3 DEF StatusWrite, StatusStep, Stays
<1>4. CASE SameStatus(p) /\ l.target = l.seen
  <2>1. order' = [order EXCEPT !.status = l.target, !.stamps = order.stamps]
    BY <1>4, <1>1 DEF StatusWrite, OrderRows
  <2>2. order'.status = order.status /\ order'.stamps = order.stamps
    BY <1>1, <1>4, <2>1 DEF SameStatus, OrderRows
  <2>3. UNCHANGED <<released, history>>
    BY <1>4 DEF StatusWrite, Restocks
  <2> QED
    BY <2>2, <2>3 DEF StatusStep, Stays
<1>5. CASE SameStatus(p) /\ l.target # l.seen
  <2>1. order' = [order EXCEPT !.status = l.target,
                               !.stamps = Stamped(order.stamps, l.stamps, l.target)]
    BY <1>5, <1>1 DEF StatusWrite, OrderRows
  <2>2. /\ order'.status = l.target /\ order.status = l.seen
        /\ order'.stamps = Stamped(order.stamps, l.stamps, l.target)
    BY <1>1, <1>5, <2>1 DEF SameStatus, OrderRows
  <2>3. CanTransition(order.status, l.target)
    BY <1>2, <1>5, <2>2 DEF Decided
  <2>4. StampsFit(order.status, order.stamps) /\ StampsFit(order.status, l.stamps) /\ l.target # Refunded
    BY <1>2, <2>2 DEF StatusInv, StampsMatchStatus, StampsFit, Decided
  <2>5. StampsFit(l.target, order'.stamps)
    BY <1>1, <2>2, <2>3, <2>4, StampedFits
  <2>6. Record(order.status, l.target, p)
    BY <1>5, <2>2 DEF StatusWrite
  <2>7. released' = IF l.target \in RestockStatuses /\ order.status \notin RestockStatuses
                      THEN released + 1 ELSE released
    BY <1>5, <2>2 DEF StatusWrite, Restocks
  <2>8. Moves(l.target, p)
    BY <1>5, <2>2, <2>3, <2>5, <2>6, <2>7 DEF Moves
  <2> QED
    BY <1>1, <2>8 DEF StatusStep
<1> QED
  BY <1>3, <1>4, <1>5

LEMMA ConfirmStep ==
  ASSUME StatusInv, NEW p \in Requests, Confirm(p)
  PROVE  StatusStep
<1>1. order \in OrderRows
  BY DEF StatusInv, TypeOK
<1>2. CASE ~Payable
  BY <1>2 DEF Confirm, StatusStep, Stays
<1>3. CASE Payable
  <2>1. order' = [order EXCEPT !.status = Confirmed, !.claimedAt = None,
                               !.paymentRef = local[p].subject,
                               !.stamps = order.stamps \cup {"paidAt"}]
    BY <1>1, <1>3 DEF Confirm, OrderRows
  <2>2. order.status = Pending /\ order.stamps = {}
    BY <1>3 DEF Payable, StatusInv, StampsMatchStatus, StampsOf, PaidStatuses, SentStatuses,
         RestockStatuses, Fulfilment, Pending, Confirmed, Processing, Shipped, Delivered,
         Cancelled, Refunded
  <2>3. order'.status = Confirmed /\ order'.stamps = {"paidAt"}
    BY <1>1, <2>1, <2>2 DEF OrderRows
  <2>4. StampsFit(Confirmed, order'.stamps) /\ CanTransition(order.status, Confirmed)
    BY <2>2, <2>3 DEF StampsFit, CanTransition, StampsOf, PaidStatuses, SentStatuses,
         RestockStatuses, Fulfilment, Pending, Confirmed, Processing, Shipped, Delivered,
         Cancelled, Refunded
  <2>5. Record(order.status, Confirmed, p) /\ released' = released
    BY <1>3, <2>2 DEF Confirm
  <2>6. Confirmed \notin RestockStatuses /\ Confirmed \in Statuses
    BY DEF Confirmed, RestockStatuses, Cancelled, Refunded, Statuses, Fulfilment
  <2>7. Moves(Confirmed, p)
    BY <2>2, <2>3, <2>4, <2>5, <2>6 DEF Moves, Pending, Confirmed
  <2> QED
    BY <2>6, <2>7 DEF StatusStep
<1> QED
  BY <1>2, <1>3

LEMMA SweepStep ==
  ASSUME StatusInv, SweepRelease
  PROVE  StatusStep
<1>1. order \in OrderRows
  BY DEF StatusInv, TypeOK
<1>2. CASE ~Sweepable
  BY <1>2 DEF SweepRelease, StatusStep, Stays
<1>3. CASE Sweepable
  <2>1. order' = [order EXCEPT !.status = Cancelled, !.stamps = order.stamps \cup {"cancelledAt"}]
    BY <1>1, <1>3 DEF SweepRelease, OrderRows
  <2>2. order'.status = Cancelled /\ "cancelledAt" \in order'.stamps /\ order.status = Pending
    BY <1>1, <1>3, <2>1 DEF OrderRows, Sweepable, Claimable
  <2>3. StampsFit(Cancelled, order'.stamps) /\ CanTransition(Pending, Cancelled)
    BY <2>2 DEF StampsFit, CanTransition, RestockStatuses
  <2>4. Record(Pending, Cancelled, None) /\ released' = released + 1
    BY <1>3 DEF SweepRelease
  <2>5. Cancelled \in RestockStatuses /\ Pending \notin RestockStatuses /\ Cancelled \in Statuses
    BY DEF RestockStatuses, Statuses, Cancelled, Refunded, Pending
  <2>6. Moves(Cancelled, None)
    BY <2>2, <2>3, <2>4, <2>5 DEF Moves
  <2> QED
    BY <2>5, <2>6 DEF StatusStep
<1> QED
  BY <1>2, <1>3

LEMMA SettleStep ==
  ASSUME StatusInv, NEW p \in Requests, Settle(p)
  PROVE  StatusStep
<1>1. order \in OrderRows
  BY DEF StatusInv, TypeOK
<1>2. CASE UNCHANGED <<order, history>>
  BY <1>2 DEF Settle, StatusStep, Stays
<1>3. CASE /\ order.status = Cancelled
           /\ order' = [order EXCEPT !.status = Refunded]
           /\ Record(Cancelled, Refunded, p)
  <2>1. order'.status = Refunded /\ order'.stamps = order.stamps
    BY <1>1, <1>3 DEF OrderRows
  <2>2. Cancelled \in RestockStatuses /\ Refunded \in RestockStatuses /\ Refunded \in Statuses
    BY DEF RestockStatuses, Statuses
  <2>3. StampsFit(Refunded, order'.stamps)
    BY <1>3, <2>1, <2>2 DEF StampsFit, StatusInv, StampsMatchStatus
  <2>4. CanTransition(Cancelled, Refunded) /\ released' = released
    BY DEF CanTransition, Settle
  <2>5. Moves(Refunded, p)
    BY <1>3, <2>1, <2>2, <2>3, <2>4 DEF Moves, Cancelled, Refunded
  <2> QED
    BY <2>2, <2>5 DEF StatusStep
<1> QED
  BY <1>2, <1>3 DEF Settle

\* Of the steps that change the status none is unconditional: whatever handler
\* takes it, a step leaves the status alone or is an allowed change of the row it saw.
LEMMA StatusSteps == StatusInv /\ [Next]_vars => StatusStep
<1> SUFFICES ASSUME StatusInv, [Next]_vars PROVE StatusStep
  OBVIOUS
<1>1. order \in OrderRows
  BY DEF StatusInv, TypeOK
<1>2. ASSUME NEW at \in Nat \cup {None}, order' = [order EXCEPT !.claimedAt = at],
             UNCHANGED <<released, history>>
      PROVE  StatusStep
  BY <1>1, <1>2 DEF OrderRows, StatusStep, Stays
<1>3. ASSUME ReleaseClaim, UNCHANGED <<released, history>> PROVE StatusStep
  BY <1>1, <1>2, <1>3 DEF ReleaseClaim, StatusStep, Stays
<1>4. CASE UNCHANGED vars \/ Tick \/ SweepRead \/ SweepFails
  BY <1>4 DEF StatusStep, Stays, vars, rows, Tick, SweepRead, SweepFails
<1>5. ASSUME NEW p \in Requests, Charging(p) PROVE StatusStep
  <2>1. CASE ChargeClaim(p)
    <3>1. local[p].at \in Nat
      BY DEF StatusInv, TypeOK, Locals
    <3> QED
      BY <2>1, <3>1, <1>2 DEF ChargeClaim, StatusStep, Stays
  <2>2. CASE ChargeDeclined(p)
    BY <2>2, <1>3 DEF ChargeDeclined
  <2>3. CASE ChargeRead(p) \/ CreateAttempt(p) \/ ProviderCharge(p) \/ LateRefund(p)
    BY <2>3 DEF ChargeRead, CreateAttempt, ProviderCharge, LateRefund, StatusStep, Stays, rows
  <2> QED
    BY <1>5, <2>1, <2>2, <2>3, ConfirmStep DEF Charging
<1>6. ASSUME NEW p \in Requests, Webhook(p) PROVE StatusStep
  <2>1. CASE WebhookUnclaim(p)
    BY <2>1, <1>3 DEF WebhookUnclaim
  <2>2. CASE WebhookPaid(p) \/ WebhookFailed(p)
    BY <2>2 DEF WebhookPaid, WebhookFailed, StatusStep, Stays, rows
  <2> QED
    BY <1>6, <2>1, <2>2 DEF Webhook
<1>7. ASSUME NEW p \in Requests, Changing(p) PROVE StatusStep
  <2>1. CASE StatusRead(p) \/ CancelRead(p) \/ ChangeRead(p)
    BY <2>1 DEF StatusRead, CancelRead, ChangeRead, StatusStep, Stays, rows
  <2> QED
    BY <1>7, <2>1, StatusWriteStep DEF Changing
<1>8. ASSUME NEW p \in Requests, Settling(p) PROVE StatusStep
  <2>1. CASE AutoRefundRead(p) \/ ProviderRefund(p) \/ CompleteRequest(p) \/ FindRefund(p)
             \/ FailRefund(p)
    BY <2>1 DEF AutoRefundRead, ProviderRefund, CompleteRequest, FindRefund, FailRefund,
         StatusStep, Stays, rows
  <2> QED
    BY <1>8, <2>1, SettleStep DEF Settling
<1>9. ASSUME NEW p \in Requests, Abort(p) PROVE StatusStep
  BY <1>9 DEF Abort, StatusStep, Stays, rows
<1> QED
  BY <1>4, <1>5, <1>6, <1>7, <1>8, <1>9, SweepStep DEF Next, Sweeping

\* A request's step leaves the next step and the local variables of the others alone.
LEMMA OthersStay ==
  ASSUME TypeOK, NEW p \in Requests, NEW q \in Requests, q # p,
         Charging(p) \/ Webhook(p) \/ Changing(p) \/ Settling(p) \/ Abort(p)
  PROVE  pc'[q] = pc[q] /\ local'[q] = local[q]
<1>1. local \in [Requests -> Locals] /\ pc \in [Requests -> Labels]
  BY DEF TypeOK
<1>2. \A label : Goto(p, label) => pc'[q] = pc[q]
  BY <1>1 DEF Goto
<1>3. \A l : local' = [local EXCEPT ![p] = l] => local'[q] = local[q]
  BY <1>1
<1>4. \A target, amount : ToWrite(p, target, amount) => pc'[q] = pc[q] /\ local'[q] = local[q]
  BY <1>1 DEF ToWrite, Goto
<1>5. CASE Charging(p)
  BY <1>5, <1>2, <1>3 DEF Charging, ChargeRead, ChargeClaim, CreateAttempt, ProviderCharge,
       ChargeDeclined, Confirm, LateRefund
<1>6. CASE Webhook(p)
  BY <1>6, <1>2, <1>3 DEF Webhook, WebhookPaid, WebhookFailed, WebhookUnclaim
<1>7. CASE Changing(p)
  <2>1. CASE StatusRead(p)
    BY <2>1, <1>2, <1>3, <1>4 DEF StatusRead
  <2>2. CASE CancelRead(p)
    BY <2>2, <1>2, <1>3 DEF CancelRead
  <2>3. CASE ChangeRead(p)
    BY <2>3, <1>2, <1>4 DEF ChangeRead
  <2>4. CASE StatusWrite(p)
    BY <2>4, <1>2 DEF StatusWrite
  <2> QED
    BY <1>7, <2>1, <2>2, <2>3, <2>4 DEF Changing
<1>8. CASE Settling(p)
  BY <1>8, <1>2, <1>3 DEF Settling, AutoRefundRead, ProviderRefund, CompleteRequest, FindRefund,
       Settle, FailRefund
<1>9. CASE Abort(p)
  BY <1>9, <1>2 DEF Abort
<1> QED
  BY <1>5, <1>6, <1>7, <1>8, <1>9

\* A read that ends in a write takes the order's status and stamps along.
LEMMA ToWriteDecides ==
  ASSUME StatusInv, NEW p \in Requests, NEW target \in Statuses \ {Refunded}, NEW amount,
         Allowed(target), ToWrite(p, target, amount)
  PROVE  Decided(local'[p])
<1>1. local \in [Requests -> Locals] /\ local[p] \in Locals
  BY DEF StatusInv, TypeOK
<1>2. local'[p] = [local[p] EXCEPT !.target = target, !.amount = amount,
                                   !.seen = order.status, !.stamps = order.stamps]
  BY <1>1 DEF ToWrite
<1>3. local'[p].target = target /\ local'[p].seen = order.status /\ local'[p].stamps = order.stamps
  BY <1>1, <1>2 DEF Locals
<1> QED
  BY <1>3 DEF Allowed, Decided, StatusInv, StampsMatchStatus, StampsFit

LEMMA WritesDecidedStep == StatusInv /\ [Next]_vars => WritesDecided'
<1> SUFFICES ASSUME StatusInv, [Next]_vars, NEW q \in Requests, pc'[q] = "write"
             PROVE  Decided(local'[q])
  BY DEF WritesDecided, Decided
<1>1. /\ TypeOK /\ pc \in [Requests -> Labels] /\ local \in [Requests -> Locals]
      /\ \A p \in Requests : local[p].next \in {"done", "find"}
  BY DEF StatusInv, TypeOK, Locals
<1>2. CASE pc'[q] = pc[q] /\ local'[q] = local[q]
  BY <1>2 DEF StatusInv, WritesDecided
<1>3. CASE UNCHANGED vars \/ Tick \/ Sweeping
  BY <1>3, <1>2 DEF vars, Tick, Sweeping, SweepRead, SweepRelease, SweepFails
<1>4. ASSUME NEW p \in Requests, q # p,
             Charging(p) \/ Webhook(p) \/ Changing(p) \/ Settling(p) \/ Abort(p)
      PROVE  Decided(local'[q])
  BY <1>1, <1>2, <1>4, OthersStay
<1>5. CASE Charging(q)
  <2>1. \A label : Goto(q, label) => label = "write"
    BY <1>1 DEF Goto
  <2> QED
    BY <1>5, <2>1 DEF Charging, ChargeRead, ChargeClaim, CreateAttempt, ProviderCharge,
       ChargeDeclined, Confirm, LateRefund, AfterUnconfirmed
<1>6. CASE Webhook(q)
  <2>1. \A label : Goto(q, label) => label = "write"
    BY <1>1 DEF Goto
  <2> QED
    BY <1>6, <2>1 DEF Webhook, WebhookPaid, WebhookFailed, WebhookUnclaim
<1>7. CASE Changing(q)
  <2>1. \A label : Goto(q, label) => label = "write"
    BY <1>1 DEF Goto
  <2>2. CASE StatusRead(q)
    <3>1. PICK target \in Targets : Allowed(target) /\ target # Refunded /\ ToWrite(q, target, Total)
      BY <2>2, <2>1 DEF StatusRead
    <3>2. target \in Statuses \ {Refunded}
      BY <3>1, TargetsAssumption
    <3> QED
      BY <3>1, <3>2, ToWriteDecides
  <2>3. CASE CancelRead(q)
    BY <2>3, <2>1 DEF CancelRead
  <2>4. CASE ChangeRead(q)
    <3>1. Allowed(Cancelled) /\ ToWrite(q, Cancelled, local[q].amount)
      BY <2>4, <2>1 DEF ChangeRead
    <3>2. Cancelled \in Statuses \ {Refunded}
      BY DEF Statuses, RestockStatuses, Cancelled, Refunded
    <3> QED
      BY <3>1, <3>2, ToWriteDecides
  <2>5. CASE StatusWrite(q)
    BY <2>5, <2>1, <1>1 DEF StatusWrite
  <2> QED
    BY <1>7, <2>2, <2>3, <2>4, <2>5 DEF Changing
<1>8. CASE Settling(q)
  <2>1. \A label : Goto(q, label) => label = "write"
    BY <1>1 DEF Goto
  <2> QED
    BY <1>8, <1>1, <2>1 DEF Settling, AutoRefundRead, ProviderRefund, CompleteRequest,
       FindRefund, Settle, FailRefund
<1>9. CASE Abort(q)
  BY <1>9, <1>1 DEF Abort, Goto
<1> QED
  BY <1>3, <1>4, <1>5, <1>6, <1>7, <1>8, <1>9 DEF Next

LEMMA StatusInit == Init => StatusInv
<1> SUFFICES ASSUME Init PROVE StatusInv
  OBVIOUS
<1>1. WritesDecided
  BY DEF Init, WritesDecided
<1>2. StampsMatchStatus
  BY DEF Init, StampsMatchStatus, StampsOf, PaidStatuses, SentStatuses, RestockStatuses,
     Fulfilment, Pending, Confirmed, Processing, Shipped, Delivered, Cancelled, Refunded
<1> QED
  BY <1>1, <1>2, TypeInit DEF StatusInv

LEMMA StatusInductive == StatusInv /\ [Next]_vars => StatusInv'
<1> SUFFICES ASSUME StatusInv, [Next]_vars PROVE StatusInv'
  OBVIOUS
<1>1. StampsMatchStatus'
  <2>1. CASE Stays
    BY <2>1 DEF StatusInv, StampsMatchStatus, Stays
  <2>2. ASSUME NEW to \in Statuses, NEW by \in Requests \cup {None}, Moves(to, by)
        PROVE  StampsMatchStatus'
    BY <2>2 DEF Moves, StampsFit, StampsMatchStatus
  <2> QED
    BY <2>1, <2>2, StatusSteps DEF StatusStep
<1>2. TypeOK'
  BY TypeStep DEF StatusInv
<1> QED
  BY <1>1, <1>2, WritesDecidedStep DEF StatusInv

\* The fulfilment dates always tell the status, although changeStatus computes
\* them from a row it read before its transaction.
THEOREM StampsCorrect == Spec => []StampsMatchStatus
<1>1. StatusInv => StampsMatchStatus
  BY DEF StatusInv
<1> QED
  BY <1>1, StatusInit, StatusInductive, PTL DEF Spec

\* Stock and the coupon use of an order are handed back exactly once, when it is
\* cancelled, whatever cancellations, sweeps, payments and refunds race.
THEOREM ReleaseCorrect == Spec => []ReleasedOnce
<1>1. Init => ReleasedOnce
  BY DEF Init, ReleasedOnce, RestockStatuses, Pending, Cancelled, Refunded
<1>2. StatusInv /\ ReleasedOnce /\ [Next]_vars => ReleasedOnce'
  <2> SUFFICES ASSUME StatusInv, ReleasedOnce, [Next]_vars PROVE ReleasedOnce'
    OBVIOUS
  <2>1. CASE Stays
    BY <2>1 DEF Stays, ReleasedOnce
  <2>2. ASSUME NEW to \in Statuses, NEW by \in Requests \cup {None}, Moves(to, by)
        PROVE  ReleasedOnce'
    <3>1. order.status \in RestockStatuses => to \in RestockStatuses
      BY <2>2 DEF Moves, CanTransition, RestockStatuses, Fulfilment, Pending, Confirmed,
         Processing, Shipped, Delivered, Cancelled, Refunded
    <3> QED
      BY <2>2, <3>1 DEF Moves, ReleasedOnce
  <2> QED
    BY <2>1, <2>2, StatusSteps DEF StatusStep
<1> QED
  BY <1>1, <1>2, StatusInit, StatusInductive, PTL DEF Spec

\* The status history is one unbroken chain that reopens nothing.
THEOREM HistoryCorrect == Spec => []HistoryIsChain
<1>1. Init => HistoryIsChain
  BY DEF Init, HistoryIsChain
<1>2. StatusInv /\ HistoryIsChain /\ [Next]_vars => HistoryIsChain'
  <2> SUFFICES ASSUME StatusInv, HistoryIsChain, [Next]_vars PROVE HistoryIsChain'
    OBVIOUS
  <2>1. CASE Stays
    BY <2>1 DEF Stays, HistoryIsChain
  <2>2. ASSUME NEW to \in Statuses, NEW by \in Requests \cup {None}, Moves(to, by)
        PROVE  HistoryIsChain'
    <3> DEFINE e == Event(order.status, to, by)
    <3>1. history \in Seq(Events) /\ order.status \in Statuses /\ e \in Events
      BY DEF StatusInv, TypeOK, OrderRows, Event, Events
    <3>2. e.from = order.status /\ e.to = to
      BY DEF Event
    <3>3. /\ history' = Append(history, e) /\ Len(history') = Len(history) + 1
          /\ history'[Len(history) + 1] = e
          /\ \A i \in 1 .. Len(history) : history'[i] = history[i]
      BY <2>2, <3>1 DEF Moves, Record
    <3>4. /\ to \notin {Pending, order.status} /\ order.status # Refunded
          /\ order.status = Cancelled => to = Refunded
      <4>1. CanTransition(order.status, to) /\ to # order.status
        BY <2>2 DEF Moves
      <4> QED
        BY <4>1 DEF CanTransition, RestockStatuses, Fulfilment, Pending, Confirmed,
           Processing, Shipped, Delivered, Cancelled, Refunded
    <3>5. order'.status = to /\ Len(history) \in Nat
      BY <2>2, <3>1 DEF Moves
    <3> HIDE DEF e
    <3>6. history' # <<>> /\ order'.status = history'[Len(history')].to
      BY <3>2, <3>3, <3>5
    <3>7. ASSUME NEW i \in 1 .. Len(history')
          PROVE  /\ history'[i].from = IF i = 1 THEN Pending ELSE history'[i - 1].to
                 /\ history'[i].to \notin {Pending, history'[i].from}
                 /\ history'[i].from = Cancelled => history'[i].to = Refunded
                 /\ history'[i].from # Refunded
      <4>1. CASE i \in 1 .. Len(history)
        BY <4>1, <3>3, <3>5 DEF HistoryIsChain
      <4>2. CASE i = Len(history) + 1
        <5>1. history = <<>> <=> i = 1
          BY <4>2, <3>1
        <5>2. i # 1 => history'[i - 1] = history[Len(history)]
          BY <4>2, <3>3, <3>5
        <5> QED
          BY <4>2, <5>1, <5>2, <3>2, <3>3, <3>4 DEF HistoryIsChain
      <4> QED
        BY <4>1, <4>2, <3>3, <3>5
    <3> QED
      BY <3>6, <3>7 DEF HistoryIsChain
  <2> QED
    BY <2>1, <2>2, StatusSteps DEF StatusStep
<1> QED
  BY <1>1, <1>2, StatusInit, StatusInductive, PTL DEF Spec

-----------------------------------------------------------------------------
(* Money: what was charged, what is refunded, and what is settled.         *)

\* Before these steps a request has made no refund of its own.
Early == {"new", "claim", "attempt", "provider", "confirm", "decline", "late", "unclaim", "read", "write"}

\* Of one request: what it charges and settles is decided when it gets there.
Own(p) ==
  /\ pc[p] = "new" => attempts[p] = "none"
  /\ kind[p] = "charge" => pc[p] \notin {"unclaim", "read", "write", "autoRead"}
  /\ kind[p] = "charge" /\ pc[p] \in {"claim", "attempt", "provider", "confirm"} => local[p].subject = p
  /\ pc[p] \in {"refund", "settle"} => local[p].subject \in Requests

\* What a step may do to it: nothing leads back to the early steps, and the
\* amount decided on is kept after them.
OwnMove(p) ==
  /\ pc'[p] \in Early => pc[p] \in Early
  /\ pc[p] \notin Early => local'[p].amount = local[p].amount
  /\ pc[p] \in {"late", "aborted"} => pc'[p] \in {"late", "aborted"} \/ LateRefund(p)
  /\ kind'[p] = kind[p] \/ (pc[p] = "new" /\ attempts'[p] = attempts[p])
  /\ attempts'[p] = attempts[p] \/ attempts'[p] # "SUCCEEDED" \/ Confirm(p)

LEMMA OwnStays ==
  ASSUME NEW p \in Requests, Own(p), TypeOK,
         pc'[p] = pc[p], kind'[p] = kind[p], local'[p] = local[p], attempts'[p] = attempts[p]
  PROVE  Own(p)' /\ OwnMove(p)
  BY DEF Own, OwnMove

\* A request's step leaves the kind and the attempt of the others alone.
LEMMA OthersKeep ==
  ASSUME TypeOK, NEW p \in Requests, NEW q \in Requests, q # p,
         Charging(p) \/ Webhook(p) \/ Changing(p) \/ Settling(p) \/ Abort(p)
  PROVE  kind'[q] = kind[q] /\ attempts'[q] = attempts[q]
<1>1. kind \in [Requests -> Kinds \cup {"none"}] /\ attempts \in [Requests -> {"none", "PENDING", "SUCCEEDED", "FAILED"}]
  BY DEF TypeOK
<1>2. \A label : Arrive(p, label) => kind'[q] = kind[q]
  BY <1>1 DEF Arrive
<1>3. \A label : At(p, label) => kind'[q] = kind[q]
  BY DEF At
<1>4. CASE Charging(p)
  BY <1>4, <1>1, <1>2, <1>3 DEF Charging, ChargeRead, ChargeClaim, CreateAttempt, ProviderCharge,
       ChargeDeclined, Confirm, LateRefund, rows
<1>5. CASE Webhook(p)
  BY <1>5, <1>2, <1>3 DEF Webhook, WebhookPaid, WebhookFailed, WebhookUnclaim, rows
<1>6. CASE Changing(p)
  BY <1>6, <1>2, <1>3 DEF Changing, StatusRead, CancelRead, ChangeRead, StatusWrite, rows
<1>7. CASE Settling(p)
  BY <1>7, <1>2, <1>3 DEF Settling, AutoRefundRead, ProviderRefund, CompleteRequest, FindRefund,
       Settle, FailRefund, rows
<1>8. CASE Abort(p)
  BY <1>8 DEF Abort, rows
<1> QED
  BY <1>4, <1>5, <1>6, <1>7, <1>8

\* The steps of a request itself.
LEMMA OwnRequest ==
  ASSUME TypeOK, NEW p \in Requests, Own(p),
         Charging(p) \/ Webhook(p) \/ Changing(p) \/ Settling(p) \/ Abort(p)
  PROVE  Own(p)' /\ OwnMove(p)
<1>1. /\ local \in [Requests -> Locals] /\ pc \in [Requests -> Labels]
      /\ kind \in [Requests -> Kinds \cup {"none"}]
      /\ attempts \in [Requests -> {"none", "PENDING", "SUCCEEDED", "FAILED"}]
  BY DEF TypeOK
<1>2. local[p] \in Locals /\ local[p].next \in {"done", "find"}
  BY <1>1 DEF Locals
<1>3. \A label : Goto(p, label) => pc'[p] = label
  BY <1>1 DEF Goto
<1>4. \A k : Arrive(p, k) => kind'[p] = k /\ pc[p] = "new"
  BY <1>1 DEF Arrive
<1>5. \A label : At(p, label) => kind'[p] = kind[p] /\ pc[p] = label
  BY DEF At
<1>6. \A l : local' = [local EXCEPT ![p] = l] => local'[p] = l
  BY <1>1
<1>7. CASE ChargeRead(p)
  <2>1. kind'[p] = "charge" /\ pc[p] = "new" /\ attempts' = attempts /\ pc'[p] \in {"claim", "done"}
    BY <1>7, <1>3, <1>4 DEF ChargeRead, rows
  <2>2. pc'[p] = "claim" => local'[p].subject = p
    <3>1. SUFFICES ASSUME pc'[p] = "claim" PROVE local'[p].subject = p
      OBVIOUS
    <3>2. local'[p] = [local[p] EXCEPT !.at = now, !.subject = p]
      BY <1>7, <1>3, <1>6, <3>1 DEF ChargeRead
    <3> QED
      BY <3>2, <1>2 DEF Locals
  <2> QED
    BY <2>1, <2>2 DEF Own, OwnMove, Early
<1>8. CASE ChargeClaim(p)
  <2>1. kind'[p] = kind[p] /\ pc[p] = "claim" /\ attempts' = attempts /\ pc'[p] \in {"attempt", "done"}
        /\ local' = local
    BY <1>8, <1>3, <1>5 DEF ChargeClaim
  <2> QED
    BY <2>1 DEF Own, OwnMove, Early
<1>9. CASE CreateAttempt(p)
  <2>1. kind'[p] = kind[p] /\ pc[p] = "attempt" /\ attempts'[p] = "PENDING" /\ pc'[p] \in {"provider", "confirm"}
        /\ local' = local
    BY <1>1, <1>9, <1>3, <1>5 DEF CreateAttempt
  <2> QED
    BY <2>1 DEF Own, OwnMove, Early
<1>10. CASE ProviderCharge(p)
  <2>1. kind'[p] = kind[p] /\ pc[p] = "provider" /\ attempts' = attempts /\ pc'[p] \in {"confirm", "decline"}
        /\ local' = local
    BY <1>10, <1>3, <1>5 DEF ProviderCharge, rows
  <2> QED
    BY <2>1 DEF Own, OwnMove, Early
<1>11. CASE ChargeDeclined(p)
  <2>1. kind'[p] = kind[p] /\ pc[p] = "decline" /\ attempts'[p] = "FAILED" /\ pc'[p] = "done"
        /\ local' = local
    BY <1>1, <1>11, <1>3, <1>5 DEF ChargeDeclined
  <2> QED
    BY <2>1 DEF Own, OwnMove, Early
<1>12. CASE Confirm(p)
  <2>1. kind'[p] = kind[p] /\ pc[p] = "confirm" /\ attempts'[p] = "SUCCEEDED" /\ pc'[p] \in {"done", "late"}
        /\ local' = local
    BY <1>1, <1>12, <1>3, <1>5 DEF Confirm, AfterUnconfirmed
  <2> QED
    BY <2>1, <1>12 DEF Own, OwnMove, Early
<1>13. CASE LateRefund(p)
  <2>1. kind'[p] = kind[p] /\ pc[p] = "late" /\ attempts' = attempts /\ pc'[p] = "refund"
    BY <1>13, <1>3, <1>5 DEF LateRefund
  <2>2. local'[p] = [local[p] EXCEPT !.ref = p, !.amount = Total, !.subject = p]
    BY <1>13, <1>6 DEF LateRefund
  <2>3. local'[p].subject = p
    BY <2>2, <1>2 DEF Locals
  <2> QED
    BY <2>1, <2>3, <1>13 DEF Own, OwnMove, Early
<1>14. CASE WebhookPaid(p)
  <2>1. kind'[p] = "paid" /\ pc[p] = "new" /\ attempts' = attempts /\ pc'[p] \in {"attempt", "done"}
    BY <1>14, <1>3, <1>4 DEF WebhookPaid, rows
  <2> QED
    BY <2>1 DEF Own, OwnMove, Early
<1>15. CASE WebhookFailed(p)
  <2>1. kind'[p] = "failed" /\ pc[p] = "new" /\ attempts' = attempts /\ pc'[p] = "unclaim"
    BY <1>15, <1>3, <1>4 DEF WebhookFailed, rows
  <2> QED
    BY <2>1 DEF Own, OwnMove, Early
<1>16. CASE WebhookUnclaim(p)
  <2>1. kind'[p] = kind[p] /\ pc[p] = "unclaim" /\ attempts' = attempts /\ pc'[p] = "done" /\ local' = local
    BY <1>16, <1>3, <1>5 DEF WebhookUnclaim
  <2> QED
    BY <2>1 DEF Own, OwnMove, Early
<1>17. CASE StatusRead(p)
  <2>1. kind'[p] = "status" /\ pc[p] = "new" /\ attempts' = attempts
    BY <1>17, <1>4 DEF StatusRead, rows
  <2>2. pc'[p] \in {"done", "write", "find", "read"}
    BY <1>17, <1>3 DEF StatusRead, ToWrite
  <2> QED
    BY <2>1, <2>2 DEF Own, OwnMove, Early
<1>18. CASE CancelRead(p)
  <2>1. kind'[p] = "cancel" /\ pc[p] = "new" /\ attempts' = attempts /\ pc'[p] \in {"done", "read"}
    BY <1>18, <1>3, <1>4 DEF CancelRead, rows
  <2> QED
    BY <2>1 DEF Own, OwnMove, Early
<1>19. CASE ChangeRead(p)
  <2>1. kind'[p] = kind[p] /\ pc[p] = "read" /\ attempts' = attempts /\ pc'[p] \in {"done", "write"}
    BY <1>19, <1>3, <1>5 DEF ChangeRead, ToWrite, rows
  <2> QED
    BY <2>1 DEF Own, OwnMove, Early
<1>20. CASE StatusWrite(p)
  <2>1. kind'[p] = kind[p] /\ pc[p] = "write" /\ attempts' = attempts
        /\ pc'[p] \in {"done", "find", "autoRead"} /\ local' = local
    BY <1>20, <1>2, <1>3, <1>5 DEF StatusWrite
  <2> QED
    BY <2>1 DEF Own, OwnMove, Early
<1>21. CASE AutoRefundRead(p)
  <2>1. kind'[p] = kind[p] /\ pc[p] = "autoRead" /\ attempts' = attempts
        /\ pc'[p] \in {"done", "find", "refund"}
    BY <1>21, <1>2, <1>3, <1>5 DEF AutoRefundRead, rows
  <2>2. local'[p] = local[p] \/ local'[p] = [local[p] EXCEPT !.ref = order.paymentRef, !.subject = p]
    BY <1>21, <1>6 DEF AutoRefundRead
  <2>3. local'[p].amount = local[p].amount
    BY <2>2, <1>2 DEF Locals
  <2>4. pc'[p] = "refund" => local'[p].subject = p
    <3>1. SUFFICES ASSUME pc'[p] = "refund" PROVE local'[p].subject = p
      OBVIOUS
    <3>2. local'[p] = [local[p] EXCEPT !.ref = order.paymentRef, !.subject = p]
      BY <1>21, <1>2, <1>3, <1>6, <3>1 DEF AutoRefundRead
    <3> QED
      BY <3>2, <1>2 DEF Locals
  <2> QED
    BY <2>1, <2>3, <2>4 DEF Own, OwnMove, Early
<1>22. CASE ProviderRefund(p)
  <2>1. kind'[p] = kind[p] /\ pc[p] = "refund" /\ attempts' = attempts /\ local' = local
        /\ pc'[p] \in {"done", "find", "settle"}
    BY <1>22, <1>2, <1>3, <1>5 DEF ProviderRefund, rows
  <2> QED
    BY <2>1 DEF Own, OwnMove, Early
<1>23. CASE CompleteRequest(p)
  <2>1. kind'[p] = "complete" /\ pc[p] = "new" /\ attempts' = attempts /\ pc'[p] = "settle"
    BY <1>23, <1>3, <1>4 DEF CompleteRequest, rows
  <2>2. PICK r \in Requests : local' = [local EXCEPT ![p] = [local[p] EXCEPT !.subject = r]]
    BY <1>23 DEF CompleteRequest
  <2>3. local'[p] = [local[p] EXCEPT !.subject = r]
    BY <2>2, <1>6
  <2>4. local'[p].subject = r
    BY <2>3, <1>2 DEF Locals
  <2> QED
    BY <2>1, <2>4 DEF Own, OwnMove, Early
<1>24. CASE FindRefund(p)
  <2>1. kind'[p] = kind[p] /\ pc[p] = "find" /\ attempts' = attempts
    BY <1>24, <1>5 DEF FindRefund, rows
  <2>2. CASE pc'[p] = "done" /\ local' = local
    BY <2>1, <2>2 DEF Own, OwnMove, Early
  <2>3. CASE pc'[p] = "settle" /\ \E r \in OpenRefunds :
               local' = [local EXCEPT ![p] = [local[p] EXCEPT !.subject = r, !.next = "done"]]
    <3>1. PICK r \in OpenRefunds : local' = [local EXCEPT ![p] = [local[p] EXCEPT !.subject = r, !.next = "done"]]
      BY <2>3
    <3>2. local'[p] = [local[p] EXCEPT !.subject = r, !.next = "done"]
      BY <3>1, <1>6
    <3>3. local'[p].subject = r /\ local'[p].amount = local[p].amount
      BY <3>2, <1>2 DEF Locals
    <3>4. r \in Requests
      BY DEF OpenRefunds
    <3> QED
      BY <2>1, <2>3, <3>3, <3>4 DEF Own, OwnMove, Early
  <2> QED
    BY <1>24, <1>3, <2>2, <2>3 DEF FindRefund
<1>25. CASE Settle(p)
  <2>1. kind'[p] = kind[p] /\ pc[p] = "settle" /\ attempts' = attempts /\ local' = local
        /\ pc'[p] \in {"done", "find"}
    BY <1>25, <1>2, <1>3, <1>5 DEF Settle
  <2> QED
    BY <2>1 DEF Own, OwnMove, Early
<1>26. CASE FailRefund(p)
  <2>1. kind'[p] = "fail" /\ pc[p] = "new" /\ attempts' = attempts /\ pc'[p] = "done"
    BY <1>26, <1>3, <1>4 DEF FailRefund
  <2> QED
    BY <2>1 DEF Own, OwnMove, Early
<1>27. CASE Abort(p)
  <2>1. kind' = kind /\ pc[p] \notin {"new", "done", "aborted"} /\ attempts' = attempts /\ pc'[p] = "aborted"
        /\ local' = local
    BY <1>27, <1>3 DEF Abort, rows
  <2> QED
    BY <2>1 DEF Own, OwnMove, Early
<1> QED
  BY <1>7, <1>8, <1>9, <1>10, <1>11, <1>12, <1>13, <1>14, <1>15, <1>16, <1>17, <1>18, <1>19, <1>20,
     <1>21, <1>22, <1>23, <1>24, <1>25, <1>26, <1>27 DEF Charging, Webhook, Changing, Settling

LEMMA OwnStep ==
  ASSUME TypeOK, [Next]_vars, NEW p \in Requests, Own(p)
  PROVE  Own(p)' /\ OwnMove(p)
<1>1. CASE UNCHANGED vars \/ Tick \/ Sweeping
  <2>1. pc' = pc /\ kind' = kind /\ local' = local /\ attempts' = attempts
    BY <1>1 DEF vars, rows, Tick, Sweeping, SweepRead, SweepRelease, SweepFails
  <2> QED
    BY <2>1, OwnStays
<1>2. ASSUME NEW q \in Requests, Charging(q) \/ Webhook(q) \/ Changing(q) \/ Settling(q) \/ Abort(q)
      PROVE  Own(p)' /\ OwnMove(p)
  <2>1. CASE q = p
    BY <1>2, <2>1, OwnRequest
  <2>2. CASE q # p
    BY <1>2, <2>2, OwnStays, OthersStay, OthersKeep
  <2> QED
    BY <2>1, <2>2
<1> QED
  BY <1>1, <1>2 DEF Next

-----------------------------------------------------------------------------
\* A refund that is recorded is only failed or completed.
RefundKept(r) ==
  /\ refunds'[r].cause = refunds[r].cause
  /\ refunds'[r].amount = refunds[r].amount
  /\ refunds'[r].status = "none" <=> refunds[r].status = "none"
  /\ refunds[r].status = "COMPLETED" => refunds'[r].status = "COMPLETED"

\* A refund is recorded by its own request: one that was charged too late, or
\* the one that cancels the order.
Refunding(r) == StatusWrite(r) /\ SameStatus(r) /\ RefundDue(r)
RefundMoves(r) == RefundKept(r) \/ LateRefund(r) \/ Refunding(r)

LEMMA RefundStatusSet ==
  ASSUME TypeOK, NEW r \in Requests, NEW q \in Requests, NEW s \in {"COMPLETED", "FAILED"},
         Open(r), s = "FAILED" => refunds[r].status = "PENDING",
         refunds' = [refunds EXCEPT ![r].status = s]
  PROVE  RefundKept(q)
<1>1. refunds \in [Requests -> RefundRows] /\ refunds[r] \in RefundRows
  BY DEF TypeOK
<1>2. CASE q = r
  <2>1. refunds'[q] = [refunds[q] EXCEPT !.status = s]
    BY <1>1, <1>2
  <2>2. /\ refunds'[q].status = s /\ refunds'[q].cause = refunds[q].cause
        /\ refunds'[q].amount = refunds[q].amount
    BY <1>1, <1>2, <2>1 DEF RefundRows
  <2>3. refunds[q].status \in {"PENDING", "FAILED"}
    BY <1>2 DEF Open
  <2> QED
    BY <2>2, <2>3 DEF RefundKept
<1>3. CASE q # r
  <2>1. refunds'[q] = refunds[q]
    BY <1>1, <1>3
  <2> QED
    BY <2>1 DEF RefundKept
<1> QED
  BY <1>2, <1>3

LEMMA RefundsStep ==
  ASSUME TypeOK, \A p \in Requests : Own(p), [Next]_vars, NEW r \in Requests
  PROVE  RefundMoves(r)
<1>1. refunds \in [Requests -> RefundRows]
  BY DEF TypeOK
<1>2. CASE refunds' = refunds
  BY <1>2 DEF RefundMoves, RefundKept
<1>3. CASE UNCHANGED vars \/ Tick \/ Sweeping
  BY <1>2, <1>3 DEF vars, rows, Tick, Sweeping, SweepRead, SweepRelease, SweepFails
<1>4. ASSUME NEW p \in Requests, Charging(p) PROVE RefundMoves(r)
  <2>1. CASE LateRefund(p)
    <3>1. p # r => refunds'[r] = refunds[r]
      BY <1>1, <2>1 DEF LateRefund
    <3> QED
      BY <2>1, <3>1 DEF RefundMoves, RefundKept
  <2>2. ~LateRefund(p) => refunds' = refunds
    BY <1>4 DEF Charging, ChargeRead, ChargeClaim, CreateAttempt, ProviderCharge, ChargeDeclined, Confirm, rows
  <2> QED
    BY <1>2, <2>1, <2>2
<1>5. ASSUME NEW p \in Requests, Webhook(p) PROVE RefundMoves(r)
  BY <1>2, <1>5 DEF Webhook, WebhookPaid, WebhookFailed, WebhookUnclaim, rows
<1>6. ASSUME NEW p \in Requests, Changing(p) PROVE RefundMoves(r)
  <2>1. CASE Refunding(p)
    <3>1. refunds' = [refunds EXCEPT ![p] = PendingRefund(local[p].amount, "cancellation")]
      BY <2>1 DEF Refunding, StatusWrite
    <3>2. p # r => refunds'[r] = refunds[r]
      BY <1>1, <3>1
    <3> QED
      BY <2>1, <3>2 DEF RefundMoves, RefundKept
  <2>2. ~Refunding(p) => refunds' = refunds
    BY <1>6 DEF Changing, StatusRead, CancelRead, ChangeRead, StatusWrite, Refunding, rows
  <2> QED
    BY <1>2, <2>1, <2>2
<1>7. ASSUME NEW p \in Requests, Settling(p) PROVE RefundMoves(r)
  <2>1. CASE Settle(p)
    <3>1. CASE Open(local[p].subject)
      <4>1. local[p].subject \in Requests
        BY <2>1 DEF Own, Settle, At
      <4>2. refunds' = [refunds EXCEPT ![local[p].subject].status = "COMPLETED"]
        BY <2>1, <3>1 DEF Settle
      <4>3. RefundKept(r)
        BY <3>1, <4>1, <4>2, RefundStatusSet
      <4> QED
        BY <4>3 DEF RefundMoves
    <3>2. CASE ~Open(local[p].subject)
      BY <1>2, <2>1, <3>2 DEF Settle
    <3> QED
      BY <3>1, <3>2
  <2>2. CASE FailRefund(p)
    <3>1. PICK q \in Requests :
            \/ refunds[q].status = "PENDING" /\ refunds' = [refunds EXCEPT ![q].status = "FAILED"]
            \/ refunds' = refunds
      BY <2>2 DEF FailRefund
    <3>2. CASE refunds[q].status = "PENDING" /\ refunds' = [refunds EXCEPT ![q].status = "FAILED"]
      <4>1. RefundKept(r)
        BY <3>2, RefundStatusSet DEF Open
      <4> QED
        BY <4>1 DEF RefundMoves
    <3> QED
      BY <1>2, <3>1, <3>2
  <2>3. CASE AutoRefundRead(p) \/ ProviderRefund(p) \/ CompleteRequest(p) \/ FindRefund(p)
    BY <1>2, <2>3 DEF AutoRefundRead, ProviderRefund, CompleteRequest, FindRefund, rows
  <2> QED
    BY <1>7, <2>1, <2>2, <2>3 DEF Settling
<1>8. ASSUME NEW p \in Requests, Abort(p) PROVE RefundMoves(r)
  BY <1>2, <1>8 DEF Abort, rows
<1> QED
  BY <1>3, <1>4, <1>5, <1>6, <1>7, <1>8 DEF Next

\* The order's payment is set by the transaction that confirms it.
LEMMA PaymentStep ==
  ASSUME TypeOK, [Next]_vars
  PROVE  \/ order'.paymentRef = order.paymentRef
         \/ order.status = Pending /\ order'.status = Confirmed
<1>1. order \in OrderRows
  BY DEF TypeOK
<1>2. CASE order' = order
  BY <1>2
<1>3. CASE UNCHANGED vars \/ Tick \/ SweepRead \/ SweepFails
  BY <1>2, <1>3 DEF vars, rows, Tick, SweepRead, SweepFails
<1>4. CASE SweepRelease
  BY <1>1, <1>4 DEF SweepRelease, OrderRows
<1>5. ASSUME ReleaseClaim PROVE order'.paymentRef = order.paymentRef
  BY <1>1, <1>5 DEF ReleaseClaim, OrderRows
<1>6. ASSUME NEW p \in Requests, Charging(p)
      PROVE  \/ order'.paymentRef = order.paymentRef
             \/ order.status = Pending /\ order'.status = Confirmed
  <2>1. CASE ChargeClaim(p)
    BY <1>1, <2>1 DEF ChargeClaim, OrderRows
  <2>2. CASE ChargeDeclined(p)
    BY <1>5, <2>2 DEF ChargeDeclined
  <2>3. CASE Confirm(p)
    BY <1>1, <2>3 DEF Confirm, Payable, OrderRows
  <2>4. CASE ChargeRead(p) \/ CreateAttempt(p) \/ ProviderCharge(p) \/ LateRefund(p)
    BY <2>4 DEF ChargeRead, CreateAttempt, ProviderCharge, LateRefund, rows
  <2> QED
    BY <1>6, <2>1, <2>2, <2>3, <2>4 DEF Charging
<1>7. ASSUME NEW p \in Requests, Webhook(p) PROVE order'.paymentRef = order.paymentRef
  <2>1. CASE WebhookUnclaim(p)
    BY <1>5, <2>1 DEF WebhookUnclaim
  <2> QED
    BY <1>7, <2>1 DEF Webhook, WebhookPaid, WebhookFailed, rows
<1>8. ASSUME NEW p \in Requests, Changing(p) PROVE order'.paymentRef = order.paymentRef
  <2>1. CASE StatusWrite(p)
    BY <1>1, <2>1 DEF StatusWrite, OrderRows
  <2> QED
    BY <1>8, <2>1 DEF Changing, StatusRead, CancelRead, ChangeRead, rows
<1>9. ASSUME NEW p \in Requests, Settling(p) PROVE order'.paymentRef = order.paymentRef
  <2>1. CASE Settle(p)
    BY <1>1, <2>1 DEF Settle, OrderRows
  <2> QED
    BY <1>9, <2>1 DEF Settling, AutoRefundRead, ProviderRefund, CompleteRequest, FindRefund, FailRefund, rows
<1>10. ASSUME NEW p \in Requests, Abort(p) PROVE order' = order
  BY <1>10 DEF Abort, rows
<1> QED
  BY <1>3, <1>4, <1>6, <1>7, <1>8, <1>9, <1>10 DEF Next, Sweeping

\* An event that cancels a paid order is the write of the request that decided it.
Cancels(p) == StatusWrite(p) /\ SameStatus(p) /\ local[p].target = Cancelled /\ local[p].seen \in PaidStatuses

LEMMA PaidStep ==
  ASSUME StatusInv, [Next]_vars
  PROVE  \/ history' = history
         \/ \E e \in Events : history' = Append(history, e) /\ (Paid(e) => e.by \in Requests /\ Cancels(e.by))
<1>1. order \in OrderRows /\ order.status \in Statuses
  BY DEF StatusInv, TypeOK, OrderRows
<1>2. CASE history' = history
  BY <1>2
<1>3. ASSUME NEW from \in Statuses, NEW to \in Statuses, NEW by \in Requests \cup {None},
             Record(from, to, by), from \in PaidStatuses /\ to = Cancelled => by \in Requests /\ Cancels(by)
      PROVE  \E e \in Events : history' = Append(history, e) /\ (Paid(e) => e.by \in Requests /\ Cancels(e.by))
  <2>1. PICK e \in Events : e = Event(from, to, by)
    BY DEF Event, Events
  <2>2. e.from = from /\ e.to = to /\ e.by = by
    BY <2>1 DEF Event
  <2>3. history' = Append(history, e)
    BY <1>3, <2>1 DEF Record
  <2> QED
    BY <1>3, <2>2, <2>3 DEF Paid
<1>4. Pending \notin PaidStatuses /\ Cancelled \notin PaidStatuses
  BY DEF PaidStatuses, Fulfilment, Pending, Cancelled, Confirmed, Processing, Shipped, Delivered
<1>5. /\ Pending \in Statuses /\ Cancelled \in Statuses /\ Refunded \in Statuses /\ Confirmed \in Statuses
  BY DEF Statuses, RestockStatuses, Fulfilment
<1>6. CASE SweepRelease
  <2>1. CASE Record(Pending, Cancelled, None)
    BY <2>1, <1>3, <1>4, <1>5
  <2> QED
    BY <1>2, <1>6, <2>1 DEF SweepRelease
<1>7. CASE UNCHANGED vars \/ Tick \/ SweepRead \/ SweepFails
  BY <1>2, <1>7 DEF vars, rows, Tick, SweepRead, SweepFails
<1>8. ASSUME NEW p \in Requests, Confirm(p), ~UNCHANGED history
      PROVE  \E e \in Events : history' = Append(history, e) /\ (Paid(e) => e.by \in Requests /\ Cancels(e.by))
  <2>1. Record(Pending, Confirmed, p)
    BY <1>8 DEF Confirm
  <2> QED
    BY <2>1, <1>3, <1>4, <1>5
<1>9. ASSUME NEW p \in Requests, Settle(p), ~UNCHANGED history
      PROVE  \E e \in Events : history' = Append(history, e) /\ (Paid(e) => e.by \in Requests /\ Cancels(e.by))
  <2>1. Record(Cancelled, Refunded, p)
    BY <1>9 DEF Settle
  <2> QED
    BY <2>1, <1>3, <1>4, <1>5
<1>10. ASSUME NEW p \in Requests, StatusWrite(p), ~UNCHANGED history
       PROVE  \E e \in Events : history' = Append(history, e) /\ (Paid(e) => e.by \in Requests /\ Cancels(e.by))
  <2>1. SameStatus(p) /\ Record(local[p].seen, local[p].target, p)
    BY <1>10 DEF StatusWrite
  <2>2. local[p].seen \in Statuses /\ local[p].target \in Statuses
    BY DEF StatusInv, TypeOK, Locals
  <2>3. local[p].seen \in PaidStatuses /\ local[p].target = Cancelled => Cancels(p)
    BY <1>10, <2>1 DEF Cancels
  <2> QED
    BY <2>1, <2>2, <2>3, <1>3
<1>11. ASSUME NEW p \in Requests, Charging(p) \/ Webhook(p) \/ Changing(p) \/ Settling(p) \/ Abort(p),
              ~Confirm(p), ~Settle(p), ~StatusWrite(p)
       PROVE  history' = history
  BY <1>11 DEF Charging, ChargeRead, ChargeClaim, CreateAttempt, ProviderCharge, ChargeDeclined, LateRefund,
     Webhook, WebhookPaid, WebhookFailed, WebhookUnclaim, Changing, StatusRead, CancelRead, ChangeRead,
     Settling, AutoRefundRead, ProviderRefund, CompleteRequest, FindRefund, FailRefund, Abort, rows
<1> QED
  BY <1>2, <1>6, <1>7, <1>8, <1>9, <1>10, <1>11 DEF Next, Sweeping

-----------------------------------------------------------------------------
\* What is known of the money: on top of the status, what each request has
\* decided, that refunds are recorded once and only of a cancelled order or a
\* late charge, and that the order's payment is that of its confirmation.
NoRefundYet == \A p \in Requests : pc[p] \in Early => refunds[p].cause = "none" /\ refunds[p].status = "none"
UnpaidHasNoPayment == order.status = Pending => order.paymentRef = None
RefundsOfCancelled == \A r \in Requests : HasCancellationRefund(r) => order.status \in RestockStatuses
CancellerIsPast == \A i \in 1 .. Len(history) :
                     Paid(history[i]) => history[i].by \in Requests /\ pc[history[i].by] \notin Early

MoneyBase ==
  /\ StatusInv
  /\ \A p \in Requests : Own(p)
  /\ NoRefundYet /\ UnpaidHasNoPayment
MoneyInv ==
  /\ MoneyBase
  /\ RefundsOfCancelled /\ CancellerIsPast
  /\ RefundsMatchCancellation /\ ChargedMoneyAccounted /\ RefundedIsSettled

LEMMA MoneyInitially == Init => MoneyInv
<1> SUFFICES ASSUME Init PROVE MoneyInv
  OBVIOUS
<1>1. \A p \in Requests : /\ pc[p] = "new" /\ kind[p] = "none" /\ attempts[p] = "none"
                          /\ refunds[p].cause = "none" /\ refunds[p].status = "none"
  BY DEF Init, NoRefund
<1>2. order.status = Pending /\ order.paymentRef = None /\ history = <<>>
  BY DEF Init
<1>3. \A p \in Requests : Own(p)
  BY <1>1 DEF Own
<1>4. RefundsOfCancelled /\ NoRefundYet /\ UnpaidHasNoPayment
  BY <1>1, <1>2 DEF RefundsOfCancelled, NoRefundYet, UnpaidHasNoPayment, HasCancellationRefund
<1>5. Len(history) = 0 /\ 1 .. Len(history) = {}
  BY <1>2
<1>6. CancellerIsPast /\ RefundsMatchCancellation
  BY <1>1, <1>5 DEF CancellerIsPast, RefundsMatchCancellation, HasCancellationRefund
<1>7. ChargedMoneyAccounted /\ RefundedIsSettled
  BY <1>1, <1>2 DEF ChargedMoneyAccounted, RefundedIsSettled, HasCancellationRefund, Pending, Refunded
<1> QED
  BY <1>3, <1>4, <1>6, <1>7, StatusInit DEF MoneyInv, MoneyBase

\* A refund that is completed, or recorded at all, is not written over.
LEMMA RecordedIsKept ==
  ASSUME MoneyBase, [Next]_vars, NEW r \in Requests, refunds[r].status # "none" \/ pc[r] \notin Early
  PROVE  RefundKept(r)
<1>1. pc[r] \notin Early
  BY DEF MoneyBase, NoRefundYet
<1>2. ~LateRefund(r) /\ ~Refunding(r)
  BY <1>1 DEF LateRefund, Refunding, StatusWrite, At, Early
<1> QED
  BY <1>2, RefundsStep DEF MoneyBase, StatusInv, RefundMoves

\* An order's payment is not replaced once it is there.
LEMMA PaymentIsKept ==
  ASSUME MoneyBase, [Next]_vars, order.paymentRef # None
  PROVE  order'.paymentRef = order.paymentRef
  BY PaymentStep DEF MoneyBase, StatusInv, UnpaidHasNoPayment

\* What is cancelled stays cancelled; what is refunded stays refunded.
LEMMA StatusKept ==
  ASSUME StatusInv, [Next]_vars
  PROVE  /\ order.status \in RestockStatuses => order'.status \in RestockStatuses
         /\ order.status = Refunded => order'.status = Refunded
         /\ order'.status = Pending => order.status = Pending
<1>1. CASE Stays
  BY <1>1 DEF Stays
<1>2. ASSUME NEW to \in Statuses, NEW by \in Requests \cup {None}, Moves(to, by)
      PROVE  /\ order.status \in RestockStatuses => order'.status \in RestockStatuses
             /\ order.status = Refunded => order'.status = Refunded
             /\ order'.status = Pending => order.status = Pending
  BY <1>2 DEF Moves, CanTransition, RestockStatuses, Fulfilment, Pending, Confirmed, Processing,
     Shipped, Delivered, Cancelled, Refunded
<1> QED
  BY <1>1, <1>2, StatusSteps DEF StatusStep

LEMMA MoneyBaseStep == MoneyBase /\ [Next]_vars => MoneyBase'
<1> SUFFICES ASSUME MoneyBase, [Next]_vars PROVE MoneyBase'
  OBVIOUS
<1>1. StatusInv /\ TypeOK
  BY DEF MoneyBase, StatusInv
<1>2. \A p \in Requests : Own(p)' /\ OwnMove(p)
  BY <1>1, OwnStep DEF MoneyBase
<1>3. NoRefundYet'
  <2> SUFFICES ASSUME NEW p \in Requests, pc'[p] \in Early
               PROVE  refunds'[p].cause = "none" /\ refunds'[p].status = "none"
    BY DEF NoRefundYet
  <2>1. pc[p] \in Early
    BY <1>2 DEF OwnMove
  <2>2. refunds[p].cause = "none" /\ refunds[p].status = "none"
    BY <2>1 DEF MoneyBase, NoRefundYet
  <2>3. pc \in [Requests -> Labels]
    BY <1>1 DEF TypeOK
  <2>4. ~LateRefund(p)
    BY <2>3 DEF LateRefund, Goto, Early
  <2>5. ~Refunding(p)
    <3>1. local[p].next \in {"done", "find"}
      BY <1>1 DEF TypeOK, Locals
    <3> QED
      BY <2>3, <3>1 DEF Refunding, StatusWrite, Goto, Early
  <2> QED
    BY <1>1, <2>2, <2>4, <2>5, RefundsStep DEF MoneyBase, RefundMoves, RefundKept
<1>4. UnpaidHasNoPayment'
  <2> SUFFICES ASSUME order'.status = Pending PROVE order'.paymentRef = None
    BY DEF UnpaidHasNoPayment
  <2>1. order.status = Pending /\ order.paymentRef = None
    BY <1>1, StatusKept DEF MoneyBase, UnpaidHasNoPayment
  <2>2. order'.paymentRef = order.paymentRef
    BY <1>1, PaymentStep DEF Pending, Confirmed
  <2> QED
    BY <2>1, <2>2
<1> QED
  BY <1>1, <1>2, <1>3, <1>4, StatusInductive DEF MoneyBase

\* A refund is recorded by the request that cancels, or of a late charge.
LEMMA RefundRecorded ==
  ASSUME MoneyBase, [Next]_vars, NEW r \in Requests
  PROVE  /\ LateRefund(r) => refunds'[r].cause = "late" /\ refunds'[r].amount = Total
                             /\ refunds'[r].status = "PENDING"
         /\ Refunding(r) => /\ refunds'[r].cause = "cancellation" /\ refunds'[r].amount = local[r].amount
                            /\ refunds'[r].status = "PENDING"
                            /\ Cancels(r) /\ order'.status = Cancelled
                            /\ history' = Append(history, Event(local[r].seen, Cancelled, r))
<1>1. /\ refunds \in [Requests -> RefundRows] /\ order \in OrderRows /\ local[r].target \in Statuses
  BY DEF MoneyBase, StatusInv, TypeOK, Locals
<1>2. ASSUME LateRefund(r)
      PROVE  refunds'[r].cause = "late" /\ refunds'[r].amount = Total /\ refunds'[r].status = "PENDING"
  <2>1. refunds'[r] = PendingRefund(Total, "late")
    BY <1>1, <1>2 DEF LateRefund
  <2> QED
    BY <2>1 DEF PendingRefund
<1>3. ASSUME Refunding(r)
      PROVE  /\ refunds'[r].cause = "cancellation" /\ refunds'[r].amount = local[r].amount
             /\ refunds'[r].status = "PENDING"
             /\ Cancels(r) /\ order'.status = Cancelled
             /\ history' = Append(history, Event(local[r].seen, Cancelled, r))
  <2>1. refunds'[r] = PendingRefund(local[r].amount, "cancellation")
    BY <1>1, <1>3 DEF Refunding, StatusWrite
  <2>2. Decided(local[r])
    BY <1>3 DEF Refunding, StatusWrite, At, MoneyBase, StatusInv, WritesDecided
  <2>3. local[r].target \in RestockStatuses /\ local[r].seen \in PaidStatuses
    BY <1>3 DEF Refunding, RefundDue, Restocks
  <2>4. local[r].target = Cancelled
    BY <2>2, <2>3 DEF Decided, RestockStatuses
  <2>5. order'.status = Cancelled
    BY <1>1, <1>3, <2>4 DEF Refunding, StatusWrite, OrderRows
  <2>6. Cancels(r)
    BY <1>3, <2>3, <2>4 DEF Cancels, Refunding
  <2>7. local[r].target # local[r].seen
    BY <2>3, <2>4 DEF PaidStatuses, Fulfilment, Cancelled, Confirmed, Processing, Shipped, Delivered
  <2>8. Record(local[r].seen, Cancelled, r)
    BY <1>3, <2>4, <2>7 DEF Refunding, StatusWrite
  <2> QED
    BY <2>1, <2>5, <2>6, <2>8 DEF PendingRefund, Record
<1> QED
  BY <1>2, <1>3

\* A request that cancels a paid order for an amount records the refund.
LEMMA CancelsRefunds ==
  ASSUME NEW p \in Requests, Cancels(p), local[p].amount > 0
  PROVE  Refunding(p)
<1>1. Cancelled \in RestockStatuses
  BY DEF RestockStatuses
<1>2. local[p].seen \notin RestockStatuses
  BY DEF Cancels, PaidStatuses, RestockStatuses, Fulfilment, Cancelled, Refunded, Confirmed, Processing, Shipped, Delivered
<1> QED
  BY <1>1, <1>2 DEF Cancels, Refunding, RefundDue, Restocks

LEMMA CancelsIsPast ==
  ASSUME MoneyBase, NEW p \in Requests, Cancels(p)
  PROVE  pc'[p] \notin Early /\ local'[p].amount = local[p].amount
<1>1. pc \in [Requests -> Labels] /\ local[p].next \in {"done", "find"}
  BY DEF MoneyBase, StatusInv, TypeOK, Locals
<1>2. pc'[p] \in {"done", "find", "autoRead"}
  BY <1>1 DEF Cancels, StatusWrite, Goto
<1> QED
  BY <1>2 DEF Cancels, StatusWrite, Early

\* The history after a step: the old events and at most one new one.
LEMMA HistoryGrows ==
  ASSUME StatusInv, [Next]_vars, NEW i \in 1 .. Len(history'), Paid(history'[i])
  PROVE  \/ i \in 1 .. Len(history) /\ history'[i] = history[i]
         \/ history'[i].by \in Requests /\ Cancels(history'[i].by)
<1>1. history \in Seq(Events)
  BY DEF StatusInv, TypeOK
<1>2. CASE history' = history
  BY <1>2
<1>3. ASSUME NEW e \in Events, history' = Append(history, e), Paid(e) => e.by \in Requests /\ Cancels(e.by)
      PROVE  \/ i \in 1 .. Len(history) /\ history'[i] = history[i]
             \/ history'[i].by \in Requests /\ Cancels(history'[i].by)
  <2>1. Len(history') = Len(history) + 1 /\ Len(history) \in Nat
    BY <1>1, <1>3
  <2>2. i \in 1 .. Len(history) => history'[i] = history[i]
    BY <1>1, <1>3
  <2>3. i \notin 1 .. Len(history) => history'[i] = e
    BY <1>1, <1>3, <2>1
  <2> QED
    BY <1>3, <2>2, <2>3
<1> QED
  BY <1>2, <1>3, PaidStep

\* No event is lost.
LEMMA HistoryKeeps ==
  ASSUME StatusInv, [Next]_vars, NEW i \in 1 .. Len(history)
  PROVE  i \in 1 .. Len(history') /\ history'[i] = history[i]
<1>1. history \in Seq(Events)
  BY DEF StatusInv, TypeOK
<1>2. ASSUME NEW e \in Events, history' = Append(history, e)
      PROVE  i \in 1 .. Len(history') /\ history'[i] = history[i]
  BY <1>1, <1>2
<1> QED
  BY <1>2, PaidStep

LEMMA RefundsOfCancelledStep == MoneyInv /\ [Next]_vars => RefundsOfCancelled'
<1> SUFFICES ASSUME MoneyInv, [Next]_vars, NEW r \in Requests, refunds'[r].cause = "cancellation"
             PROVE  order'.status \in RestockStatuses
  BY DEF RefundsOfCancelled, HasCancellationRefund
<1>1. MoneyBase /\ StatusInv
  BY DEF MoneyInv, MoneyBase
<1>2. CASE RefundKept(r)
  <2>1. order.status \in RestockStatuses
    BY <1>2 DEF RefundKept, MoneyInv, RefundsOfCancelled, HasCancellationRefund
  <2> QED
    BY <1>1, <2>1, StatusKept
<1>3. ~LateRefund(r)
  BY <1>1, RefundRecorded
<1>4. CASE Refunding(r)
  BY <1>1, <1>4, RefundRecorded DEF RestockStatuses
<1> QED
  BY <1>1, <1>2, <1>3, <1>4, RefundsStep DEF MoneyBase, StatusInv, RefundMoves

LEMMA CancellerIsPastStep == MoneyInv /\ [Next]_vars => CancellerIsPast'
<1> SUFFICES ASSUME MoneyInv, [Next]_vars, NEW i \in 1 .. Len(history'), Paid(history'[i])
             PROVE  history'[i].by \in Requests /\ pc'[history'[i].by] \notin Early
  BY DEF CancellerIsPast, Paid
<1>1. MoneyBase /\ StatusInv
  BY DEF MoneyInv, MoneyBase
<1>2. CASE i \in 1 .. Len(history) /\ history'[i] = history[i]
  <2>1. history[i].by \in Requests /\ pc[history[i].by] \notin Early
    BY <1>2 DEF MoneyInv, CancellerIsPast
  <2>2. OwnMove(history[i].by)
    BY <1>1, <2>1, OwnStep DEF MoneyBase, StatusInv
  <2> QED
    BY <1>2, <2>1, <2>2 DEF OwnMove
<1>3. CASE history'[i].by \in Requests /\ Cancels(history'[i].by)
  BY <1>1, <1>3, CancelsIsPast
<1> QED
  BY <1>1, <1>2, <1>3, HistoryGrows

LEMMA MatchStep == MoneyInv /\ [Next]_vars => RefundsMatchCancellation'
<1> SUFFICES ASSUME MoneyInv, [Next]_vars PROVE RefundsMatchCancellation'
  OBVIOUS
<1>1. MoneyBase /\ StatusInv
  BY DEF MoneyInv, MoneyBase
<1>2. ASSUME NEW i \in 1 .. Len(history'), Paid(history'[i]), local'[history'[i].by].amount > 0
      PROVE  /\ refunds'[history'[i].by].cause = "cancellation"
             /\ refunds'[history'[i].by].amount = local'[history'[i].by].amount
  <2>1. CASE i \in 1 .. Len(history) /\ history'[i] = history[i]
    <3>1. PICK r \in Requests : r = history[i].by /\ pc[r] \notin Early
      BY <1>2, <2>1 DEF MoneyInv, CancellerIsPast
    <3>2. local'[r].amount = local[r].amount
      BY <1>1, <3>1, OwnStep DEF MoneyBase, StatusInv, OwnMove
    <3>3. refunds[r].cause = "cancellation" /\ refunds[r].amount = local[r].amount
      BY <1>2, <2>1, <3>1, <3>2 DEF MoneyInv, RefundsMatchCancellation, HasCancellationRefund
    <3>4. RefundKept(r)
      BY <1>1, <3>1, RecordedIsKept
    <3> QED
      BY <2>1, <3>1, <3>2, <3>3, <3>4 DEF RefundKept
  <2>2. CASE history'[i].by \in Requests /\ Cancels(history'[i].by)
    <3>1. PICK r \in Requests : r = history'[i].by /\ Cancels(r)
      BY <2>2
    <3>2. local'[r].amount = local[r].amount
      BY <1>1, <3>1, CancelsIsPast
    <3>3. Refunding(r)
      BY <1>2, <3>1, <3>2, CancelsRefunds
    <3> QED
      BY <1>1, <3>1, <3>2, <3>3, RefundRecorded
  <2> QED
    BY <1>1, <1>2, <2>1, <2>2, HistoryGrows
<1>3. ASSUME NEW r \in Requests, refunds'[r].cause = "cancellation"
      PROVE  \E i \in 1 .. Len(history') : Paid(history'[i]) /\ history'[i].by = r
  <2>1. CASE RefundKept(r)
    <3>1. PICK i \in 1 .. Len(history) : Paid(history[i]) /\ history[i].by = r
      BY <1>3, <2>1 DEF RefundKept, MoneyInv, RefundsMatchCancellation, HasCancellationRefund
    <3> QED
      BY <1>1, <3>1, HistoryKeeps
  <2>2. CASE Refunding(r)
    <3>1. history' = Append(history, Event(local[r].seen, Cancelled, r)) /\ Cancels(r)
      BY <1>1, <2>2, RefundRecorded
    <3>2. history \in Seq(Events) /\ Event(local[r].seen, Cancelled, r) \in Events
      BY <1>1 DEF StatusInv, TypeOK, Locals, Event, Events, Statuses, RestockStatuses
    <3>3. Len(history') = Len(history) + 1 /\ Len(history) \in Nat
          /\ history'[Len(history) + 1] = Event(local[r].seen, Cancelled, r)
      BY <3>1, <3>2
    <3>4. Paid(Event(local[r].seen, Cancelled, r)) /\ Event(local[r].seen, Cancelled, r).by = r
      BY <3>1 DEF Paid, Event, Cancels
    <3> QED
      BY <3>3, <3>4
  <2>3. ~LateRefund(r)
    BY <1>1, <1>3, RefundRecorded
  <2> QED
    BY <1>1, <2>1, <2>2, <2>3, RefundsStep DEF MoneyBase, StatusInv, RefundMoves
<1> QED
  BY <1>2, <1>3 DEF RefundsMatchCancellation, HasCancellationRefund, Paid

LEMMA AccountedStep == MoneyInv /\ [Next]_vars => ChargedMoneyAccounted'
<1> SUFFICES ASSUME MoneyInv, [Next]_vars, NEW p \in Requests, kind'[p] = "charge", attempts'[p] = "SUCCEEDED"
             PROVE  \/ order'.paymentRef = p
                    \/ refunds'[p].status # "none" /\ refunds'[p].amount = Total
                    \/ pc'[p] \in {"late", "aborted"}
  BY DEF ChargedMoneyAccounted
<1>1. MoneyBase /\ StatusInv /\ TypeOK /\ Own(p)
  BY DEF MoneyInv, MoneyBase, StatusInv
<1>2. OwnMove(p)
  BY <1>1, OwnStep
<1>3. kind[p] = "charge" /\ (attempts[p] = "SUCCEEDED" \/ Confirm(p))
  BY <1>1, <1>2 DEF Own, OwnMove
<1>4. CASE attempts[p] = "SUCCEEDED"
  <2>1. \/ order.paymentRef = p
        \/ refunds[p].status # "none" /\ refunds[p].amount = Total
        \/ pc[p] \in {"late", "aborted"}
    BY <1>3, <1>4 DEF MoneyInv, ChargedMoneyAccounted
  <2>2. CASE order.paymentRef = p
    BY <1>1, <2>2, NoneAssumption, PaymentIsKept
  <2>3. CASE refunds[p].status # "none" /\ refunds[p].amount = Total
    BY <1>1, <2>3, RecordedIsKept DEF RefundKept
  <2>4. CASE pc[p] \in {"late", "aborted"}
    <3>1. pc'[p] \in {"late", "aborted"} \/ LateRefund(p)
      BY <1>2, <2>4 DEF OwnMove
    <3> QED
      BY <1>1, <3>1, RefundRecorded
  <2> QED
    BY <2>1, <2>2, <2>3, <2>4
<1>5. CASE Confirm(p)
  <2>1. local[p].subject = p /\ order \in OrderRows /\ pc \in [Requests -> Labels]
    BY <1>1, <1>3, <1>5 DEF Own, Confirm, At, TypeOK
  <2>2. CASE Payable
    BY <1>5, <2>1, <2>2 DEF Confirm, OrderRows, Payable
  <2>3. CASE ~Payable
    BY <1>3, <1>5, <2>1, <2>3 DEF Confirm, AfterUnconfirmed, Goto
  <2> QED
    BY <2>2, <2>3
<1> QED
  BY <1>3, <1>4, <1>5

\* A status becomes REFUNDED, and a refund COMPLETED, by the transaction that
\* settles an open refund.
LEMMA BecomesRefunded ==
  ASSUME MoneyBase, [Next]_vars, order'.status = Refunded, order.status # Refunded
  PROVE  \E p \in Requests : Settle(p) /\ Open(local[p].subject)
<1>1. order \in OrderRows /\ StatusInv
  BY DEF MoneyBase, StatusInv, TypeOK
<1>2. order'.status # order.status
  OBVIOUS
<1>3. ~ReleaseClaim /\ ~(order' = order)
  BY <1>1, <1>2 DEF ReleaseClaim, OrderRows
<1>4. ~(UNCHANGED vars) /\ ~Tick /\ ~SweepRead /\ ~SweepFails
  BY <1>3 DEF vars, rows, Tick, SweepRead, SweepFails
<1>5. ~SweepRelease
  BY <1>1, <1>2 DEF SweepRelease, OrderRows, Cancelled, Refunded
<1>6. ASSUME NEW p \in Requests PROVE ~Charging(p)
  BY <1>1, <1>2, <1>3 DEF Charging, ChargeRead, ChargeClaim, CreateAttempt, ProviderCharge, ChargeDeclined,
     Confirm, LateRefund, rows, OrderRows, Confirmed, Refunded
<1>7. ASSUME NEW p \in Requests PROVE ~Webhook(p)
  BY <1>3 DEF Webhook, WebhookPaid, WebhookFailed, WebhookUnclaim, rows
<1>8. ASSUME NEW p \in Requests, Changing(p) PROVE FALSE
  <2>1. StatusWrite(p)
    BY <1>3, <1>8 DEF Changing, StatusRead, CancelRead, ChangeRead, rows
  <2>2. local[p].target # Refunded
    BY <2>1 DEF StatusWrite, At, MoneyBase, StatusInv, WritesDecided, Decided
  <2> QED
    BY <1>1, <1>2, <1>3, <2>1, <2>2 DEF StatusWrite, OrderRows
<1>9. ASSUME NEW p \in Requests, Settling(p) PROVE Settle(p) /\ Open(local[p].subject)
  BY <1>3, <1>9 DEF Settling, AutoRefundRead, ProviderRefund, CompleteRequest, FindRefund, FailRefund, Settle, rows
<1>10. ASSUME NEW p \in Requests PROVE ~Abort(p)
  BY <1>3 DEF Abort, rows
<1> QED
  BY <1>4, <1>5, <1>6, <1>7, <1>8, <1>9, <1>10 DEF Next, Sweeping

LEMMA BecomesCompleted ==
  ASSUME MoneyBase, [Next]_vars, NEW r \in Requests,
         refunds'[r].status = "COMPLETED", refunds[r].status # "COMPLETED"
  PROVE  \E p \in Requests : Settle(p) /\ Open(local[p].subject)
<1>1. refunds \in [Requests -> RefundRows]
  BY DEF MoneyBase, StatusInv, TypeOK
<1>2. ~(refunds' = refunds)
  OBVIOUS
<1>3. ~LateRefund(r) /\ ~Refunding(r)
  BY RefundRecorded
<1>4. ~(UNCHANGED vars) /\ ~Tick /\ ~Sweeping
  BY <1>2 DEF vars, rows, Tick, Sweeping, SweepRead, SweepRelease, SweepFails
<1>5. ASSUME NEW p \in Requests, Charging(p) PROVE FALSE
  <2>1. LateRefund(p)
    BY <1>2, <1>5 DEF Charging, ChargeRead, ChargeClaim, CreateAttempt, ProviderCharge, ChargeDeclined, Confirm, rows
  <2>2. p # r
    BY <1>3, <2>1
  <2>3. refunds'[r] = refunds[r]
    BY <1>1, <2>1, <2>2 DEF LateRefund
  <2> QED
    BY <2>3
<1>6. ASSUME NEW p \in Requests PROVE ~Webhook(p)
  BY <1>2 DEF Webhook, WebhookPaid, WebhookFailed, WebhookUnclaim, rows
<1>7. ASSUME NEW p \in Requests, Changing(p) PROVE FALSE
  <2>1. Refunding(p)
    BY <1>2, <1>7 DEF Changing, StatusRead, CancelRead, ChangeRead, StatusWrite, Refunding, rows
  <2>2. p # r
    BY <1>3, <2>1
  <2>3. refunds' = [refunds EXCEPT ![p] = PendingRefund(local[p].amount, "cancellation")]
    BY <2>1 DEF Refunding, StatusWrite
  <2> QED
    BY <1>1, <2>2, <2>3
<1>8. ASSUME NEW p \in Requests, Settling(p) PROVE Settle(p) /\ Open(local[p].subject)
  <2>1. ~FailRefund(p)
    <3> SUFFICES ASSUME FailRefund(p) PROVE FALSE
      OBVIOUS
    <3>1. PICK q \in Requests : refunds' = [refunds EXCEPT ![q].status = "FAILED"]
      BY <1>2 DEF FailRefund
    <3>2. refunds[q] \in RefundRows
      BY <1>1
    <3>3. q = r => refunds'[r].status = "FAILED"
      BY <1>1, <3>1, <3>2 DEF RefundRows
    <3>4. q # r => refunds'[r] = refunds[r]
      BY <1>1, <3>1
    <3> QED
      BY <3>3, <3>4
  <2> QED
    BY <1>2, <1>8, <2>1 DEF Settling, AutoRefundRead, ProviderRefund, CompleteRequest, FindRefund, Settle, rows
<1>9. ASSUME NEW p \in Requests PROVE ~Abort(p)
  BY <1>2 DEF Abort, rows
<1> QED
  BY <1>4, <1>5, <1>6, <1>7, <1>8, <1>9 DEF Next

LEMMA SettledStep == MoneyInv /\ [Next]_vars => RefundedIsSettled'
<1> SUFFICES ASSUME MoneyInv, [Next]_vars PROVE RefundedIsSettled'
  OBVIOUS
<1>1. MoneyBase /\ StatusInv /\ TypeOK
  BY DEF MoneyInv, MoneyBase, StatusInv
<1>2. ASSUME NEW r \in Requests, refunds[r].status = "COMPLETED" PROVE RefundKept(r)
  BY <1>1, <1>2, RecordedIsKept
<1>3. ASSUME NEW p \in Requests, Settle(p), Open(local[p].subject)
      PROVE  local[p].subject \in Requests /\ refunds'[local[p].subject].status = "COMPLETED"
             /\ (order.status = Cancelled => order'.status = Refunded)
  <2>1. local[p].subject \in Requests
    BY <1>3 DEF MoneyInv, MoneyBase, Own, Settle, At
  <2>2. refunds' = [refunds EXCEPT ![local[p].subject].status = "COMPLETED"]
    BY <1>3 DEF Settle
  <2>3. refunds \in [Requests -> RefundRows] /\ refunds[local[p].subject] \in RefundRows /\ order \in OrderRows
    BY <1>1, <2>1 DEF TypeOK
  <2>4. refunds'[local[p].subject].status = "COMPLETED"
    BY <2>1, <2>2, <2>3 DEF RefundRows
  <2>5. order.status = Cancelled => order'.status = Refunded
    BY <1>3, <2>3 DEF Settle, OrderRows
  <2> QED
    BY <2>1, <2>4, <2>5
<1>4. ASSUME order'.status = Refunded PROVE \E r \in Requests : refunds'[r].status = "COMPLETED"
  <2>1. CASE order.status = Refunded
    <3>1. PICK r \in Requests : refunds[r].status = "COMPLETED"
      BY <2>1 DEF MoneyInv, RefundedIsSettled
    <3> QED
      BY <1>2, <3>1 DEF RefundKept
  <2>2. CASE order.status # Refunded
    <3>1. PICK p \in Requests : Settle(p) /\ Open(local[p].subject)
      BY <1>1, <1>4, <2>2, BecomesRefunded
    <3> QED
      BY <1>3, <3>1
  <2> QED
    BY <2>1, <2>2
<1>5. ASSUME NEW r \in Requests, refunds'[r].cause = "cancellation", refunds'[r].status = "COMPLETED"
      PROVE  order'.status = Refunded
  <2>1. RefundKept(r)
    <3>1. ~LateRefund(r) /\ ~Refunding(r)
      BY <1>1, <1>5, RefundRecorded
    <3> QED
      BY <1>1, <3>1, RefundsStep DEF MoneyBase, RefundMoves
  <2>2. refunds[r].cause = "cancellation"
    BY <1>5, <2>1 DEF RefundKept
  <2>3. order.status \in RestockStatuses
    BY <2>2 DEF MoneyInv, RefundsOfCancelled, HasCancellationRefund
  <2>4. CASE order.status = Refunded
    BY <1>1, <2>4, StatusKept
  <2>5. CASE order.status # Refunded
    <3>1. order.status = Cancelled
      BY <2>3, <2>5 DEF RestockStatuses
    <3>2. refunds[r].status # "COMPLETED"
      BY <2>2, <2>5 DEF MoneyInv, RefundedIsSettled, HasCancellationRefund
    <3>3. PICK p \in Requests : Settle(p) /\ Open(local[p].subject)
      BY <1>1, <1>5, <3>2, BecomesCompleted
    <3> QED
      BY <1>3, <3>1, <3>3
  <2> QED
    BY <2>4, <2>5
<1> QED
  BY <1>4, <1>5 DEF RefundedIsSettled, HasCancellationRefund
LEMMA MoneyInductive == MoneyInv /\ [Next]_vars => MoneyInv'
  BY MoneyBaseStep, RefundsOfCancelledStep, CancellerIsPastStep, MatchStep, AccountedStep, SettledStep
     DEF MoneyInv

LEMMA MoneyAlways == Spec => []MoneyInv
  BY MoneyInitially, MoneyInductive, PTL DEF Spec

\* Of every paid order that is cancelled there is exactly the refund decided on,
\* however payments, cancellations, sweeps and refunds interleave.
THEOREM RefundsMatchCorrect == Spec => []RefundsMatchCancellation
<1>1. MoneyInv => RefundsMatchCancellation
  BY DEF MoneyInv
<1> QED
  BY <1>1, MoneyAlways, PTL

\* Money a charge took and knows of is the order's payment or is refunded,
\* unless its request died before it could record that.
THEOREM ChargedMoneyCorrect == Spec => []ChargedMoneyAccounted
<1>1. MoneyInv => ChargedMoneyAccounted
  BY DEF MoneyInv
<1> QED
  BY <1>1, MoneyAlways, PTL

\* REFUNDED means that a refund is completed, and a completed refund of a
\* cancelled order that the order is REFUNDED.
THEOREM RefundedCorrect == Spec => []RefundedIsSettled
<1>1. MoneyInv => RefundedIsSettled
  BY DEF MoneyInv
<1> QED
  BY <1>1, MoneyAlways, PTL

\* No step replaces the first payment of an order or reopens a completed refund.
THEOREM IrrevocableCorrect == Spec => Irrevocable
<1> DEFINE Kept == /\ order.paymentRef # None => order.paymentRef' = order.paymentRef
                   /\ \A r \in Requests : refunds[r].status = "COMPLETED" => refunds'[r].status = "COMPLETED"
<1>1. MoneyInv /\ [Next]_vars => [Kept]_vars
  <2> SUFFICES ASSUME MoneyInv, [Next]_vars PROVE Kept
    OBVIOUS
  <2>1. MoneyBase
    BY DEF MoneyInv
  <2>2. order.paymentRef # None => order.paymentRef' = order.paymentRef
    BY <2>1, PaymentIsKept
  <2>3. ASSUME NEW r \in Requests, refunds[r].status = "COMPLETED" PROVE refunds'[r].status = "COMPLETED"
    BY <2>1, <2>3, RecordedIsKept DEF RefundKept
  <2> QED
    BY <2>2, <2>3
<1> QED
  BY <1>1, MoneyAlways, PTL DEF Spec, Irrevocable

-----------------------------------------------------------------------------
(* One charge in flight: while no live charge outlasts the claim's TTL and *)
(* no failed-payment webhook clears another charge's claim.                *)

\* Only a charge claims an order, charges and declines; nothing clears a claim.
OnlyCharges(p) ==
  /\ pc[p] # "unclaim"
  /\ pc[p] \in {"claim", "provider", "decline"} => kind[p] = "charge"

\* A charge from its claim to the transaction that gives it up or uses it; it is in
\* flight until it knows of a decline.
HoldsClaim(p) == kind[p] = "charge" /\ pc[p] \in {"attempt", "provider", "confirm", "decline"}
SingleClaim == \A p, q \in Requests : HoldsClaim(p) /\ HoldsClaim(q) => p = q

\* The inductive invariant: the charge that holds the claim is the one the claim names while
\* the order is unpaid, and its claim has not run out.
FlightInv ==
  /\ StatusInv
  /\ \A p \in Requests :
       /\ Live(p) => local[p].at <= now /\ now - local[p].at <= MaxCallTime
       /\ HoldsClaim(p) /\ order.status = Pending => order.claimedAt = local[p].at
       /\ OnlyCharges(p)
  /\ SingleClaim

\* A step that starts no charge and clears no claim.
Quiet ==
  /\ now' = now
  /\ order'.status = Pending => order.status = Pending /\ order'.claimedAt = order.claimedAt
  /\ \A q \in Requests :
       /\ Live(q)' => Live(q) /\ local'[q].at = local[q].at
       /\ HoldsClaim(q)' => HoldsClaim(q)
       /\ OnlyCharges(q)'

LEMMA QuietKeepsFlight == FlightInv /\ StatusInv' /\ Quiet => FlightInv'
<1> SUFFICES ASSUME FlightInv, StatusInv', Quiet PROVE FlightInv'
  OBVIOUS
<1>1. \A p \in Requests : HoldsClaim(p)' => Live(p)'
  BY DEF HoldsClaim, Live
<1>2. ASSUME NEW p \in Requests
      PROVE  /\ Live(p)' => local'[p].at <= now' /\ now' - local'[p].at <= MaxCallTime
             /\ HoldsClaim(p)' /\ order'.status = Pending => order'.claimedAt = local'[p].at
             /\ OnlyCharges(p)'
  BY <1>1 DEF FlightInv, Quiet
<1>3. SingleClaim'
  BY DEF FlightInv, SingleClaim, Quiet
<1> QED
  BY <1>2, <1>3 DEF FlightInv

\* A request's step touches no other request.
LEMMA OthersFly ==
  ASSUME TypeOK, NEW p \in Requests, NEW q \in Requests, q # p,
         Charging(p) \/ Webhook(p) \/ Changing(p) \/ Settling(p) \/ Abort(p)
  PROVE  /\ pc'[q] = pc[q] /\ local'[q] = local[q] /\ kind'[q] = kind[q]
         /\ Live(q)' = Live(q) /\ HoldsClaim(q)' = HoldsClaim(q)
         /\ OnlyCharges(q)' = OnlyCharges(q)
<1>1. kind \in [Requests -> Kinds \cup {"none"}]
  BY DEF TypeOK
<1>2. \A k : Arrive(p, k) => kind'[q] = kind[q]
  BY <1>1 DEF Arrive
<1>3. \A label : At(p, label) => kind'[q] = kind[q]
  BY DEF At
<1>4. kind'[q] = kind[q]
  <2>1. CASE Charging(p) \/ Webhook(p)
    BY <2>1, <1>2, <1>3 DEF Charging, ChargeRead, ChargeClaim, CreateAttempt, ProviderCharge,
       ChargeDeclined, Confirm, LateRefund, Webhook, WebhookPaid, WebhookFailed, WebhookUnclaim
  <2>2. CASE Changing(p)
    BY <2>2, <1>2, <1>3 DEF Changing, StatusRead, CancelRead, ChangeRead, StatusWrite
  <2>3. CASE Settling(p) \/ Abort(p)
    BY <2>3, <1>2, <1>3 DEF Settling, AutoRefundRead, ProviderRefund, CompleteRequest,
       FindRefund, Settle, FailRefund, Abort
  <2> QED
    BY <2>1, <2>2, <2>3
<1>5. pc'[q] = pc[q] /\ local'[q] = local[q]
  BY OthersStay
<1> QED
  BY <1>4, <1>5 DEF Live, HoldsClaim, OnlyCharges

\* The condition of a quiet step that concerns the row holds whenever the step
\* does not write paymentClaimedAt.
LEMMA QuietRow ==
  ASSUME StatusInv, [Next]_vars, order'.claimedAt = order.claimedAt
  PROVE  order'.status = Pending => order.status = Pending /\ order'.claimedAt = order.claimedAt
<1>1. CASE Stays
  BY <1>1 DEF Stays
<1>2. ASSUME NEW to \in Statuses, NEW by \in Requests \cup {None}, Moves(to, by)
      PROVE  order'.status # Pending
  BY <1>2 DEF Moves, CanTransition, RestockStatuses, Fulfilment, Pending, Confirmed,
     Processing, Shipped, Delivered, Cancelled, Refunded
<1> QED
  BY <1>1, <1>2, StatusSteps DEF StatusStep

\* All steps of requests are quiet but a charge's first two, and its decline.
LEMMA QuietRequest ==
  ASSUME FlightInv, "failed" \notin Traffic, NEW p \in Requests, [Next]_vars,
         \/ CreateAttempt(p) \/ ProviderCharge(p) \/ Confirm(p) \/ LateRefund(p)
         \/ Webhook(p) \/ Changing(p) \/ Settling(p) \/ Abort(p)
  PROVE  Quiet
<1>1. /\ TypeOK /\ order \in OrderRows /\ pc \in [Requests -> Labels]
      /\ local \in [Requests -> Locals] /\ local[p].next \in {"done", "find"}
      /\ kind \in [Requests -> Kinds \cup {"none"}]
  BY DEF FlightInv, StatusInv, TypeOK, Locals
<1>2. now' = now
  BY DEF CreateAttempt, ProviderCharge, Confirm, LateRefund, Webhook, WebhookPaid, WebhookFailed,
     WebhookUnclaim, Changing, StatusRead, CancelRead, ChangeRead, StatusWrite, Settling,
     AutoRefundRead, ProviderRefund, CompleteRequest, FindRefund, Settle, FailRefund, Abort
<1>3. order'.status = Pending => order.status = Pending /\ order'.claimedAt = order.claimedAt
  <2>1. CASE UNCHANGED order
    BY <2>1
  <2>2. CASE Confirm(p)
    <3>1. CASE Payable
      <4>1. order'.status = Confirmed
        BY <2>2, <3>1, <1>1 DEF Confirm, OrderRows
      <4> QED
        BY <4>1 DEF Pending, Confirmed
    <3> QED
      BY <2>2, <3>1, <2>1 DEF Confirm
  <2>3. CASE StatusWrite(p)
    <3>1. order'.claimedAt = order.claimedAt
      BY <2>3, <1>1 DEF StatusWrite, OrderRows
    <3> QED
      BY <3>1, QuietRow DEF FlightInv
  <2>4. CASE Settle(p)
    <3>1. order'.claimedAt = order.claimedAt
      BY <2>4, <1>1 DEF Settle, OrderRows
    <3> QED
      BY <3>1, QuietRow DEF FlightInv
  <2>5. ~WebhookUnclaim(p)
    BY DEF FlightInv, OnlyCharges, WebhookUnclaim, At
  <2> QED
    BY <2>1, <2>2, <2>3, <2>4, <2>5 DEF CreateAttempt, ProviderCharge, LateRefund, Webhook,
       WebhookPaid, WebhookFailed, Changing, StatusRead, CancelRead, ChangeRead, Settling,
       AutoRefundRead, ProviderRefund, CompleteRequest, FindRefund, FailRefund, Abort, rows
<1>4. \A label : Goto(p, label) => pc'[p] = label
  BY <1>1 DEF Goto
<1>5. /\ Live(p)' => Live(p) /\ local'[p].at = local[p].at
      /\ HoldsClaim(p)' => HoldsClaim(p)
      /\ OnlyCharges(p)'
  <2>1. CASE CreateAttempt(p)
    BY <2>1, <1>4 DEF CreateAttempt, At, Live, HoldsClaim, OnlyCharges
  <2>2. CASE ProviderCharge(p)
    BY <2>2, <1>4 DEF FlightInv, ProviderCharge, At, Live, HoldsClaim, OnlyCharges
  <2>3. CASE Confirm(p)
    BY <2>3, <1>4 DEF Confirm, AfterUnconfirmed, Live, HoldsClaim, OnlyCharges
  <2>4. CASE LateRefund(p)
    BY <2>4, <1>4 DEF LateRefund, Live, HoldsClaim, OnlyCharges
  <2>5. CASE Webhook(p)
    <3>1. CASE WebhookPaid(p)
      <4>1. kind'[p] = "paid" /\ pc'[p] \in {"attempt", "done"}
        BY <3>1, <1>1, <1>4 DEF WebhookPaid, Arrive
      <4> QED
        BY <4>1 DEF Live, HoldsClaim, OnlyCharges
    <3>2. ~WebhookFailed(p) /\ ~WebhookUnclaim(p)
      BY DEF FlightInv, OnlyCharges, WebhookFailed, WebhookUnclaim, Arrive, At
    <3> QED
      BY <2>5, <3>1, <3>2 DEF Webhook
  <2>6. CASE Changing(p)
    <3>1. pc'[p] \in {"done", "write", "read", "find", "autoRead"}
      BY <2>6, <1>1, <1>4 DEF Changing, StatusRead, CancelRead, ChangeRead, StatusWrite, ToWrite
    <3> QED
      BY <3>1 DEF Live, HoldsClaim, OnlyCharges
  <2>7. CASE Settling(p)
    <3>1. pc'[p] \in {"done", "find", "refund", "settle"}
      BY <2>7, <1>1, <1>4 DEF Settling, AutoRefundRead, ProviderRefund, CompleteRequest,
         FindRefund, Settle, FailRefund
    <3> QED
      BY <3>1 DEF Live, HoldsClaim, OnlyCharges
  <2>8. CASE Abort(p)
    BY <2>8, <1>4 DEF Abort, Live, HoldsClaim, OnlyCharges
  <2> QED
    BY <2>1, <2>2, <2>3, <2>4, <2>5, <2>6, <2>7, <2>8
<1>6. ASSUME NEW q \in Requests, q # p
      PROVE  /\ Live(q)' => Live(q) /\ local'[q].at = local[q].at
             /\ HoldsClaim(q)' => HoldsClaim(q)
             /\ OnlyCharges(q)'
  BY <1>1, <1>6, OthersFly DEF FlightInv, Charging
<1> QED
  BY <1>2, <1>3, <1>5, <1>6 DEF Quiet

\* A charge claims the order only when no live charge holds it.
LEMMA ClaimAlone ==
  ASSUME FlightInv, MaxCallTime <= ClaimTTL, NEW p \in Requests, ChargeClaim(p),
         Claimable(local[p].at)
  PROVE  \A q \in Requests : ~HoldsClaim(q)
<1> SUFFICES ASSUME NEW q \in Requests, HoldsClaim(q) PROVE FALSE
  OBVIOUS
<1>1. Live(q) /\ order.status = Pending
  BY DEF HoldsClaim, Live, Claimable
<1>2. Live(p)
  BY DEF ChargeClaim, At, Live, FlightInv, OnlyCharges
<1>3. /\ local[q].at <= now /\ now - local[q].at <= MaxCallTime
      /\ order.claimedAt = local[q].at /\ local[p].at <= now
  BY <1>1, <1>2 DEF FlightInv
<1>4. /\ local[q].at \in Nat /\ local[p].at \in Nat /\ now \in Nat
      /\ MaxCallTime \in Nat /\ ClaimTTL \in Nat
  BY TimesAssumption DEF FlightInv, StatusInv, TypeOK, Locals
<1>5. local[q].at + ClaimTTL < local[p].at
  BY <1>3, <1>4, NoneAssumption DEF Claimable
<1> QED
  BY <1>3, <1>4, <1>5

LEMMA FlightStep ==
  ASSUME MaxCallTime <= ClaimTTL, "failed" \notin Traffic, FlightInv, [Next]_vars
  PROVE  FlightInv'
<1>1. /\ TypeOK /\ order \in OrderRows /\ pc \in [Requests -> Labels] /\ now \in Nat
      /\ local \in [Requests -> Locals] /\ kind \in [Requests -> Kinds \cup {"none"}]
      /\ MaxCallTime \in Nat
  BY TimesAssumption DEF FlightInv, StatusInv, TypeOK
<1>2. StatusInv'
  BY StatusInductive DEF FlightInv
<1>3. Quiet => FlightInv'
  BY <1>2, QuietKeepsFlight
<1>4. CASE UNCHANGED vars \/ SweepRead \/ SweepFails
  <2>1. Quiet
    BY <1>4 DEF vars, rows, SweepRead, SweepFails, Quiet, Live, HoldsClaim, OnlyCharges, FlightInv
  <2> QED
    BY <2>1, <1>3
<1>5. CASE SweepRelease
  <2>1. order'.claimedAt = order.claimedAt
    BY <1>1, <1>5 DEF SweepRelease, OrderRows
  <2>2. order'.status = Pending => order.status = Pending /\ order'.claimedAt = order.claimedAt
    BY <2>1, QuietRow DEF FlightInv
  <2>3. Quiet
    BY <1>5, <2>2 DEF SweepRelease, Quiet, Live, HoldsClaim, OnlyCharges, FlightInv
  <2> QED
    BY <2>3, <1>3
<1>6. CASE Tick
  <2>1. ASSUME NEW p \in Requests, Live(p)'
        PROVE  local'[p].at <= now' /\ now' - local'[p].at <= MaxCallTime
    <3>1. Live(p) /\ local'[p] = local[p] /\ local[p].at \in Nat /\ now' = now + 1
      BY <1>1, <1>6, <2>1 DEF Tick, Live, Locals
    <3>2. now - local[p].at < MaxCallTime /\ local[p].at <= now
      BY <1>6, <3>1 DEF Tick, FlightInv
    <3> QED
      BY <1>1, <3>1, <3>2
  <2>2. UNCHANGED <<order, pc, kind, local>>
    BY <1>6 DEF Tick, rows
  <2> QED
    BY <1>2, <2>1, <2>2 DEF FlightInv, HoldsClaim, OnlyCharges, SingleClaim
<1>7. ASSUME NEW p \in Requests, ChargeRead(p) PROVE FlightInv'
  <2>1. local[p].at \in Nat /\ kind' = [kind EXCEPT ![p] = "charge"] /\ now' = now /\ order' = order
    BY <1>1, <1>7 DEF ChargeRead, Arrive, Locals, rows
  <2>2. CASE Goto(p, "done") /\ UNCHANGED local
    <3>1. ~Live(p)' /\ ~HoldsClaim(p)' /\ OnlyCharges(p)'
      BY <1>1, <2>2 DEF Goto, Live, HoldsClaim, OnlyCharges
    <3>2. Quiet
      BY <1>1, <1>7, <2>1, <3>1, OthersFly DEF Quiet, Charging, FlightInv
    <3> QED
      BY <3>2, <1>3
  <2>3. CASE Goto(p, "claim") /\ local' = [local EXCEPT ![p] = [@ EXCEPT !.at = now, !.subject = p]]
    <3>1. pc'[p] = "claim" /\ ~HoldsClaim(p)' /\ OnlyCharges(p)' /\ local'[p].at = now
      BY <1>1, <2>1, <2>3 DEF Goto, HoldsClaim, OnlyCharges, Locals
    <3>2. ASSUME NEW q \in Requests
          PROVE  /\ Live(q)' => local'[q].at <= now' /\ now' - local'[q].at <= MaxCallTime
                 /\ HoldsClaim(q)' /\ order'.status = Pending => order'.claimedAt = local'[q].at
                 /\ OnlyCharges(q)'
      <4>1. CASE q = p
        BY <4>1, <3>1, <2>1, <1>1
      <4>2. CASE q # p
        BY <4>2, <1>1, <1>7, <2>1, OthersFly DEF FlightInv, Charging
      <4> QED
        BY <4>1, <4>2
    <3>3. SingleClaim'
      BY <1>1, <1>7, <3>1, OthersFly DEF SingleClaim, FlightInv, Charging
    <3> QED
      BY <1>2, <3>2, <3>3 DEF FlightInv
  <2> QED
    BY <1>7, <2>2, <2>3 DEF ChargeRead
<1>8. ASSUME NEW p \in Requests, ChargeClaim(p) PROVE FlightInv'
  <2>1. now' = now /\ local' = local /\ kind' = kind
    BY <1>8 DEF ChargeClaim, At, provider
  <2>2. CASE ~Claimable(local[p].at)
    <3>1. pc'[p] = "done" /\ order' = order
      BY <1>1, <1>8, <2>2 DEF ChargeClaim, Goto
    <3>2. ~Live(p)' /\ ~HoldsClaim(p)' /\ OnlyCharges(p)'
      BY <3>1 DEF Live, HoldsClaim, OnlyCharges
    <3>3. Quiet
      BY <1>1, <1>8, <2>1, <3>1, <3>2, OthersFly DEF Quiet, Charging, FlightInv
    <3> QED
      BY <3>3, <1>3
  <2>3. CASE Claimable(local[p].at)
    <3>1. pc'[p] = "attempt" /\ order'.claimedAt = local[p].at
      BY <1>1, <1>8, <2>3 DEF ChargeClaim, Goto, OrderRows
    <3>2. HoldsClaim(p)' => Live(p)
      BY <1>8, <2>1 DEF HoldsClaim, Live, ChargeClaim, At
    <3>3. (Live(p)' => Live(p)) /\ OnlyCharges(p)'
      BY <1>8, <2>1, <3>1 DEF Live, OnlyCharges, ChargeClaim, At
    <3>4. \A q \in Requests : q # p => ~HoldsClaim(q)'
      BY <1>1, <1>8, <2>3, OthersFly, ClaimAlone DEF Charging
    <3>5. ASSUME NEW q \in Requests
          PROVE  /\ Live(q)' => local'[q].at <= now' /\ now' - local'[q].at <= MaxCallTime
                 /\ HoldsClaim(q)' /\ order'.status = Pending => order'.claimedAt = local'[q].at
                 /\ OnlyCharges(q)'
      <4>1. CASE q = p
        BY <4>1, <2>1, <3>1, <3>3 DEF FlightInv
      <4>2. CASE q # p
        BY <4>2, <1>1, <1>8, <2>1, <3>4, OthersFly DEF FlightInv, Charging
      <4> QED
        BY <4>1, <4>2
    <3>6. SingleClaim'
      BY <3>4 DEF SingleClaim
    <3> QED
      BY <1>2, <3>5, <3>6 DEF FlightInv
  <2> QED
    BY <2>2, <2>3
<1>9. ASSUME NEW p \in Requests, ChargeDeclined(p) PROVE FlightInv'
  <2>1. now' = now /\ local' = local /\ kind' = kind /\ pc'[p] = "done"
    BY <1>1, <1>9 DEF ChargeDeclined, At, provider, Goto
  <2>2. ~Live(p)' /\ ~HoldsClaim(p)' /\ OnlyCharges(p)' /\ kind[p] = "charge"
    BY <1>9, <2>1 DEF Live, HoldsClaim, OnlyCharges, FlightInv, ChargeDeclined, At
  <2>3. HoldsClaim(p)
    BY <1>9, <2>2 DEF HoldsClaim, ChargeDeclined, At
  <2>4. \A q \in Requests : ~HoldsClaim(q)'
    BY <1>1, <1>9, <2>2, <2>3, OthersFly DEF Charging, FlightInv, SingleClaim
  <2>5. ASSUME NEW q \in Requests
        PROVE  /\ Live(q)' => local'[q].at <= now' /\ now' - local'[q].at <= MaxCallTime
               /\ OnlyCharges(q)'
    <3>1. CASE q = p
      BY <3>1, <2>2
    <3>2. CASE q # p
      BY <3>2, <1>1, <1>9, <2>1, OthersFly DEF FlightInv, Charging
    <3> QED
      BY <3>1, <3>2
  <2> QED
    BY <1>2, <2>4, <2>5 DEF FlightInv, SingleClaim
<1> QED
  BY <1>3, <1>4, <1>5, <1>6, <1>7, <1>8, <1>9, QuietRequest DEF Next, Charging, Sweeping

\* "at most one in-flight charge per order": it holds while no live charge lasts
\* longer than the claim's TTL and no failed-payment webhook arrives, whatever
\* charges, payment webhooks, cancellations and sweeps do meanwhile.
THEOREM SingleFlightCorrect ==
  ASSUME MaxCallTime <= ClaimTTL, "failed" \notin Traffic
  PROVE  Spec => []SingleFlight
<1>1. Init => FlightInv
  <2> SUFFICES ASSUME Init PROVE FlightInv
    OBVIOUS
  <2>1. \A p \in Requests : ~Live(p) /\ ~HoldsClaim(p) /\ OnlyCharges(p)
    BY DEF Init, Live, HoldsClaim, OnlyCharges
  <2> QED
    BY <2>1, StatusInit DEF FlightInv, SingleClaim
<1>2. FlightInv /\ [Next]_vars => FlightInv'
  BY FlightStep
<1>3. FlightInv => SingleFlight
  BY DEF FlightInv, SingleClaim, SingleFlight, HoldsClaim, InFlight
<1> QED
  BY <1>1, <1>2, <1>3, PTL DEF Spec

-----------------------------------------------------------------------------
(* The order's life: every step is one of OrderLife, or leaves it alone.   *)

\* Of one request: what it may ask to be paid back, and whom it charges.
Asks(p) ==
  /\ local[p].amount \in 0 .. Total
  /\ pc[p] \in {"claim", "attempt", "provider", "confirm"} => local[p].subject \in Requests
\* A charge is late once the order is no longer payable.
Latecomer(p) == pc[p] = "late" => order.status # Pending
RefundFits(r) ==
  /\ refunds[r].status = "none" <=> refunds[r].cause = "none"
  /\ refunds[r].status = "none" => refunds[r].amount = 0

FitInv ==
  /\ MoneyInv
  /\ \A p \in Requests : Asks(p) /\ Latecomer(p) /\ RefundFits(p)

\* A step that keeps the local variables, and comes from further back, keeps Asks.
LEMMA AsksOnward ==
  ASSUME NEW p \in Requests, Asks(p), local'[p] = local[p], pc'[p] # "late",
         pc'[p] \in {"claim", "attempt", "provider", "confirm"} =>
           pc[p] \in {"claim", "attempt", "provider", "confirm"}
  PROVE  Asks(p)' /\ Latecomer(p)'
  BY DEF Asks, Latecomer

\* The steps of a request itself.
LEMMA AsksRequest ==
  ASSUME TypeOK, NEW p \in Requests, Asks(p),
         Charging(p) \/ Webhook(p) \/ Changing(p) \/ Settling(p) \/ Abort(p)
  PROVE  Asks(p)' /\ Latecomer(p)'
<1>1. local \in [Requests -> Locals] /\ pc \in [Requests -> Labels]
  BY DEF TypeOK
<1>2. local[p] \in Locals /\ local[p].next \in {"done", "find"} /\ Total \in 0 .. Total
  BY <1>1, TotalAssumption DEF Locals
<1>3. \A label : Goto(p, label) => pc'[p] = label
  BY <1>1 DEF Goto
<1>5. \A label : At(p, label) => pc[p] = label
  BY DEF At
<1>6. \A l : local' = [local EXCEPT ![p] = l] => local'[p] = l
  BY <1>1
<1>7. CASE ChargeRead(p)
  <2>1. CASE pc'[p] = "done" /\ local' = local
    BY <2>1, AsksOnward
  <2>2. CASE pc'[p] = "claim" /\ local'[p] = [local[p] EXCEPT !.at = now, !.subject = p]
    <3>1. local'[p].subject = p /\ local'[p].amount = local[p].amount
      BY <2>2, <1>2 DEF Locals
    <3> QED
      BY <2>2, <3>1 DEF Asks, Latecomer
  <2> QED
    BY <1>3, <1>6, <1>7, <2>1, <2>2 DEF ChargeRead
<1>8. CASE ChargeClaim(p) \/ CreateAttempt(p) \/ ProviderCharge(p) \/ ChargeDeclined(p)
  <2>1. local' = local /\ pc[p] \in {"claim", "attempt", "provider", "decline"}
        /\ pc'[p] \in {"attempt", "provider", "confirm", "decline", "done"}
        /\ (pc[p] = "decline" => pc'[p] = "done")
    BY <1>8, <1>3, <1>5 DEF ChargeClaim, CreateAttempt, ProviderCharge, ChargeDeclined
  <2> QED
    BY <2>1, AsksOnward
<1>9. CASE Confirm(p)
  <2>1. local' = local /\ pc'[p] \in {"late", "done"}
    BY <1>3, <1>9 DEF Confirm, AfterUnconfirmed
  <2>2. pc'[p] = "late" => order'.status # Pending
    BY <1>3, <1>9 DEF Confirm, Payable
  <2> QED
    BY <2>1, <2>2 DEF Asks, Latecomer
<1>10. CASE LateRefund(p)
  <2>1. pc'[p] = "refund" /\ local'[p] = [local[p] EXCEPT !.ref = p, !.amount = Total, !.subject = p]
    BY <1>10, <1>3, <1>6 DEF LateRefund
  <2>2. local'[p].amount = Total
    BY <2>1, <1>2 DEF Locals
  <2> QED
    BY <2>1, <2>2, <1>2 DEF Asks, Latecomer
<1>11. CASE WebhookPaid(p)
  <2>1. pc'[p] \in {"attempt", "done"}
    BY <1>11, <1>3 DEF WebhookPaid
  <2>2. PICK t \in Requests : local' = [local EXCEPT ![p] = [local[p] EXCEPT !.subject = t]]
    BY <1>11 DEF WebhookPaid
  <2>3. local'[p] = [local[p] EXCEPT !.subject = t]
    BY <2>2, <1>6
  <2>4. local'[p].subject = t /\ local'[p].amount = local[p].amount
    BY <2>3, <1>2 DEF Locals
  <2> QED
    BY <2>1, <2>4 DEF Asks, Latecomer
<1>12. CASE WebhookFailed(p) \/ WebhookUnclaim(p)
  <2>1. local' = local /\ pc'[p] \in {"unclaim", "done"}
    BY <1>12, <1>3 DEF WebhookFailed, WebhookUnclaim
  <2> QED
    BY <2>1, AsksOnward
<1>13. ASSUME NEW target, NEW amount \in 0 .. Total, ToWrite(p, target, amount) PROVE Asks(p)' /\ Latecomer(p)'
  <2>1. pc'[p] = "write" /\ local'[p] = [local[p] EXCEPT !.target = target, !.amount = amount,
                                               !.seen = order.status, !.stamps = order.stamps]
    BY <1>13, <1>3, <1>6 DEF ToWrite
  <2>2. local'[p].amount = amount
    BY <2>1, <1>2 DEF Locals
  <2> QED
    BY <2>1, <2>2 DEF Asks, Latecomer
<1>14. CASE StatusRead(p)
  <2>1. CASE pc'[p] \in {"done", "find"} /\ local' = local
    BY <2>1, AsksOnward
  <2>2. CASE pc'[p] = "read" /\ local'[p] = [local[p] EXCEPT !.amount = Total, !.next = "find"]
    <3>1. local'[p].amount = Total
      BY <2>2, <1>2 DEF Locals
    <3> QED
      BY <2>2, <3>1, <1>2 DEF Asks, Latecomer
  <2>3. CASE \E target \in Targets : ToWrite(p, target, Total)
    BY <2>3, <1>2, <1>13
  <2> QED
    BY <1>3, <1>6, <1>14, <2>1, <2>2, <2>3 DEF StatusRead
<1>15. CASE CancelRead(p)
  <2>1. CASE pc'[p] = "done" /\ local' = local
    BY <2>1, AsksOnward
  <2>2. ASSUME pc'[p] = "read", NEW fee \in Fees, NEW refund \in {"due", "waived"},
               local' = [local EXCEPT ![p] = [@ EXCEPT !.amount = AmountToRefund(fee, refund), !.refund = refund]]
        PROVE  Asks(p)' /\ Latecomer(p)'
    <3>1. AmountToRefund(fee, refund) \in 0 .. Total
      BY FeesAssumption, TotalAssumption DEF AmountToRefund
    <3>2. local'[p] = [local[p] EXCEPT !.amount = AmountToRefund(fee, refund), !.refund = refund]
      BY <2>2, <1>6
    <3>3. local'[p].amount = AmountToRefund(fee, refund)
      BY <3>2, <1>2 DEF Locals
    <3> QED
      BY <2>2, <3>1, <3>3 DEF Asks, Latecomer
  <2> QED
    BY <1>3, <1>15, <2>1, <2>2 DEF CancelRead
<1>16. CASE ChangeRead(p)
  <2>1. CASE pc'[p] = "done" /\ local' = local
    BY <2>1, AsksOnward
  <2>2. CASE ToWrite(p, Cancelled, local[p].amount)
    BY <2>2, <1>13 DEF Asks
  <2> QED
    BY <1>3, <1>16, <2>1, <2>2 DEF ChangeRead
<1>17. CASE StatusWrite(p) \/ ProviderRefund(p) \/ Settle(p) \/ FailRefund(p) \/ Abort(p)
  <2>1. local' = local /\ pc'[p] \in {"done", "find", "autoRead", "settle", "aborted"}
    BY <1>17, <1>2, <1>3 DEF StatusWrite, ProviderRefund, Settle, FailRefund, Abort
  <2> QED
    BY <2>1, AsksOnward
<1>18. ASSUME pc'[p] \in {"refund", "settle", "done", "find"}, local'[p].amount = local[p].amount
       PROVE  Asks(p)' /\ Latecomer(p)'
  BY <1>18 DEF Asks, Latecomer
<1>19. CASE AutoRefundRead(p)
  <2>1. pc'[p] \in {"refund", "done", "find"}
    BY <1>19, <1>2, <1>3 DEF AutoRefundRead
  <2>2. local'[p] = local[p] \/ local'[p] = [local[p] EXCEPT !.ref = order.paymentRef, !.subject = p]
    BY <1>19, <1>6 DEF AutoRefundRead
  <2>3. local'[p].amount = local[p].amount
    BY <2>2, <1>2 DEF Locals
  <2> QED
    BY <2>1, <2>3, <1>18
<1>20. CASE CompleteRequest(p)
  <2>1. pc'[p] = "settle"
    BY <1>20, <1>3 DEF CompleteRequest
  <2>2. PICK r \in Requests : local' = [local EXCEPT ![p] = [local[p] EXCEPT !.subject = r]]
    BY <1>20 DEF CompleteRequest
  <2>3. local'[p] = [local[p] EXCEPT !.subject = r]
    BY <2>2, <1>6
  <2>4. local'[p].amount = local[p].amount
    BY <2>3, <1>2 DEF Locals
  <2> QED
    BY <2>1, <2>4, <1>18
<1>21. CASE FindRefund(p)
  <2>1. CASE pc'[p] = "done" /\ local' = local
    BY <2>1, AsksOnward
  <2>2. CASE pc'[p] = "settle" /\ \E r \in OpenRefunds :
               local' = [local EXCEPT ![p] = [local[p] EXCEPT !.subject = r, !.next = "done"]]
    <3>1. PICK r \in OpenRefunds : local' = [local EXCEPT ![p] = [local[p] EXCEPT !.subject = r, !.next = "done"]]
      BY <2>2
    <3>2. local'[p] = [local[p] EXCEPT !.subject = r, !.next = "done"]
      BY <3>1, <1>6
    <3>3. local'[p].amount = local[p].amount
      BY <3>2, <1>2 DEF Locals
    <3> QED
      BY <2>2, <3>3, <1>18
  <2> QED
    BY <1>21, <1>3, <2>1, <2>2 DEF FindRefund
<1> QED
  BY <1>7, <1>8, <1>9, <1>10, <1>11, <1>12, <1>14, <1>15, <1>16, <1>17, <1>19, <1>20, <1>21
     DEF Charging, Webhook, Changing, Settling

\* It holds before any request arrives.
LEMMA FitBegins == Init => FitInv
<1> SUFFICES ASSUME Init PROVE FitInv
  OBVIOUS
<1>1. \A p \in Requests : /\ pc[p] = "new" /\ local[p].amount = 0
                          /\ refunds[p].cause = "none" /\ refunds[p].status = "none" /\ refunds[p].amount = 0
  BY DEF Init, NoRefund, NoLocals
<1> QED
  BY <1>1, TotalAssumption, MoneyInitially DEF FitInv, Asks, Latecomer, RefundFits

\* Every step keeps it.
LEMMA FitStep == FitInv /\ [Next]_vars => FitInv'
<1> SUFFICES ASSUME FitInv, [Next]_vars PROVE FitInv'
  OBVIOUS
<1>1. TypeOK /\ StatusInv /\ MoneyBase /\ \A p \in Requests : Own(p)
  BY DEF FitInv, MoneyInv, MoneyBase, StatusInv
<1>2. ASSUME NEW p \in Requests, pc'[p] = pc[p], local'[p] = local[p] PROVE Asks(p)' /\ Latecomer(p)'
  BY <1>1, <1>2, StatusKept DEF FitInv, Asks, Latecomer
<1>3. ASSUME NEW p \in Requests PROVE Asks(p)' /\ Latecomer(p)'
  <2>1. CASE UNCHANGED vars \/ Tick \/ Sweeping
    <3>1. pc' = pc /\ local' = local
      BY <2>1 DEF vars, rows, Tick, Sweeping, SweepRead, SweepRelease, SweepFails
    <3> QED
      BY <3>1, <1>2
  <2>2. ASSUME NEW q \in Requests, Charging(q) \/ Webhook(q) \/ Changing(q) \/ Settling(q) \/ Abort(q)
        PROVE  Asks(p)' /\ Latecomer(p)'
    <3>1. CASE q = p
      BY <1>1, <2>2, <3>1, AsksRequest DEF FitInv
    <3>2. CASE q # p
      BY <1>1, <1>2, <2>2, <3>2, OthersStay
    <3> QED
      BY <3>1, <3>2
  <2> QED
    BY <2>1, <2>2 DEF Next
<1>4. ASSUME NEW r \in Requests PROVE RefundFits(r)'
  <2>1. RefundMoves(r) /\ refunds \in [Requests -> RefundRows]
    BY <1>1, RefundsStep DEF TypeOK
  <2>2. CASE RefundKept(r)
    BY <2>2 DEF RefundKept, RefundFits, FitInv
  <2>3. CASE LateRefund(r)
    BY <2>1, <2>3 DEF LateRefund, PendingRefund, RefundFits
  <2>4. CASE Refunding(r)
    BY <2>1, <2>4 DEF Refunding, StatusWrite, PendingRefund, RefundFits
  <2> QED
    BY <2>1, <2>2, <2>3, <2>4 DEF RefundMoves
<1>5. MoneyInv'
  BY MoneyInductive DEF FitInv
<1> QED
  BY <1>3, <1>4, <1>5 DEF FitInv

-----------------------------------------------------------------------------
\* What OrderLife sees of the refunds.
LifeRefund == [r \in Requests |-> [cause |-> refunds[r].cause, amount |-> refunds[r].amount]]
LifeSettled == {r \in Requests : refunds[r].status = "COMPLETED"}

\* A step that leaves what it sees of the order alone.
SameOrder ==
  /\ order'.status = order.status /\ order'.paymentRef = order.paymentRef
  /\ released' = released

LEMMA LifeStays ==
  ASSUME SameOrder, LifeRefund' = LifeRefund, LifeSettled' = LifeSettled
  PROVE  UNCHANGED Life!life
  BY DEF SameOrder, LifeRefund, LifeSettled, Life!life

LEMMA RefundsStay ==
  ASSUME refunds' = refunds
  PROVE  LifeRefund' = LifeRefund /\ LifeSettled' = LifeSettled
  BY DEF LifeRefund, LifeSettled

\* One refund is recorded, and the others stay.
LEMMA LifeRecords ==
  ASSUME TypeOK, NEW r \in Requests, refunds[r].status = "none", RefundFits(r),
         NEW amount \in Nat, NEW cause \in {"cancellation", "late"},
         refunds' = [refunds EXCEPT ![r] = PendingRefund(amount, cause)]
  PROVE  /\ LifeRefund[r] = Life!NoneDue
         /\ LifeRefund' = [LifeRefund EXCEPT ![r] = Life!Due(cause, amount)]
         /\ LifeSettled' = LifeSettled
<1>1. refunds \in [Requests -> RefundRows]
  BY DEF TypeOK
<1>2. refunds[r].cause = "none" /\ refunds[r].amount = 0
  BY DEF RefundFits
<1>3. /\ PendingRefund(amount, cause).cause = cause /\ PendingRefund(amount, cause).amount = amount
      /\ PendingRefund(amount, cause).status = "PENDING"
  BY DEF PendingRefund
<1>4. refunds'[r] = PendingRefund(amount, cause) /\ \A q \in Requests \ {r} : refunds'[q] = refunds[q]
  BY <1>1
<1>5. LifeRefund[r] = Life!NoneDue
  BY <1>2 DEF LifeRefund, Life!NoneDue
<1>6. LifeRefund' = [LifeRefund EXCEPT ![r] = Life!Due(cause, amount)]
  BY <1>3, <1>4 DEF LifeRefund, Life!Due
<1>7. LifeSettled' = LifeSettled
  BY <1>3, <1>4 DEF LifeSettled
<1> QED
  BY <1>5, <1>6, <1>7

\* The transaction that confirms the order pays it, once.
LEMMA LifeConfirm ==
  ASSUME FitInv, NEW p \in Requests, Confirm(p)
  PROVE  [Life!Next]_(Life!life)
<1>1. order \in OrderRows /\ refunds' = refunds /\ released' = released
  BY DEF Confirm, FitInv, MoneyInv, MoneyBase, StatusInv, TypeOK
<1>2. LifeRefund' = LifeRefund /\ LifeSettled' = LifeSettled
  BY <1>1, RefundsStay
<1>3. CASE order' = order
  BY <1>1, <1>2, <1>3, LifeStays DEF SameOrder
<1>4. CASE order.status = Pending
           /\ order' = [order EXCEPT !.status = Confirmed, !.claimedAt = None,
                                     !.paymentRef = local[p].subject, !.stamps = @ \cup {"paidAt"}]
  <2>1. local[p].subject \in Requests
    BY DEF Confirm, At, FitInv, Asks
  <2>2. order'.status = Confirmed /\ order'.paymentRef = local[p].subject
    BY <1>1, <1>4 DEF OrderRows
  <2>3. Life!Pay(local[p].subject)
    BY <1>1, <1>2, <1>4, <2>2 DEF Life!Pay, LifeRefund, LifeSettled, Life!Pending, Life!Confirmed, Pending, Confirmed
  <2> QED
    BY <2>1, <2>3 DEF Life!Next
<1> QED
  BY <1>3, <1>4 DEF Confirm, Payable

\* A late charge's refund.
LEMMA LifeLate ==
  ASSUME FitInv, NEW p \in Requests, LateRefund(p)
  PROVE  [Life!Next]_(Life!life)
<1>1. pc[p] = "late" /\ refunds' = [refunds EXCEPT ![p] = PendingRefund(Total, "late")]
      /\ order' = order /\ released' = released
  BY DEF LateRefund, At
<1>2. order.status # Pending /\ refunds[p].status = "none" /\ RefundFits(p) /\ TypeOK
  BY <1>1 DEF FitInv, Latecomer, MoneyInv, MoneyBase, NoRefundYet, Early, StatusInv
<1>3. /\ LifeRefund[p] = Life!NoneDue
      /\ LifeRefund' = [LifeRefund EXCEPT ![p] = Life!Due("late", Total)]
      /\ LifeSettled' = LifeSettled
  BY <1>1, <1>2, LifeRecords, TotalAssumption
<1>4. Life!ReturnLate(p)
  BY <1>1, <1>2, <1>3 DEF Life!ReturnLate, LifeRefund, LifeSettled, Life!Pending, Pending
<1> QED
  BY <1>4 DEF Life!Next

\* A cancellation, with its refund if it has one.
LEMMA LifeCancels ==
  ASSUME FitInv, order.status \in Statuses \ RestockStatuses, order'.status = Cancelled,
         order'.paymentRef = order.paymentRef, released' = released + 1, LifeSettled' = LifeSettled,
         \/ LifeRefund' = LifeRefund
         \/ /\ order.status \in PaidStatuses
            /\ \E r \in Requests, n \in 1 .. Total :
                 /\ LifeRefund[r] = Life!NoneDue
                 /\ LifeRefund' = [LifeRefund EXCEPT ![r] = Life!Due("cancellation", n)]
  PROVE  [Life!Next]_(Life!life)
<1>1. order.status \notin Life!RestockStatuses /\ order'.status = Life!Cancelled
  BY DEF Life!RestockStatuses, Life!Cancelled, Life!Refunded, RestockStatuses, Cancelled, Refunded
<1>2. order.status \in PaidStatuses => order.status \in Life!PaidStatuses
  BY DEF Life!PaidStatuses, Life!Fulfilment, Life!Confirmed, Life!Processing, Life!Shipped, Life!Delivered,
     PaidStatuses, Fulfilment, Confirmed, Processing, Shipped, Delivered
<1>3. CASE LifeRefund' = LifeRefund
  <2>1. Life!Cancel
    BY <1>1, <1>3 DEF Life!Cancel, LifeRefund, LifeSettled
  <2> QED
    BY <2>1 DEF Life!Next
<1>4. CASE /\ order.status \in PaidStatuses
           /\ \E r \in Requests, n \in 1 .. Total :
                /\ LifeRefund[r] = Life!NoneDue
                /\ LifeRefund' = [LifeRefund EXCEPT ![r] = Life!Due("cancellation", n)]
  <2>1. Life!Cancel
    BY <1>1, <1>2, <1>4 DEF Life!Cancel, LifeRefund, LifeSettled
  <2> QED
    BY <2>1 DEF Life!Next
<1> QED
  BY <1>3, <1>4

\* The write of a status that was decided on: nothing, a move or a cancellation.
LEMMA LifeWrites ==
  ASSUME FitInv, NEW p \in Requests, StatusWrite(p)
  PROVE  [Life!Next]_(Life!life)
<1>1. order \in OrderRows /\ refunds \in [Requests -> RefundRows] /\ TypeOK /\ pc[p] = "write"
      /\ local[p] \in Locals
  BY DEF StatusWrite, At, FitInv, MoneyInv, MoneyBase, StatusInv, TypeOK
<1>2. Decided(local[p])
  BY <1>1 DEF FitInv, MoneyInv, MoneyBase, StatusInv, WritesDecided
<1>3. CASE ~SameStatus(p)
  <2>1. order' = order /\ released' = released /\ refunds' = refunds
    BY <1>3 DEF StatusWrite
  <2> QED
    BY <2>1, RefundsStay, LifeStays DEF SameOrder
<1>4. CASE SameStatus(p)
  <2>1. /\ order.status = local[p].seen
        /\ order' = [order EXCEPT !.status = local[p].target,
                       !.stamps = IF local[p].target # local[p].seen
                                    THEN Stamped(@, local[p].stamps, local[p].target) ELSE @]
        /\ released' = IF Restocks(p) THEN released + 1 ELSE released
        /\ refunds' = IF RefundDue(p)
                        THEN [refunds EXCEPT ![p] = PendingRefund(local[p].amount, "cancellation")]
                        ELSE refunds
    BY <1>4 DEF StatusWrite, SameStatus
  <2>2. order'.status = local[p].target /\ order'.paymentRef = order.paymentRef
    BY <1>1, <2>1 DEF OrderRows
  <2>3. order.status \in Statuses /\ local[p].target \in Statuses
    BY <1>1 DEF OrderRows, Locals
  <2>4. CASE local[p].target = order.status
    <3>1. ~Restocks(p) /\ ~RefundDue(p)
      BY <2>1, <2>4 DEF Restocks, RefundDue
    <3>2. refunds' = refunds /\ released' = released
      BY <2>1, <3>1
    <3> QED
      BY <2>2, <2>4, <3>2, RefundsStay, LifeStays DEF SameOrder
  <2>5. CASE local[p].target # order.status
    <3>1. CanTransition(order.status, local[p].target) /\ local[p].target # Refunded
      BY <1>2, <2>1, <2>5 DEF Decided
    <3>2. CASE local[p].target = Cancelled
      <4>1. order.status \notin RestockStatuses /\ Restocks(p)
        BY <2>1, <3>1, <3>2 DEF CanTransition, Restocks, RestockStatuses, Fulfilment, Pending, Confirmed,
           Processing, Shipped, Delivered, Cancelled, Refunded
      <4>2. CASE ~RefundDue(p)
        <5>1. LifeRefund' = LifeRefund /\ LifeSettled' = LifeSettled
          BY <2>1, <4>2, RefundsStay
        <5> QED
          BY <2>1, <2>2, <2>3, <3>2, <4>1, <5>1, LifeCancels
      <4>3. CASE RefundDue(p)
        <5>1. local[p].amount \in 1 .. Total /\ order.status \in PaidStatuses
          BY <2>1, <4>3, TotalAssumption DEF RefundDue, FitInv, Asks
        <5>2. refunds[p].status = "none" /\ RefundFits(p)
          BY <1>1 DEF FitInv, MoneyInv, MoneyBase, NoRefundYet, Early
        <5>3. local[p].amount \in Nat /\ refunds' = [refunds EXCEPT ![p] = PendingRefund(local[p].amount, "cancellation")]
          BY <2>1, <4>3, <5>1, TotalAssumption
        <5>4. /\ LifeRefund[p] = Life!NoneDue
              /\ LifeRefund' = [LifeRefund EXCEPT ![p] = Life!Due("cancellation", local[p].amount)]
              /\ LifeSettled' = LifeSettled
          BY <1>1, <5>2, <5>3, LifeRecords
        <5> QED
          BY <2>1, <2>2, <2>3, <3>2, <4>1, <5>1, <5>4, LifeCancels
      <4> QED
        BY <4>2, <4>3
    <3>3. CASE local[p].target \in Fulfilment
      <4>1. ~Restocks(p) /\ ~RefundDue(p)
        BY <3>3 DEF Restocks, RefundDue, RestockStatuses, Fulfilment, Confirmed, Processing, Shipped, Delivered,
           Cancelled, Refunded
      <4>2. refunds' = refunds /\ released' = released
        BY <2>1, <4>1
      <4>3. local[p].target \in Life!Statuses /\ local[p].target \in Life!Fulfilment
        BY <3>3 DEF Life!Statuses, Life!Fulfilment, Life!Confirmed, Life!Processing, Life!Shipped, Life!Delivered,
           Fulfilment, Confirmed, Processing, Shipped, Delivered
      <4>4. Life!CanTransition(order.status, local[p].target)
        BY <3>1 DEF CanTransition, Fulfilment, RestockStatuses, Pending, Confirmed, Processing, Shipped, Delivered,
           Cancelled, Refunded, Life!CanTransition, Life!Fulfilment, Life!RestockStatuses, Life!Pending,
           Life!Confirmed, Life!Processing, Life!Shipped, Life!Delivered, Life!Cancelled, Life!Refunded
      <4>5. LifeRefund' = LifeRefund /\ LifeSettled' = LifeSettled
        BY <4>2, RefundsStay
      <4>6. Life!MoveTo(local[p].target)
        BY <2>2, <4>2, <4>3, <4>4, <4>5 DEF Life!MoveTo, LifeRefund, LifeSettled
      <4> QED
        BY <4>3, <4>6 DEF Life!Next
    <3>4. local[p].target = Cancelled \/ local[p].target \in Fulfilment
      BY <3>1 DEF CanTransition, RestockStatuses, Fulfilment
    <3> QED
      BY <3>2, <3>3, <3>4
  <2> QED
    BY <2>4, <2>5
<1> QED
  BY <1>3, <1>4

\* The sweeper cancels an unpaid order, or nothing.
LEMMA LifeSweeps ==
  ASSUME FitInv, Sweeping
  PROVE  [Life!Next]_(Life!life)
<1>1. order \in OrderRows /\ refunds' = refunds
  BY DEF Sweeping, SweepRead, SweepRelease, SweepFails, rows, FitInv, MoneyInv, MoneyBase, StatusInv, TypeOK
<1>2. LifeRefund' = LifeRefund /\ LifeSettled' = LifeSettled
  BY <1>1, RefundsStay
<1>3. CASE order' = order /\ released' = released
  BY <1>2, <1>3, LifeStays DEF SameOrder
<1>4. CASE SweepRelease /\ Sweepable /\ released' = released + 1
           /\ order' = [order EXCEPT !.status = Cancelled, !.stamps = @ \cup {"cancelledAt"}]
  <2>1. order.status \in Statuses \ RestockStatuses
    BY <1>4 DEF Sweepable, Claimable, Statuses, RestockStatuses, Pending, Cancelled, Refunded
  <2>2. order'.status = Cancelled /\ order'.paymentRef = order.paymentRef
    BY <1>1, <1>4 DEF OrderRows
  <2> QED
    BY <1>2, <1>4, <2>1, <2>2, LifeCancels
<1> QED
  BY <1>3, <1>4 DEF Sweeping, SweepRead, SweepRelease, SweepFails, rows

\* An open refund is settled, and with it a cancelled order; or nothing.
LEMMA LifeSettles ==
  ASSUME FitInv, NEW p \in Requests, Settle(p)
  PROVE  [Life!Next]_(Life!life)
<1>1. /\ order \in OrderRows /\ refunds \in [Requests -> RefundRows] /\ TypeOK /\ pc[p] = "settle"
      /\ released' = released
  BY DEF Settle, At, FitInv, MoneyInv, MoneyBase, StatusInv, TypeOK
<1>2. PICK r \in Requests : r = local[p].subject
  BY <1>1 DEF FitInv, MoneyInv, MoneyBase, Own
<1>3. CASE ~Open(r)
  BY <1>1, <1>2, <1>3, RefundsStay, LifeStays DEF Settle, SameOrder
<1>4. CASE Open(r)
  <2>1. /\ refunds' = [refunds EXCEPT ![r].status = "COMPLETED"]
        /\ IF order.status = Cancelled THEN order' = [order EXCEPT !.status = Refunded] ELSE order' = order
    BY <1>2, <1>4 DEF Settle
  <2>2. /\ refunds'[r] = [refunds[r] EXCEPT !.status = "COMPLETED"]
        /\ \A q \in Requests \ {r} : refunds'[q] = refunds[q]
    BY <1>1, <2>1
  <2>3. refunds'[r].cause = refunds[r].cause /\ refunds'[r].amount = refunds[r].amount /\ refunds'[r].status = "COMPLETED"
    <3>1. refunds[r] \in RefundRows
      BY <1>1
    <3> QED
      BY <2>2, <3>1 DEF RefundRows
  <2>4. LifeRefund' = LifeRefund
    BY <2>2, <2>3 DEF LifeRefund
  <2>5. LifeSettled' = LifeSettled \cup {r} /\ r \notin LifeSettled
    BY <1>4, <2>2, <2>3 DEF LifeSettled, Open
  <2>6. LifeRefund[r].cause # "none"
    BY <1>4 DEF LifeRefund, Open, FitInv, RefundFits
  <2>7. order'.status = (IF order.status = Cancelled THEN Refunded ELSE order.status) /\ order'.paymentRef = order.paymentRef
    BY <1>1, <2>1 DEF OrderRows
  <2>8. Life!Settle(r)
    BY <1>1, <2>4, <2>5, <2>6, <2>7 DEF Life!Settle, LifeRefund, LifeSettled, Life!Cancelled, Life!Refunded,
       Cancelled, Refunded
  <2> QED
    BY <2>8 DEF Life!Next
<1> QED
  BY <1>3, <1>4

\* A refund is marked as failed: it stays open.
LEMMA LifeFails ==
  ASSUME FitInv, NEW p \in Requests, FailRefund(p)
  PROVE  UNCHANGED Life!life
<1>1. order' = order /\ released' = released /\ refunds \in [Requests -> RefundRows]
  BY DEF FailRefund, FitInv, MoneyInv, MoneyBase, StatusInv, TypeOK
<1>2. CASE refunds' = refunds
  BY <1>1, <1>2, RefundsStay, LifeStays DEF SameOrder
<1>3. ASSUME NEW r \in Requests, refunds[r].status = "PENDING", refunds' = [refunds EXCEPT ![r].status = "FAILED"]
      PROVE  UNCHANGED Life!life
  <2>1. /\ refunds'[r] = [refunds[r] EXCEPT !.status = "FAILED"]
        /\ \A q \in Requests \ {r} : refunds'[q] = refunds[q]
    BY <1>1, <1>3
  <2>2. refunds'[r].cause = refunds[r].cause /\ refunds'[r].amount = refunds[r].amount /\ refunds'[r].status = "FAILED"
    <3>1. refunds[r] \in RefundRows
      BY <1>1
    <3> QED
      BY <2>1, <3>1 DEF RefundRows
  <2>3. LifeRefund' = LifeRefund
    BY <2>1, <2>2 DEF LifeRefund
  <2>4. LifeSettled' = LifeSettled
    BY <1>3, <2>1, <2>2 DEF LifeSettled
  <2> QED
    BY <1>1, <2>3, <2>4, LifeStays DEF SameOrder
<1> QED
  BY <1>2, <1>3 DEF FailRefund

\* The claim of a payment is no part of what OrderLife sees.
LEMMA LifeUnclaims ==
  ASSUME FitInv, released' = released, refunds' = refunds,
         \/ order' = order
         \/ \E at \in Nat \cup {None} : order' = [order EXCEPT !.claimedAt = at]
  PROVE  UNCHANGED Life!life
<1>1. order \in OrderRows
  BY DEF FitInv, MoneyInv, MoneyBase, StatusInv, TypeOK
<1>2. order'.status = order.status /\ order'.paymentRef = order.paymentRef
  BY <1>1 DEF OrderRows
<1> QED
  BY <1>2, RefundsStay, LifeStays DEF SameOrder

LEMMA LifeStep ==
  ASSUME FitInv, [Next]_vars
  PROVE  [Life!Next]_(Life!life)
<1>1. CASE UNCHANGED vars \/ Tick
  BY <1>1, LifeUnclaims DEF vars, rows, Tick
<1>2. CASE Sweeping
  BY <1>2, LifeSweeps
<1>3. local \in [Requests -> Locals]
  BY DEF FitInv, MoneyInv, MoneyBase, StatusInv, TypeOK
<1>4. ASSUME NEW p \in Requests, Charging(p) PROVE [Life!Next]_(Life!life)
  <2>1. CASE ChargeClaim(p)
    <3>1. local[p].at \in Nat
      BY <1>3 DEF Locals
    <3> QED
      BY <2>1, <3>1, LifeUnclaims DEF ChargeClaim
  <2>2. CASE ChargeDeclined(p)
    BY <2>2, LifeUnclaims DEF ChargeDeclined, ReleaseClaim
  <2>3. CASE ChargeRead(p) \/ CreateAttempt(p) \/ ProviderCharge(p)
    BY <2>3, LifeUnclaims DEF ChargeRead, CreateAttempt, ProviderCharge, rows
  <2> QED
    BY <1>4, <2>1, <2>2, <2>3, LifeConfirm, LifeLate DEF Charging
<1>5. ASSUME NEW p \in Requests, Webhook(p) PROVE [Life!Next]_(Life!life)
  BY <1>5, LifeUnclaims DEF Webhook, WebhookPaid, WebhookFailed, WebhookUnclaim, ReleaseClaim, rows
<1>6. ASSUME NEW p \in Requests, Changing(p) PROVE [Life!Next]_(Life!life)
  <2>1. CASE StatusRead(p) \/ CancelRead(p) \/ ChangeRead(p)
    BY <2>1, LifeUnclaims DEF StatusRead, CancelRead, ChangeRead, rows
  <2> QED
    BY <1>6, <2>1, LifeWrites DEF Changing
<1>7. ASSUME NEW p \in Requests, Settling(p) PROVE [Life!Next]_(Life!life)
  <2>1. CASE AutoRefundRead(p) \/ ProviderRefund(p) \/ CompleteRequest(p) \/ FindRefund(p)
    BY <2>1, LifeUnclaims DEF AutoRefundRead, ProviderRefund, CompleteRequest, FindRefund, rows
  <2> QED
    BY <1>7, <2>1, LifeSettles, LifeFails DEF Settling
<1>8. ASSUME NEW p \in Requests, Abort(p) PROVE [Life!Next]_(Life!life)
  BY <1>8, LifeUnclaims DEF Abort, rows
<1> QED
  BY <1>1, <1>2, <1>4, <1>5, <1>6, <1>7, <1>8 DEF Next

LEMMA LifeBegins == Init => Life!Init
<1> SUFFICES ASSUME Init PROVE Life!Init
  OBVIOUS
<1>1. order.status = Pending /\ order.paymentRef = None /\ released = 0
  BY DEF Init
<1>2. \A r \in Requests : refunds[r].status = "none" /\ refunds[r].cause = "none" /\ refunds[r].amount = 0
  BY DEF Init, NoRefund
<1>3. LifeSettled = {}
  BY <1>2 DEF LifeSettled
<1>4. LifeRefund = [r \in Requests |-> Life!NoneDue]
  BY <1>2 DEF LifeRefund, Life!NoneDue
<1> QED
  BY <1>1, <1>3, <1>4 DEF Life!Init, LifeRefund, LifeSettled, Life!Pending, Pending

\* Whatever the handlers interleave, the rows of an order live the life that
\* OrderLife promises, for any requests, traffic, fees, total and times.
THEOREM LifeCorrect == Spec => ImplementsLife
<1> QED
  BY FitBegins, FitStep, LifeBegins, LifeStep, PTL DEF Spec, ImplementsLife, Life!Spec

\* OrderLife with what was proved of it.
LifeFacts == INSTANCE OrderLifeProofs WITH
  Ids     <- Requests,
  status  <- order.status,
  payment <- order.paymentRef,
  refund  <- [r \in Requests |-> [cause |-> refunds[r].cause, amount |-> refunds[r].amount]],
  settled <- {r \in Requests : refunds[r].status = "COMPLETED"}

\* The same module under another name.
LEMMA SameLife == ImplementsLife => LifeFacts!Spec
<1>1. Life!Init => LifeFacts!Init
  BY DEF Life!Init, LifeFacts!Init, Life!NoneDue, LifeFacts!NoneDue, Life!Pending, LifeFacts!Pending
<1>2. Life!Next => LifeFacts!Next
  <2>1. \A c \in Requests : Life!Pay(c) => LifeFacts!Pay(c)
    BY DEF Life!Pay, LifeFacts!Pay, Life!Pending, LifeFacts!Pending, Life!Confirmed, LifeFacts!Confirmed
  <2>2. \A c \in Requests : Life!ReturnLate(c) => LifeFacts!ReturnLate(c)
    BY DEF Life!ReturnLate, LifeFacts!ReturnLate, Life!Pending, LifeFacts!Pending, Life!NoneDue,
       LifeFacts!NoneDue, Life!Due, LifeFacts!Due
  <2>3. \A c \in Requests : Life!Settle(c) => LifeFacts!Settle(c)
    BY DEF Life!Settle, LifeFacts!Settle, Life!Cancelled, LifeFacts!Cancelled, Life!Refunded,
       LifeFacts!Refunded
  <2>4. \A to : Life!MoveTo(to) => LifeFacts!MoveTo(to)
    BY DEF Life!MoveTo, LifeFacts!MoveTo, Life!CanTransition, LifeFacts!CanTransition, Life!Fulfilment,
       LifeFacts!Fulfilment, Life!RestockStatuses, LifeFacts!RestockStatuses, Life!Pending,
       LifeFacts!Pending, Life!Confirmed, LifeFacts!Confirmed, Life!Processing, LifeFacts!Processing,
       Life!Shipped, LifeFacts!Shipped, Life!Delivered, LifeFacts!Delivered, Life!Cancelled,
       LifeFacts!Cancelled, Life!Refunded, LifeFacts!Refunded
  <2>5. Life!Cancel => LifeFacts!Cancel
    BY DEF Life!Cancel, LifeFacts!Cancel, Life!RestockStatuses, LifeFacts!RestockStatuses, Life!PaidStatuses,
       LifeFacts!PaidStatuses, Life!Fulfilment, LifeFacts!Fulfilment, Life!NoneDue, LifeFacts!NoneDue,
       Life!Due, LifeFacts!Due, Life!Pending, LifeFacts!Pending, Life!Confirmed, LifeFacts!Confirmed,
       Life!Processing, LifeFacts!Processing, Life!Shipped, LifeFacts!Shipped, Life!Delivered,
       LifeFacts!Delivered, Life!Cancelled, LifeFacts!Cancelled, Life!Refunded, LifeFacts!Refunded
  <2>6. Life!Statuses = LifeFacts!Statuses
    BY DEF Life!Statuses, LifeFacts!Statuses, Life!RestockStatuses, LifeFacts!RestockStatuses, Life!Fulfilment,
       LifeFacts!Fulfilment, Life!Pending, LifeFacts!Pending, Life!Confirmed, LifeFacts!Confirmed,
       Life!Processing, LifeFacts!Processing, Life!Shipped, LifeFacts!Shipped, Life!Delivered,
       LifeFacts!Delivered, Life!Cancelled, LifeFacts!Cancelled, Life!Refunded, LifeFacts!Refunded
  <2> QED
    BY <2>1, <2>2, <2>3, <2>4, <2>5, <2>6 DEF Life!Next, LifeFacts!Next
<1>3. [Life!Next]_(Life!life) => [LifeFacts!Next]_(LifeFacts!life)
  BY <1>2 DEF Life!life, LifeFacts!life
<1> QED
  BY <1>1, <1>3, PTL DEF ImplementsLife, Life!Spec, LifeFacts!Spec

\* An order is refunded at most once for its cancellation, only while its stock is
\* back, and nothing is refunded beyond its total: the handlers inherit it from
\* OrderLife, whatever they interleave.
THEOREM OneRefundCorrect ==
  Spec => [](/\ \A r, q \in Requests : HasCancellationRefund(r) /\ HasCancellationRefund(q) => r = q
             /\ \A r \in Requests : HasCancellationRefund(r) => released = 1
             /\ \A r \in Requests : refunds[r].amount \in 0 .. Total)
<1>1. LifeFacts!Spec => []LifeFacts!Accounts /\ []LifeFacts!CancelledOnce
  BY TotalAssumption, LifeFacts!AccountsCorrect, LifeFacts!CancelledOnceCorrect
<1>2. LifeFacts!Accounts /\ LifeFacts!CancelledOnce =>
        /\ \A r, q \in Requests : HasCancellationRefund(r) /\ HasCancellationRefund(q) => r = q
        /\ \A r \in Requests : HasCancellationRefund(r) => released = 1
        /\ \A r \in Requests : refunds[r].amount \in 0 .. Total
  BY DEF LifeFacts!Accounts, LifeFacts!CancelledOnce, HasCancellationRefund
<1> QED
  BY <1>1, <1>2, SameLife, LifeCorrect, PTL

-----------------------------------------------------------------------------
(* What the provider returned, while no payment webhook arrives.           *)

\* Without payment webhooks only charges charge and confirm.
ChargesAlone(p) ==
  /\ kind[p] # "paid"
  /\ pc[p] \in {"claim", "attempt", "provider", "confirm", "decline", "late"} => kind[p] = "charge"

\* Money of the charge t went back, or is on its way back.
GoesBack(t) == returned[t] # 0 \/ \E p \in Requests : pc[p] = "refund" /\ local[p].ref = t

\* A charge that is not through did not pay the order; the order's payment is
\* looked up by a refund of a cancelled order only; and a charge whose money goes
\* back is that of a cancelled order, or did not pay it and never will.
BackInv(t) ==
  /\ ChargesAlone(t)
  /\ pc[t] \in Early => order.paymentRef # t
  /\ pc[t] = "autoRead" => order.status \in RestockStatuses
  /\ GoesBack(t) => order.status \in RestockStatuses \/ (pc[t] \notin Early /\ order.paymentRef # t)

ReturnedInv == MoneyInv /\ \A t \in Requests : BackInv(t)

\* What a request's own step may do.
BackMove(p) ==
  /\ pc'[p] = "autoRead" => pc[p] = "autoRead" \/ Refunding(p)
  /\ pc'[p] = "refund" => \/ pc[p] = "refund" /\ local'[p] = local[p]
                          \/ pc[p] = "late" /\ local'[p].ref = p
                          \/ pc[p] = "autoRead" /\ local'[p].ref = order.paymentRef
  /\ ChargesAlone(p)'

\* A request's own step is such a move.
LEMMA BackRequest ==
  ASSUME "paid" \notin Traffic, TypeOK, NEW p \in Requests, ChargesAlone(p),
         Charging(p) \/ Webhook(p) \/ Changing(p) \/ Settling(p) \/ Abort(p)
  PROVE  BackMove(p)
<1>1. /\ local \in [Requests -> Locals] /\ pc \in [Requests -> Labels]
      /\ kind \in [Requests -> Kinds \cup {"none"}]
  BY DEF TypeOK
<1>2. local[p] \in Locals /\ local[p].next \in {"done", "find"}
  BY <1>1 DEF Locals
<1>3. \A label : Goto(p, label) => pc'[p] = label
  BY <1>1 DEF Goto
<1>4. \A k : Arrive(p, k) => kind'[p] = k /\ pc[p] = "new" /\ k # "paid"
  BY <1>1 DEF Arrive
<1>5. \A label : At(p, label) => kind'[p] = kind[p] /\ pc[p] = label
  BY DEF At
<1>6. \A l : local' = [local EXCEPT ![p] = l] => local'[p] = l
  BY <1>1
<1>7. CASE ChargeRead(p)
  <2>1. kind'[p] = "charge" /\ pc'[p] \in {"claim", "done"}
    BY <1>7, <1>3, <1>4 DEF ChargeRead
  <2> QED
    BY <2>1 DEF BackMove, ChargesAlone
<1>8. CASE ChargeClaim(p) \/ CreateAttempt(p) \/ ProviderCharge(p) \/ ChargeDeclined(p) \/ Confirm(p)
  <2>1. kind'[p] = kind[p] /\ pc[p] \in {"claim", "attempt", "provider", "decline", "confirm"}
    BY <1>8, <1>5 DEF ChargeClaim, CreateAttempt, ProviderCharge, ChargeDeclined, Confirm
  <2>2. pc'[p] \in {"attempt", "provider", "confirm", "decline", "late", "done"}
    BY <1>8, <1>3 DEF ChargeClaim, CreateAttempt, ProviderCharge, ChargeDeclined, Confirm, AfterUnconfirmed
  <2> QED
    BY <2>1, <2>2 DEF BackMove, ChargesAlone
<1>9. CASE LateRefund(p)
  <2>1. kind'[p] = kind[p] /\ pc[p] = "late" /\ pc'[p] = "refund"
        /\ local'[p] = [local[p] EXCEPT !.ref = p, !.amount = Total, !.subject = p]
    BY <1>9, <1>3, <1>5, <1>6 DEF LateRefund
  <2>2. local'[p].ref = p
    BY <2>1, <1>2 DEF Locals
  <2> QED
    BY <2>1, <2>2 DEF BackMove, ChargesAlone
<1>10. ASSUME kind'[p] # "paid",
              pc'[p] \in {"done", "unclaim", "write", "find", "read", "settle", "aborted"}
       PROVE  BackMove(p)
  BY <1>10 DEF BackMove, ChargesAlone
<1>11. CASE Webhook(p)
  <2>1. ~WebhookPaid(p)
    BY DEF WebhookPaid, Arrive
  <2>2. kind'[p] # "paid" /\ pc'[p] \in {"unclaim", "done"}
    BY <1>11, <2>1, <1>3, <1>4, <1>5 DEF Webhook, WebhookFailed, WebhookUnclaim, ChargesAlone
  <2> QED
    BY <2>2, <1>10
<1>12. CASE StatusRead(p) \/ CancelRead(p) \/ ChangeRead(p)
  <2>1. pc'[p] \in {"done", "write", "find", "read"}
    BY <1>12, <1>3 DEF StatusRead, CancelRead, ChangeRead, ToWrite
  <2>2. kind'[p] # "paid"
    BY <1>12, <1>4, <1>5 DEF StatusRead, CancelRead, ChangeRead, ChargesAlone
  <2> QED
    BY <2>1, <2>2, <1>10
<1>13. CASE StatusWrite(p)
  <2>1. kind'[p] = kind[p] /\ pc'[p] \in {"done", "find", "autoRead"}
    BY <1>13, <1>2, <1>3, <1>5 DEF StatusWrite
  <2>2. pc'[p] = "autoRead" => Refunding(p)
    BY <1>2, <1>3, <1>13 DEF StatusWrite, Refunding
  <2> QED
    BY <2>1, <2>2 DEF BackMove, ChargesAlone
<1>14. CASE AutoRefundRead(p)
  <2>1. kind'[p] = kind[p] /\ pc[p] = "autoRead" /\ pc'[p] \in {"done", "find", "refund"}
    BY <1>14, <1>2, <1>3, <1>5 DEF AutoRefundRead
  <2>2. pc'[p] = "refund" => local'[p].ref = order.paymentRef
    <3>1. SUFFICES ASSUME pc'[p] = "refund" PROVE local'[p].ref = order.paymentRef
      OBVIOUS
    <3>2. local'[p] = [local[p] EXCEPT !.ref = order.paymentRef, !.subject = p]
      BY <1>14, <1>2, <1>3, <1>6, <3>1 DEF AutoRefundRead
    <3> QED
      BY <3>2, <1>2 DEF Locals
  <2> QED
    BY <2>1, <2>2 DEF BackMove, ChargesAlone
<1>15. CASE ProviderRefund(p) \/ Settle(p) \/ FindRefund(p) \/ Abort(p)
  <2>1. kind'[p] = kind[p] /\ pc'[p] \in {"done", "find", "settle", "aborted"}
    BY <1>15, <1>2, <1>3, <1>5 DEF ProviderRefund, Settle, FindRefund, Abort
  <2> QED
    BY <2>1, <1>10 DEF ChargesAlone
<1>16. CASE CompleteRequest(p) \/ FailRefund(p)
  <2>1. kind'[p] # "paid" /\ pc'[p] \in {"done", "settle"}
    BY <1>16, <1>3, <1>4 DEF CompleteRequest, FailRefund
  <2> QED
    BY <2>1, <1>10
<1> QED
  BY <1>7, <1>8, <1>9, <1>11, <1>12, <1>13, <1>14, <1>15, <1>16 DEF Charging, Changing, Settling

\* The order's payment is set by the charge that confirms it.
LEMMA PaidByConfirm ==
  ASSUME TypeOK, [Next]_vars, order'.paymentRef # order.paymentRef
  PROVE  \E p \in Requests : Confirm(p) /\ Payable /\ order'.paymentRef = local[p].subject
<1>1. order \in OrderRows /\ ~(order' = order)
  BY DEF TypeOK
<1>2. ~ReleaseClaim
  BY <1>1 DEF ReleaseClaim, OrderRows
<1>3. ~(UNCHANGED vars) /\ ~Tick /\ ~SweepRead /\ ~SweepFails
  BY <1>1 DEF vars, rows, Tick, SweepRead, SweepFails
<1>4. ~SweepRelease
  BY <1>1 DEF SweepRelease, OrderRows
<1>5. ASSUME NEW p \in Requests, Charging(p) PROVE Confirm(p) /\ Payable /\ order'.paymentRef = local[p].subject
  <2>1. ~ChargeClaim(p)
    BY <1>1 DEF ChargeClaim, OrderRows
  <2>2. Confirm(p)
    BY <1>1, <1>2, <1>5, <2>1 DEF Charging, ChargeRead, CreateAttempt, ProviderCharge, ChargeDeclined, LateRefund, rows
  <2>3. Payable
    BY <1>1, <2>2 DEF Confirm
  <2> QED
    BY <1>1, <2>2, <2>3 DEF Confirm, OrderRows
<1>6. ASSUME NEW p \in Requests PROVE ~Webhook(p)
  BY <1>1, <1>2 DEF Webhook, WebhookPaid, WebhookFailed, WebhookUnclaim, rows
<1>7. ASSUME NEW p \in Requests PROVE ~Changing(p)
  <2>1. ~StatusWrite(p)
    BY <1>1 DEF StatusWrite, OrderRows
  <2> QED
    BY <1>1, <2>1 DEF Changing, StatusRead, CancelRead, ChangeRead, rows
<1>8. ASSUME NEW p \in Requests PROVE ~Settling(p)
  <2>1. ~Settle(p)
    BY <1>1 DEF Settle, OrderRows
  <2> QED
    BY <1>1, <2>1 DEF Settling, AutoRefundRead, ProviderRefund, CompleteRequest, FindRefund, FailRefund, rows
<1>9. ASSUME NEW p \in Requests PROVE ~Abort(p)
  BY <1>1 DEF Abort, rows
<1> QED
  BY <1>3, <1>4, <1>5, <1>6, <1>7, <1>8, <1>9 DEF Next, Sweeping

\* The provider returns money of the charge a refund names, the amount it names.
LEMMA ReturnedMoves ==
  ASSUME TypeOK, [Next]_vars, NEW t \in Requests, returned'[t] # returned[t]
  PROVE  \E p \in Requests : /\ ProviderRefund(p) /\ pc[p] = "refund" /\ local[p].ref = t
                            /\ returned'[t] = returned[t] + local[p].amount
<1>1. returned \in [Requests -> Nat] /\ ~(returned' = returned)
  BY DEF TypeOK
<1>2. ~(UNCHANGED vars) /\ ~Tick /\ ~Sweeping
  BY <1>1 DEF vars, provider, Tick, Sweeping, SweepRead, SweepRelease, SweepFails
<1>3. ASSUME NEW p \in Requests PROVE ~Charging(p) /\ ~Webhook(p) /\ ~Changing(p) /\ ~Abort(p)
  <2>1. ~Charging(p)
    BY <1>1 DEF Charging, ChargeRead, ChargeClaim, CreateAttempt, ProviderCharge, ChargeDeclined, Confirm, LateRefund, provider
  <2>2. ~Webhook(p)
    BY <1>1 DEF Webhook, WebhookPaid, WebhookFailed, WebhookUnclaim, provider
  <2>3. ~Changing(p)
    BY <1>1 DEF Changing, StatusRead, CancelRead, ChangeRead, StatusWrite, provider
  <2>4. ~Abort(p)
    BY <1>1 DEF Abort, provider
  <2> QED
    BY <2>1, <2>2, <2>3, <2>4
<1>4. ASSUME NEW p \in Requests, Settling(p)
      PROVE  ProviderRefund(p) /\ pc[p] = "refund" /\ local[p].ref = t
             /\ returned'[t] = returned[t] + local[p].amount
  <2>1. ProviderRefund(p)
    BY <1>1, <1>4 DEF Settling, AutoRefundRead, CompleteRequest, FindRefund, Settle, FailRefund, provider
  <2>2. returned' = [returned EXCEPT ![local[p].ref] = @ + local[p].amount]
    BY <1>1, <2>1 DEF ProviderRefund
  <2>3. local[p].ref = t /\ returned'[t] = returned[t] + local[p].amount
    BY <1>1, <2>2
  <2> QED
    BY <2>1, <2>3 DEF ProviderRefund, At
<1> QED
  BY <1>2, <1>3, <1>4 DEF Next

\* And a step of anybody else is.
LEMMA BackMoves ==
  ASSUME "paid" \notin Traffic, TypeOK, [Next]_vars, NEW p \in Requests, ChargesAlone(p)
  PROVE  BackMove(p)
<1>1. ASSUME pc'[p] = pc[p], local'[p] = local[p], kind'[p] = kind[p] PROVE BackMove(p)
  BY <1>1 DEF BackMove, ChargesAlone
<1>2. CASE UNCHANGED vars \/ Tick \/ Sweeping
  <2>1. pc' = pc /\ local' = local /\ kind' = kind
    BY <1>2 DEF vars, Tick, Sweeping, SweepRead, SweepRelease, SweepFails
  <2> QED
    BY <2>1, <1>1
<1>3. ASSUME NEW q \in Requests, Charging(q) \/ Webhook(q) \/ Changing(q) \/ Settling(q) \/ Abort(q)
      PROVE  BackMove(p)
  <2>1. CASE q = p
    BY <1>3, <2>1, BackRequest
  <2>2. CASE q # p
    BY <1>1, <1>3, <2>2, OthersStay, OthersKeep
  <2> QED
    BY <2>1, <2>2
<1> QED
  BY <1>2, <1>3 DEF Next

\* Without payment webhooks it is the charge itself that becomes the order's payment.
LEMMA ConfirmsItself ==
  ASSUME ReturnedInv, [Next]_vars, NEW t \in Requests, order'.paymentRef = t, order.paymentRef # t
  PROVE  pc[t] = "confirm" /\ pc'[t] = "done"
<1>1. TypeOK /\ \A p \in Requests : Own(p) /\ BackInv(p)
  BY DEF ReturnedInv, MoneyInv, MoneyBase, StatusInv
<1>2. PICK p \in Requests : Confirm(p) /\ Payable /\ local[p].subject = t
  BY <1>1, PaidByConfirm
<1>3. pc[p] = "confirm" /\ pc'[p] = "done"
  BY <1>1, <1>2 DEF Confirm, At, Goto, TypeOK
<1>4. kind[p] = "charge"
  BY <1>1, <1>3 DEF BackInv, ChargesAlone
<1>5. p = t
  BY <1>1, <1>2, <1>3, <1>4 DEF Own
<1> QED
  BY <1>3, <1>5

\* Money goes back of cancelled orders, or of charges that never pay: every step keeps it.
LEMMA BackStep ==
  ASSUME "paid" \notin Traffic, ReturnedInv, [Next]_vars
  PROVE  ReturnedInv'
<1>1. TypeOK /\ StatusInv /\ MoneyBase /\ \A p \in Requests : Own(p) /\ OwnMove(p)
  BY OwnStep DEF ReturnedInv, MoneyInv, MoneyBase, StatusInv
<1>2. \A p \in Requests : BackInv(p) /\ BackMove(p)
  BY <1>1, BackMoves DEF ReturnedInv, BackInv
<1>3. ASSUME NEW t \in Requests, order'.paymentRef = t, order.paymentRef # t
      PROVE  pc[t] = "confirm" /\ pc'[t] = "done"
  BY <1>3, ConfirmsItself
<1>4. ASSUME NEW t \in Requests PROVE BackInv(t)'
  <2>1. ChargesAlone(t)'
    BY <1>2 DEF BackMove
  <2>2. pc'[t] \in Early => order'.paymentRef # t
    <3> SUFFICES ASSUME pc'[t] \in Early, order'.paymentRef = t PROVE FALSE
      OBVIOUS
    <3>1. order.paymentRef # t
      BY <1>1, <1>2 DEF OwnMove, BackInv
    <3> QED
      BY <1>3, <3>1 DEF Early
  <2>3. pc'[t] = "autoRead" => order'.status \in RestockStatuses
    BY <1>1, <1>2, StatusKept, RefundRecorded DEF BackInv, BackMove, RestockStatuses
  <2>4. CASE GoesBack(t)
    <3>1. CASE order.status \in RestockStatuses
      <4>1. order'.status \in RestockStatuses
        BY <1>1, <3>1, StatusKept
      <4> QED
        BY <2>1, <2>2, <2>3, <4>1 DEF BackInv
    <3>2. CASE pc[t] \notin Early /\ order.paymentRef # t
      <4>1. pc'[t] \notin Early
        BY <1>1, <3>2 DEF OwnMove
      <4>2. order'.paymentRef # t
        BY <1>3, <3>2 DEF Early
      <4> QED
        BY <2>1, <2>2, <2>3, <4>1, <4>2 DEF BackInv
    <3> QED
      BY <1>2, <2>4, <3>1, <3>2 DEF BackInv
  <2>5. CASE ~GoesBack(t)
    <3>1. returned'[t] = returned[t] /\ returned[t] = 0
      BY <1>1, <2>5, ReturnedMoves DEF GoesBack
    <3>2. ASSUME NEW p \in Requests, pc'[p] = "refund", local'[p].ref = t
          PROVE  order'.status \in RestockStatuses \/ (pc'[t] \notin Early /\ order'.paymentRef # t)
      <4>1. CASE pc[p] = "late" /\ local'[p].ref = p
        <5>1. p = t /\ order.paymentRef # t /\ pc[t] # "confirm"
          BY <1>2, <3>2, <4>1 DEF BackInv, Early
        <5>2. order'.paymentRef # t
          BY <1>3, <5>1
        <5> QED
          BY <3>2, <5>1, <5>2 DEF Early
      <4>2. CASE pc[p] = "autoRead"
        BY <1>1, <1>2, <4>2, StatusKept DEF BackInv
      <4>3. ~(pc[p] = "refund" /\ local'[p] = local[p])
        BY <2>5, <3>2 DEF GoesBack
      <4> QED
        BY <1>2, <3>2, <4>1, <4>2, <4>3 DEF BackMove
    <3>3. GoesBack(t)' => order'.status \in RestockStatuses \/ (pc'[t] \notin Early /\ order'.paymentRef # t)
      BY <3>1, <3>2 DEF GoesBack
    <3> QED
      BY <2>1, <2>2, <2>3, <3>3 DEF BackInv
  <2> QED
    BY <2>4, <2>5
<1> QED
  BY <1>4, MoneyInductive DEF ReturnedInv

\* Nothing has gone back before any request arrives.
LEMMA BackBegins == Init => ReturnedInv
<1> SUFFICES ASSUME Init PROVE ReturnedInv
  OBVIOUS
<1>1. \A t \in Requests : /\ pc[t] = "new" /\ kind[t] = "none" /\ returned[t] = 0
                          /\ order.paymentRef = None
  BY DEF Init
<1>2. \A t \in Requests : BackInv(t)
  BY <1>1, NoneAssumption DEF BackInv, ChargesAlone, GoesBack
<1> QED
  BY <1>2, MoneyInitially DEF ReturnedInv

\* "duplicate or reordered deliveries are harmless": without payment webhooks the
\* payment of an order that is being fulfilled is never returned, whatever charges,
\* late refunds, cancellations and settlements do. With one it is: run
\* returned_payment.
THEOREM ReturnedPaymentCorrect ==
  ASSUME "paid" \notin Traffic
  PROVE  Spec => []LiveOrderKeepsItsPayment
<1>1. ReturnedInv /\ [Next]_vars => ReturnedInv'
  BY BackStep
<1>2. ReturnedInv => LiveOrderKeepsItsPayment
  <2> SUFFICES ASSUME ReturnedInv, order.status \in Fulfilment, order.paymentRef # None
               PROVE  returned[order.paymentRef] = 0
    BY DEF LiveOrderKeepsItsPayment
  <2>1. order.paymentRef \in Requests
    BY DEF ReturnedInv, MoneyInv, MoneyBase, StatusInv, TypeOK, OrderRows
  <2>2. order.status \notin RestockStatuses
    BY DEF Fulfilment, RestockStatuses, Confirmed, Processing, Shipped, Delivered, Cancelled, Refunded
  <2> QED
    BY <2>1, <2>2 DEF ReturnedInv, BackInv, GoesBack
<1> QED
  BY <1>1, <1>2, BackBegins, PTL DEF Spec

\* p is about to have the provider return money of the charge t.
Gives(p, t) == pc[p] = "refund" /\ local[p].ref = t
\* The cancellation refund of q was tried.
Tried(q) == HasCancellationRefund(q) /\ pc[q] \notin {"autoRead", "refund"}

\* Who has money of the charge t returned is the charge itself, when it was late, or
\* the request that cancelled the order t paid; neither when it was done before.
ReturnedOf(t) ==
  /\ returned[t] \in 0 .. Total
  /\ pc[t] \in Early => returned[t] = 0
  /\ pc[t] = "autoRead" => HasCancellationRefund(t)
  /\ \A p \in Requests : Gives(p, t) =>
       /\ returned[t] = 0
       /\ \/ p = t /\ kind[t] = "charge" /\ order.paymentRef # t
          \/ HasCancellationRefund(p) /\ order.paymentRef = t
  /\ order.paymentRef = t /\ returned[t] # 0 => \E q \in Requests : Tried(q)

\* What ReturnedOf rests on.
OnceBasis ==
  /\ ReturnedInv /\ FitInv
  /\ \A r, q \in Requests : HasCancellationRefund(r) /\ HasCancellationRefund(q) => r = q
OnceInv == \A t \in Requests : ReturnedOf(t)

\* A cancellation's refund keeps its cause, and is not asked for again.
LEMMA CauseIsKept ==
  ASSUME MoneyBase, [Next]_vars, NEW q \in Requests, HasCancellationRefund(q)
  PROVE  HasCancellationRefund(q)' /\ pc[q] \notin Early
<1>1. pc[q] \notin Early
  BY DEF MoneyBase, NoRefundYet, HasCancellationRefund
<1> QED
  BY <1>1, RecordedIsKept DEF RefundKept, HasCancellationRefund

\* A refund that was tried stays so.
LEMMA TriedIsKept ==
  ASSUME MoneyBase, [Next]_vars, NEW q \in Requests, BackMove(q), Tried(q)
  PROVE  Tried(q)'
<1>1. HasCancellationRefund(q)' /\ pc[q] \notin Early
  BY CauseIsKept DEF Tried
<1>2. pc[q] # "late" /\ ~Refunding(q)
  BY <1>1 DEF Early, Refunding, StatusWrite, At
<1> QED
  BY <1>1, <1>2 DEF BackMove, Tried

\* Only one request at a time has money of a charge returned.
LEMMA GivesAlone ==
  ASSUME OnceBasis, OnceInv, NEW t \in Requests, NEW p \in Requests, NEW q \in Requests,
         Gives(p, t), Gives(q, t)
  PROVE  p = q
  BY DEF OnceBasis, OnceInv, ReturnedOf

\* Every step keeps what is known of the money returned of a charge.
LEMMA ReturnedStep ==
  ASSUME "paid" \notin Traffic, OnceBasis, OnceInv, [Next]_vars, NEW t \in Requests
  PROVE  ReturnedOf(t)'
<1>1. /\ TypeOK /\ StatusInv /\ MoneyBase /\ MoneyInv /\ ReturnedInv
      /\ \A p \in Requests : Own(p) /\ OwnMove(p) /\ BackInv(p) /\ Asks(p)
  BY OwnStep DEF OnceBasis, ReturnedInv, FitInv, MoneyInv, MoneyBase, StatusInv
<1>2. \A p \in Requests : BackMove(p) /\ ReturnedOf(p)
  BY <1>1, BackMoves DEF BackInv, OnceInv
<1>3. returned[t] \in 0 .. Total /\ Total \in Nat
  BY <1>2, TotalAssumption DEF ReturnedOf
<1>4. ASSUME returned'[t] # returned[t]
      PROVE  \E p \in Requests : /\ Gives(p, t) /\ returned'[t] = local[p].amount
                                 /\ pc'[p] \notin {"autoRead", "refund"}
  <2>1. PICK p \in Requests : /\ ProviderRefund(p) /\ pc[p] = "refund" /\ local[p].ref = t
                              /\ returned'[t] = returned[t] + local[p].amount
    BY <1>1, <1>4, ReturnedMoves
  <2>2. Gives(p, t) /\ returned[t] = 0
    BY <1>2, <2>1 DEF Gives, ReturnedOf
  <2>3. local[p].amount \in 0 .. Total
    BY <1>1 DEF Asks
  <2>4. returned'[t] = local[p].amount
    BY <2>1, <2>2, <2>3, <1>3
  <2>5. pc'[p] \notin {"autoRead", "refund"}
    <3>1. local[p].next \in {"done", "find"} /\ pc \in [Requests -> Labels]
      BY <1>1 DEF TypeOK, Locals
    <3> QED
      BY <2>1, <3>1 DEF ProviderRefund, Goto
  <2> QED
    BY <2>2, <2>4, <2>5
<1>5. returned'[t] \in 0 .. Total
  BY <1>1, <1>3, <1>4 DEF Asks
<1>6. ASSUME pc[t] \in Early PROVE returned'[t] = 0
  <2>1. ASSUME NEW p \in Requests, Gives(p, t) PROVE FALSE
    <3>1. order.paymentRef # t
      BY <1>1, <1>6 DEF BackInv
    <3>2. p = t
      BY <1>2, <2>1, <3>1 DEF ReturnedOf
    <3> QED
      BY <1>6, <2>1, <3>2 DEF Gives, Early
  <2> QED
    BY <1>2, <1>4, <1>6, <2>1 DEF ReturnedOf
<1>7. pc'[t] \in Early => returned'[t] = 0
  BY <1>1, <1>6 DEF OwnMove
<1>8. pc'[t] = "autoRead" => HasCancellationRefund(t)'
  <2>1. CASE pc[t] = "autoRead"
    BY <1>1, <1>2, <2>1, CauseIsKept DEF ReturnedOf
  <2>2. CASE Refunding(t)
    BY <1>1, <2>2, RefundRecorded DEF HasCancellationRefund
  <2> QED
    BY <1>2, <2>1, <2>2 DEF BackMove
<1>9. order.paymentRef = t => order'.paymentRef = t
  BY <1>1, NoneAssumption, PaymentIsKept
<1>10. ASSUME NEW p \in Requests, Gives(p, t)'
       PROVE  /\ returned'[t] = 0
              /\ \/ p = t /\ kind'[t] = "charge" /\ order'.paymentRef # t
                 \/ HasCancellationRefund(p)' /\ order'.paymentRef = t
  <2>1. CASE Gives(p, t)
    <3>1. returned'[t] = 0
      <4>1. returned[t] = 0
        BY <1>2, <2>1 DEF ReturnedOf
      <4>2. returned'[t] = returned[t]
        BY <1>4, <1>10, <2>1, GivesAlone DEF Gives
      <4> QED
        BY <4>1, <4>2
    <3>2. CASE p = t /\ kind[t] = "charge" /\ order.paymentRef # t
      <4>1. pc[t] = "refund"
        BY <2>1, <3>2 DEF Gives
      <4>2. kind'[t] = "charge"
        BY <1>1, <3>2, <4>1 DEF OwnMove
      <4>3. order'.paymentRef # t
        BY <1>1, <3>2, <4>1, ConfirmsItself
      <4> QED
        BY <3>1, <3>2, <4>2, <4>3
    <3>3. CASE HasCancellationRefund(p) /\ order.paymentRef = t
      BY <1>1, <1>9, <3>1, <3>3, CauseIsKept
    <3> QED
      BY <1>2, <2>1, <3>2, <3>3 DEF ReturnedOf
  <2>2. CASE pc[p] = "late" /\ local'[p].ref = p
    <3>1. p = t /\ pc[t] \in Early /\ kind[t] = "charge"
      BY <1>1, <1>10, <2>2 DEF Gives, Early, BackInv, ChargesAlone
    <3>2. kind'[t] = "charge"
      BY <1>1, <2>2, <3>1 DEF OwnMove
    <3>3. order'.paymentRef # t
      BY <1>1, <2>2, <3>1, ConfirmsItself DEF BackInv
    <3> QED
      BY <1>6, <3>1, <3>2, <3>3
  <2>3. CASE pc[p] = "autoRead" /\ local'[p].ref = order.paymentRef
    <3>1. order.paymentRef = t /\ HasCancellationRefund(p)
      BY <1>2, <1>10, <2>3 DEF Gives, ReturnedOf
    <3>2. returned[t] = 0
      BY <1>2, <2>3, <3>1 DEF OnceBasis, ReturnedOf, Tried
    <3>3. ASSUME NEW q \in Requests, Gives(q, t) PROVE FALSE
      <4>1. HasCancellationRefund(q)
        BY <1>2, <3>1, <3>3 DEF ReturnedOf
      <4>2. q = p
        BY <3>1, <4>1 DEF OnceBasis
      <4> QED
        BY <2>3, <3>3, <4>2 DEF Gives
    <3>4. returned'[t] = 0
      BY <1>4, <3>2, <3>3
    <3> QED
      BY <1>1, <1>9, <3>1, <3>4, CauseIsKept
  <2> QED
    BY <1>2, <1>10, <2>1, <2>2, <2>3 DEF Gives, BackMove
<1>11. ASSUME order'.paymentRef = t, returned'[t] # 0 PROVE \E q \in Requests : Tried(q)'
  <2>1. order.paymentRef = t
    BY <1>1, <1>6, <1>11, ConfirmsItself DEF Early
  <2>2. CASE returned[t] # 0
    <3>1. PICK q \in Requests : Tried(q)
      BY <1>2, <2>1, <2>2 DEF ReturnedOf
    <3> QED
      BY <1>1, <1>2, <3>1, TriedIsKept
  <2>3. CASE returned[t] = 0
    <3>1. PICK p \in Requests : Gives(p, t) /\ pc'[p] \notin {"autoRead", "refund"}
      BY <1>4, <1>11, <2>3
    <3>2. HasCancellationRefund(p)
      BY <1>2, <2>1, <3>1 DEF ReturnedOf
    <3>3. Tried(p)'
      BY <1>1, <3>1, <3>2, CauseIsKept DEF Tried
    <3> QED
      BY <3>3
  <2> QED
    BY <2>2, <2>3
<1> QED
  BY <1>5, <1>7, <1>8, <1>10, <1>11 DEF ReturnedOf

\* Without payment webhooks the provider is never made to return more of a charge than
\* the order's total: the late charge's refund, the cancellation's and their retries
\* are at most one (refundLateCharge, changeStatus, tryAutoRefund). What an admin
\* settles by hand in the provider's dashboard is not counted.
THEOREM ReturnedOnceCorrect ==
  ASSUME "paid" \notin Traffic
  PROVE  Spec => [](\A t \in Requests : returned[t] <= Total)
<1>1. Init => OnceInv
  <2> SUFFICES ASSUME Init PROVE OnceInv
    OBVIOUS
  <2>1. \A t \in Requests : pc[t] = "new" /\ returned[t] = 0
    BY DEF Init
  <2> QED
    BY <2>1, TotalAssumption DEF OnceInv, ReturnedOf, Gives
<1>2. OnceBasis /\ OnceInv /\ [Next]_vars => OnceInv'
  BY ReturnedStep DEF OnceInv
<1>3. OnceInv => \A t \in Requests : returned[t] <= Total
  BY TotalAssumption DEF OnceInv, ReturnedOf
<1>4. Spec => []FitInv
  BY FitBegins, FitStep, PTL DEF Spec
<1>5. ReturnedInv /\ [Next]_vars => ReturnedInv'
  BY BackStep
<1>6. Spec => []ReturnedInv
  BY <1>5, BackBegins, PTL DEF Spec
<1>7. /\ \A r, q \in Requests : HasCancellationRefund(r) /\ HasCancellationRefund(q) => r = q
      /\ \A r \in Requests : HasCancellationRefund(r) => released = 1
      /\ \A r \in Requests : refunds[r].amount \in 0 .. Total
      => \A r, q \in Requests : HasCancellationRefund(r) /\ HasCancellationRefund(q) => r = q
  OBVIOUS
<1>8. /\ ReturnedInv /\ FitInv
      /\ \A r, q \in Requests : HasCancellationRefund(r) /\ HasCancellationRefund(q) => r = q
      => OnceBasis
  BY DEF OnceBasis
<1> QED
  BY <1>1, <1>2, <1>3, <1>4, <1>6, <1>7, <1>8, OneRefundCorrect, PTL DEF Spec
-----------------------------------------------------------------------------
(* Cancellations by an admin's change of status alone.                     *)

\* Without cancelAndRefund() whoever is about to cancel asks for the whole total back.
AsksWhole(p) == pc[p] \in {"read", "write"} => local[p].amount = Total

\* And so whoever cancelled a paid order did.
CancelledWhole == \A i \in 1 .. Len(history) : Paid(history[i]) => local[history[i].by].amount = Total

WholeInv == MoneyInv /\ (\A p \in Requests : AsksWhole(p)) /\ CancelledWhole

\* The amount an admin's change of status carries to its write is the total.
LEMMA WholeRequest ==
  ASSUME "cancel" \notin Traffic, TypeOK, NEW p \in Requests, AsksWhole(p),
         Charging(p) \/ Webhook(p) \/ Changing(p) \/ Settling(p) \/ Abort(p)
  PROVE  AsksWhole(p)'
<1>1. local \in [Requests -> Locals] /\ local[p] \in Locals /\ pc \in [Requests -> Labels]
  BY DEF TypeOK
<1>2. local[p].next \in {"done", "find"}
  BY <1>1 DEF Locals
<1>3. \A label : Goto(p, label) => pc'[p] = label
  BY <1>1 DEF Goto
<1>4. ASSUME pc'[p] \notin {"read", "write"} PROVE AsksWhole(p)'
  BY <1>4 DEF AsksWhole
<1>5. CASE Charging(p) \/ Webhook(p) \/ Settling(p) \/ Abort(p)
  <2>1. CASE Charging(p)
    <3>1. pc'[p] \in {"claim", "attempt", "provider", "confirm", "decline", "late", "refund", "done"}
      BY <2>1, <1>3 DEF Charging, ChargeRead, ChargeClaim, CreateAttempt, ProviderCharge, ChargeDeclined,
         Confirm, LateRefund, AfterUnconfirmed
    <3> QED
      BY <1>4, <3>1
  <2>2. CASE Webhook(p)
    <3>1. pc'[p] \in {"attempt", "unclaim", "done"}
      BY <2>2, <1>3 DEF Webhook, WebhookPaid, WebhookFailed, WebhookUnclaim
    <3> QED
      BY <1>4, <3>1
  <2>3. CASE Settling(p) \/ Abort(p)
    <3>1. pc'[p] \in {"refund", "settle", "find", "done", "aborted"}
      BY <2>3, <1>2, <1>3 DEF Settling, AutoRefundRead, ProviderRefund, CompleteRequest, FindRefund, Settle,
         FailRefund, Abort
    <3> QED
      BY <1>4, <3>1
  <2> QED
    BY <1>5, <2>1, <2>2, <2>3
<1>6. \A l : local' = [local EXCEPT ![p] = l] => local'[p] = l
  BY <1>1
<1>7. \A target, amount : ToWrite(p, target, amount) => local'[p].amount = amount
  BY <1>1, <1>6 DEF ToWrite, Locals
<1>8. CASE StatusRead(p)
  <2>1. PICK target \in Targets :
          \/ pc'[p] \in {"done", "find"}
          \/ ToWrite(p, target, Total)
          \/ local' = [local EXCEPT ![p] = [@ EXCEPT !.amount = Total, !.next = "find"]]
    BY <1>3, <1>8 DEF StatusRead
  <2>2. CASE local' = [local EXCEPT ![p] = [@ EXCEPT !.amount = Total, !.next = "find"]]
    <3>1. local'[p].amount = Total
      BY <1>1, <2>2 DEF Locals
    <3> QED
      BY <3>1 DEF AsksWhole
  <2> QED
    BY <1>4, <1>7, <2>1, <2>2 DEF AsksWhole
<1>9. CASE ChangeRead(p)
  <2>1. local[p].amount = Total
    BY <1>9 DEF ChangeRead, At, AsksWhole
  <2>2. pc'[p] = "done" \/ ToWrite(p, Cancelled, Total)
    BY <1>3, <1>9, <2>1 DEF ChangeRead
  <2> QED
    BY <1>4, <1>7, <2>2 DEF AsksWhole
<1>10. CASE StatusWrite(p)
  <2>1. pc'[p] \in {"done", "find", "autoRead"}
    BY <1>2, <1>3, <1>10 DEF StatusWrite
  <2> QED
    BY <1>4, <2>1
<1>11. ~CancelRead(p)
  BY DEF CancelRead, Arrive
<1> QED
  BY <1>5, <1>8, <1>9, <1>10, <1>11 DEF Changing

\* Every step keeps that cancellations ask for the whole total.
LEMMA WholeStep ==
  ASSUME "cancel" \notin Traffic, WholeInv, [Next]_vars
  PROVE  WholeInv'
<1>1. /\ TypeOK /\ StatusInv /\ MoneyBase /\ MoneyInv
      /\ \A p \in Requests : Own(p) /\ OwnMove(p) /\ AsksWhole(p)
  BY OwnStep DEF WholeInv, MoneyInv, MoneyBase, StatusInv
<1>2. ASSUME NEW p \in Requests PROVE AsksWhole(p)'
  <2>1. CASE UNCHANGED vars \/ Tick \/ Sweeping
    <3>1. pc' = pc /\ local' = local
      BY <2>1 DEF vars, Tick, Sweeping, SweepRead, SweepRelease, SweepFails
    <3> QED
      BY <1>1, <3>1 DEF AsksWhole
  <2>2. ASSUME NEW q \in Requests, Charging(q) \/ Webhook(q) \/ Changing(q) \/ Settling(q) \/ Abort(q)
        PROVE  AsksWhole(p)'
    <3>1. CASE q = p
      BY <1>1, <2>2, <3>1, WholeRequest
    <3>2. CASE q # p
      BY <1>1, <2>2, <3>2, OthersStay DEF AsksWhole
    <3> QED
      BY <3>1, <3>2
  <2> QED
    BY <2>1, <2>2 DEF Next
<1>3. ASSUME NEW i \in 1 .. Len(history'), Paid(history'[i])
      PROVE  local'[history'[i].by].amount = Total
  <2>1. CASE i \in 1 .. Len(history) /\ history'[i] = history[i]
    <3>1. /\ history[i].by \in Requests /\ pc[history[i].by] \notin Early
          /\ local[history[i].by].amount = Total
      BY <1>3, <2>1 DEF WholeInv, MoneyInv, CancellerIsPast, CancelledWhole, Paid
    <3> QED
      BY <1>1, <2>1, <3>1 DEF OwnMove
  <2>2. CASE history'[i].by \in Requests /\ Cancels(history'[i].by)
    <3>1. pc[history'[i].by] = "write"
      BY <2>2 DEF Cancels, StatusWrite, At
    <3> QED
      BY <1>1, <2>2, <3>1, CancelsIsPast DEF AsksWhole
  <2> QED
    BY <1>1, <1>3, <2>1, <2>2, HistoryGrows
<1>4. CancelledWhole'
  BY <1>3 DEF CancelledWhole, Paid
<1> QED
  BY <1>1, <1>2, <1>4, MoneyInductive DEF WholeInv

\* "the order can never be cancelled without its refund record": true of changeStatus(),
\* whatever races with it, since its write repeats the status its refund was decided
\* on. It is cancelAndRefund(), which decides on a read of its own, that breaks it: run
\* unrefunded_cancel.
THEOREM AdminCancelRefundsCorrect ==
  ASSUME "cancel" \notin Traffic, Total > 0
  PROVE  Spec => []PaidCancelHasRefund
<1>1. Init => WholeInv
  <2> SUFFICES ASSUME Init PROVE WholeInv
    OBVIOUS
  <2>1. history = <<>> /\ \A p \in Requests : pc[p] = "new"
    BY DEF Init
  <2>2. CancelledWhole /\ \A p \in Requests : AsksWhole(p)
    BY <2>1 DEF CancelledWhole, AsksWhole
  <2> QED
    BY <2>2, MoneyInitially DEF WholeInv
<1>2. WholeInv /\ [Next]_vars => WholeInv'
  BY WholeStep
<1>3. WholeInv => PaidCancelHasRefund
  <2> SUFFICES ASSUME WholeInv, NEW i \in 1 .. Len(history), Paid(history[i])
               PROVE  HasCancellationRefund(history[i].by)
    BY DEF PaidCancelHasRefund
  <2>1. local[history[i].by].amount > 0
    BY DEF WholeInv, CancelledWhole
  <2> QED
    BY <2>1 DEF WholeInv, MoneyInv, RefundsMatchCancellation
<1> QED
  BY <1>1, <1>2, <1>3, PTL DEF Spec
=============================================================================
