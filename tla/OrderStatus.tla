----------------------------- MODULE OrderStatus -----------------------------
(***************************************************************************)
(* The rules of an order's status: which changes are allowed, which        *)
(* statuses hand stock back, which mean the order was paid, and the        *)
(* fulfilment stamps that follow the status.                               *)
(*   src/apps/server/src/orders/order-status.ts                            *)
(* A stamp (paidAt, shippedAt, deliveredAt, cancelledAt) is abstracted to  *)
(* whether it is set.                                                      *)
(***************************************************************************)

Pending    == "PENDING_PAYMENT"
Confirmed  == "CONFIRMED"
Processing == "PROCESSING"
Shipped    == "SHIPPED"
Delivered  == "DELIVERED"
Cancelled  == "CANCELLED"
Refunded   == "REFUNDED"

Fulfilment        == {Confirmed, Processing, Shipped, Delivered}
PaidStatuses      == Fulfilment
RestockStatuses   == {Cancelled, Refunded}
Statuses          == {Pending} \cup Fulfilment \cup RestockStatuses
SentStatuses      == {Shipped, Delivered}

\* The stamps of an order: the set of those that are set.
StampNames == {"paidAt", "shippedAt", "deliveredAt", "cancelledAt"}

\* Variant for the checks: a cancelled order may be reopened.
CanTransitionReopening(from, to) ==
  \/ from = Cancelled /\ to \in {Refunded, Confirmed}
  \/ from = Pending /\ to \in {Confirmed, Cancelled}
  \/ from \in Fulfilment /\ to \in Fulfilment \cup RestockStatuses

\* canTransition: CANCELLED may only be settled to REFUNDED, which is final;
\* an unpaid order is confirmed or cancelled; fulfilment moves back and forth.
CanTransition(from, to) ==
  \/ from = Cancelled /\ to = Refunded
  \/ from = Pending /\ to \in {Confirmed, Cancelled}
  \/ from \in Fulfilment /\ to \in Fulfilment \cup RestockStatuses

\* The stamps that go with a status.
StampsOf(status) ==
  (IF status \in PaidStatuses THEN {"paidAt"} ELSE {})
    \cup (IF status \in SentStatuses THEN {"shippedAt"} ELSE {})
    \cup (IF status = Delivered THEN {"deliveredAt"} ELSE {})
    \cup (IF status \in RestockStatuses THEN {"cancelledAt"} ELSE {})

\* Variant for the checks: stepping an order back keeps its delivery date.
ClearedStampsKeepingDelivery(seen, status) ==
  IF status \in RestockStatuses THEN {} ELSE (seen \cap {"shippedAt"}) \ StampsOf(status)

\* stampsFor: the writes that go with moving to status, computed from the stamps the
\* handler had read (seen): those that are missing are set, and the fulfilment dates
\* are cleared when an admin steps back, though not by a cancellation.
SetStamps(seen, status) == StampsOf(status) \ seen
ClearedStamps(seen, status) ==
  IF status \in RestockStatuses
    THEN {}
    ELSE (seen \cap {"shippedAt", "deliveredAt"}) \ StampsOf(status)

\* The row's stamps after those writes; the others are left as the row holds them.
Stamped(current, seen, status) ==
  (current \ ClearedStamps(seen, status)) \cup SetStamps(seen, status)

=============================================================================
