-------------------------- MODULE OrderLifeProofs --------------------------
(***************************************************************************)
(* What follows from OrderLife alone, for any charges and any total. The   *)
(* handlers of OrderPayments implement it, so all of it holds of them.     *)
(***************************************************************************)
EXTENDS OrderLife, TLAPS

Refundings == [cause : {"none", "cancellation", "late"}, amount : 0 .. Total]

\* The inductive invariant: what the accounts say, and one cancellation refund at most.
LifeInv ==
  /\ status \in Statuses
  /\ released \in {0, 1}
  /\ refund \in [Ids -> Refundings]
  /\ settled \subseteq Ids
  /\ Accounts /\ CancelledOnce

\* A status that is not handed back yet is never reached from one that is.
LEMMA OneWay ==
  ASSUME NEW from \in Statuses, NEW to \in Fulfilment, CanTransition(from, to)
  PROVE  to \in Statuses /\ from \notin RestockStatuses /\ to \notin RestockStatuses /\ to # Pending
         /\ from # Refunded /\ to # Refunded
  BY DEF CanTransition, Statuses, Fulfilment, RestockStatuses, Pending, Confirmed, Processing, Shipped,
         Delivered, Cancelled, Refunded

\* What is recorded for r is the only thing that changes, and was not there.
LEMMA Recorded ==
  ASSUME LifeInv, NEW r \in Ids, refund[r] = NoneDue, NEW cause \in {"cancellation", "late"},
         NEW n \in 0 .. Total, refund' = [refund EXCEPT ![r] = Due(cause, n)]
  PROVE  /\ refund' \in [Ids -> Refundings]
         /\ refund'[r].cause = cause /\ refund'[r].amount = n
         /\ refund[r].cause = "none" /\ r \notin settled
         /\ \A q \in Ids \ {r} : refund'[q] = refund[q]
<1>1. refund \in [Ids -> Refundings]
  BY DEF LifeInv
<1>2. Due(cause, n) \in Refundings /\ Due(cause, n).cause = cause /\ Due(cause, n).amount = n
  BY DEF Due, Refundings
<1>3. refund[r].cause = "none"
  BY DEF NoneDue
<1>4. r \notin settled
  BY <1>3 DEF LifeInv, Accounts
<1> QED
  BY <1>1, <1>2, <1>3, <1>4

\* A new order owes nothing.
LEMMA LifeBegins == ASSUME Total \in Nat, Init PROVE LifeInv
<1>1. refund = [r \in Ids |-> NoneDue] /\ settled = {} /\ status = Pending /\ released = 0 /\ payment = None
  BY DEF Init
<1>2. NoneDue \in Refundings /\ NoneDue.cause = "none" /\ NoneDue.amount = 0
  BY DEF NoneDue, Refundings
<1>3. refund \in [Ids -> Refundings] /\ \A r \in Ids : refund[r].cause = "none" /\ refund[r].amount = 0
  BY <1>1, <1>2
<1>4. status \in Statuses /\ status \notin RestockStatuses /\ status # Refunded
  BY <1>1 DEF Statuses, RestockStatuses, Pending, Cancelled, Refunded
<1>5. Accounts
  BY <1>1, <1>3, <1>4 DEF Accounts
<1>6. CancelledOnce
  BY <1>3 DEF CancelledOnce
<1> QED
  BY <1>1, <1>3, <1>4, <1>5, <1>6 DEF LifeInv

\* A payment meets an order of which nothing is refunded.
LEMMA PayStep == ASSUME LifeInv, NEW c \in Ids, Pay(c) PROVE LifeInv'
<1>1. /\ status = Pending /\ status' = Confirmed /\ released' = released /\ refund' = refund /\ settled' = settled
  BY DEF Pay
<1>2. /\ status \notin RestockStatuses /\ status' \notin RestockStatuses /\ status' \in Statuses
      /\ status' # Pending /\ status' # Refunded
  BY <1>1 DEF RestockStatuses, Statuses, Fulfilment, Pending, Confirmed, Cancelled, Refunded
<1>3. Accounts'
  BY <1>1, <1>2 DEF LifeInv, Accounts
<1>4. CancelledOnce'
  BY <1>1, <1>2 DEF LifeInv, Accounts, CancelledOnce
<1> QED
  BY <1>1, <1>2, <1>3, <1>4 DEF LifeInv

\* Within fulfilment nothing is refunded for a cancellation.
LEMMA MoveToStep == ASSUME LifeInv, NEW to \in Statuses, MoveTo(to) PROVE LifeInv'
<1>1. /\ to \in Fulfilment /\ CanTransition(status, to) /\ status' = to /\ status \in Statuses
      /\ released' = released /\ refund' = refund /\ settled' = settled /\ payment' = payment
  BY DEF MoveTo, LifeInv
<1>2. /\ status \notin RestockStatuses /\ status' \notin RestockStatuses /\ status' \in Statuses
      /\ status' # Pending /\ status' # Refunded
  BY <1>1, OneWay
<1>3. Accounts'
  BY <1>1, <1>2 DEF LifeInv, Accounts
<1>4. CancelledOnce'
  BY <1>1, <1>2 DEF LifeInv, CancelledOnce
<1> QED
  BY <1>1, <1>2, <1>3, <1>4 DEF LifeInv

\* A cancellation finds no refund of an earlier one.
LEMMA CancelStep == ASSUME Total \in Nat, LifeInv, Cancel PROVE LifeInv'
<1>1. /\ status \notin RestockStatuses /\ status' = Cancelled /\ released' = released + 1
      /\ settled' = settled /\ payment' = payment /\ status \in Statuses
  BY DEF Cancel, LifeInv
<1>2. status' \in RestockStatuses /\ status' \in Statuses /\ status' # Pending /\ status' # Refunded
  BY <1>1 DEF RestockStatuses, Statuses, Pending, Cancelled, Refunded
<1>3. released = 0 /\ released' = 1
  BY <1>1 DEF LifeInv, Accounts
<1>4. \A q \in Ids : refund[q].cause # "cancellation"
  BY <1>1 DEF LifeInv, CancelledOnce
<1>5. CASE refund' = refund
  <2>1. Accounts'
    BY <1>1, <1>2, <1>3, <1>5 DEF LifeInv, Accounts
  <2>2. CancelledOnce'
    BY <1>4, <1>5 DEF CancelledOnce
  <2> QED
    BY <1>1, <1>2, <1>3, <1>5, <2>1, <2>2 DEF LifeInv
<1>6. ASSUME NEW r \in Ids, NEW n \in 1 .. Total, refund[r] = NoneDue,
             refund' = [refund EXCEPT ![r] = Due("cancellation", n)]
      PROVE  LifeInv'
  <2>1. /\ refund' \in [Ids -> Refundings]
        /\ refund'[r].cause = "cancellation" /\ refund'[r].amount = n
        /\ refund[r].cause = "none" /\ r \notin settled
        /\ \A q \in Ids \ {r} : refund'[q] = refund[q]
    <3>1. n \in 0 .. Total
      OBVIOUS
    <3> QED
      BY <1>6, <3>1, Recorded
  <2>2. \A q \in Ids : q \in settled' => refund'[q].cause # "none"
    BY <1>1, <2>1 DEF LifeInv, Accounts
  <2>3. \A q \in Ids : refund'[q].amount \in 0 .. Total
    BY <2>1 DEF Refundings
  <2>4. Accounts'
    BY <1>2, <1>3, <2>2, <2>3 DEF Accounts
  <2>5. CancelledOnce'
    BY <1>1, <1>2, <1>4, <2>1 DEF CancelledOnce
  <2> QED
    BY <1>1, <1>2, <1>3, <2>1, <2>4, <2>5 DEF LifeInv
<1> QED
  BY <1>5, <1>6 DEF Cancel

\* A late return adds one refund, and no cancellation's.
LEMMA ReturnLateStep == ASSUME Total \in Nat, LifeInv, NEW r \in Ids, ReturnLate(r) PROVE LifeInv'
<1>1. /\ status # Pending /\ refund[r] = NoneDue /\ refund' = [refund EXCEPT ![r] = Due("late", Total)]
      /\ status' = status /\ released' = released /\ settled' = settled /\ payment' = payment
  BY DEF ReturnLate
<1>2. /\ refund' \in [Ids -> Refundings]
      /\ refund'[r].cause = "late" /\ refund'[r].amount = Total
      /\ refund[r].cause = "none" /\ r \notin settled
      /\ \A q \in Ids \ {r} : refund'[q] = refund[q]
  <2>1. Total \in 0 .. Total
    OBVIOUS
  <2> QED
    BY <1>1, <2>1, Recorded
<1>3. \A q \in Ids : q \in settled' => refund'[q].cause # "none"
  BY <1>1, <1>2 DEF LifeInv, Accounts
<1>4. \A q \in Ids : refund'[q].amount \in 0 .. Total
  BY <1>2 DEF Refundings
<1>5. Accounts'
  BY <1>1, <1>3, <1>4 DEF LifeInv, Accounts
<1>6. CancelledOnce'
  BY <1>1, <1>2 DEF LifeInv, CancelledOnce
<1> QED
  BY <1>1, <1>2, <1>5, <1>6 DEF LifeInv

\* Settling changes no amount, and CANCELLED to REFUNDED at most.
LEMMA SettleStep == ASSUME LifeInv, NEW r \in Ids, Settle(r) PROVE LifeInv'
<1>1. /\ refund[r].cause # "none" /\ settled' = settled \cup {r}
      /\ status' = IF status = Cancelled THEN Refunded ELSE status
      /\ payment' = payment /\ released' = released /\ refund' = refund
  BY DEF Settle
<1>2. status \in Statuses /\ status # Pending
  BY <1>1 DEF LifeInv, Accounts
<1>3. /\ status' \in Statuses /\ status' # Pending
      /\ status' \in RestockStatuses <=> status \in RestockStatuses
      /\ status \in RestockStatuses => status' = Refunded
  BY <1>1, <1>2 DEF Statuses, RestockStatuses, Pending, Cancelled, Refunded
<1>4. Accounts'
  BY <1>1, <1>3 DEF LifeInv, Accounts
<1>5. CancelledOnce'
  BY <1>1, <1>3 DEF LifeInv, CancelledOnce
<1> QED
  BY <1>1, <1>3, <1>4, <1>5 DEF LifeInv

\* Every step keeps the accounts.
LEMMA LifeStep == ASSUME Total \in Nat, LifeInv, [Next]_life PROVE LifeInv'
<1>1. CASE UNCHANGED life
  BY <1>1 DEF life, LifeInv, Accounts, CancelledOnce
<1> QED
  BY <1>1, PayStep, MoveToStep, CancelStep, ReturnLateStep, SettleStep DEF Next

\* The accounts of an order and its refunds always agree with its status.
THEOREM AccountsCorrect == ASSUME Total \in Nat PROVE Spec => []Accounts
<1>1. Init => LifeInv
  BY LifeBegins
<1>2. LifeInv /\ [Next]_life => LifeInv'
  BY LifeStep
<1>3. LifeInv => Accounts
  BY DEF LifeInv
<1> QED
  BY <1>1, <1>2, <1>3, PTL DEF Spec

\* A cancelled order is refunded at most once for it.
THEOREM CancelledOnceCorrect == ASSUME Total \in Nat PROVE Spec => []CancelledOnce
<1>1. Init => LifeInv
  BY LifeBegins
<1>2. LifeInv /\ [Next]_life => LifeInv'
  BY LifeStep
<1>3. LifeInv => CancelledOnce
  BY DEF LifeInv
<1> QED
  BY <1>1, <1>2, <1>3, PTL DEF Spec
=============================================================================
