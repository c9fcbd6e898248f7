------------------------- MODULE CancellationsProofs -------------------------
(***************************************************************************)
(* Proofs about Cancellations, for any number of calls and any fees.       *)
(***************************************************************************)
EXTENDS Cancellations, TLAPS

-----------------------------------------------------------------------------
(* The statuses.                                                           *)

LEMMA StatusFacts ==
  /\ Pending \in Statuses /\ Cancelled \in Statuses /\ Cancelled \in RestockStatuses
  /\ \A from, to \in Statuses :
       CanTransition(from, to) /\ from \in RestockStatuses => to \in RestockStatuses
  BY DEF Statuses, Fulfilment, RestockStatuses, CanTransition, Pending, Confirmed, Processing,
         Shipped, Delivered, Cancelled, Refunded

-----------------------------------------------------------------------------
(* Type correctness.                                                       *)

LEMMA TypeInit == Init => TypeOK
<1> SUFFICES ASSUME Init PROVE TypeOK
  OBVIOUS
<1>1. NoRequest \in Requests
  BY DEF NoRequest, Requests, Amounts
<1>2. NoLocals \in Locals
  BY StatusFacts DEF NoLocals, Locals, Amounts
<1> QED
  BY <1>1, <1>2, StatusFacts DEF Init, TypeOK, Labels, Amounts

\* Where the handlers go next.
LEMMA LabelFacts ==
  ASSUME NEW p \in Calls
  PROVE  /\ AfterFailure(p) \in {"reopen", "done"}
         /\ kind[p] \in {"self", "approve", "admin", "status"} =>
              AfterCancel(p) \in {"record", "finish", "close", "done"}
  BY DEF AfterFailure, AfterCancel

LEMMA AmountFacts ==
  ASSUME TypeOK, NEW p \in Calls, FeeAllowed(p)
  PROVE  Amount(p) \in Nat /\ (Amount(p) > 0 => local[p].fee + Amount(p) = Total)
<1>1. local[p].fee \in Nat
  BY DEF TypeOK, Locals
<1> QED
  BY <1>1, MoneyAssumption DEF Amount, FeeAllowed

\* Which handler is at which step.
Handlers ==
  \A p \in Calls :
    /\ pc[p] \in {"read", "cancel"} => kind[p] \in {"self", "approve", "admin", "status"}
    /\ pc[p] \in {"reopen", "finish"} => kind[p] = "approve"
    /\ pc[p] = "record" => kind[p] = "self"
    /\ kind[p] = "approve" /\ pc[p] \in {"read", "cancel", "reopen", "finish"} =>
         local[p].request \in Calls

LEMMA TypeStep == TypeOK /\ Handlers /\ [Next]_vars => TypeOK'
<1> SUFFICES ASSUME TypeOK, Handlers, [Next]_vars PROVE TypeOK'
  OBVIOUS
<1>1. /\ requests \in [Calls -> Requests] /\ local \in [Calls -> Locals]
      /\ refunds \in [Calls -> Amounts] /\ status \in Statuses
      /\ kind \in [Calls -> Kinds \cup {"none"}] /\ pc \in [Calls -> Labels]
  BY DEF TypeOK
<1>2. ASSUME NEW p \in Calls, NEW label \in Labels, Goto(p, label) PROVE pc' \in [Calls -> Labels]
  BY <1>1, <1>2 DEF Goto
<1>3. ASSUME NEW p \in Calls, NEW k \in Kinds, Arrive(p, k) PROVE kind' \in [Calls -> Kinds \cup {"none"}]
  BY <1>1, <1>3 DEF Arrive
<1>4. ASSUME NEW p \in Calls, SelfRead(p) \/ RequestRead(p) PROVE TypeOK'
  <2>1. kind' \in [Calls -> Kinds \cup {"none"}]
    BY <1>3, <1>4 DEF SelfRead, RequestRead, Kinds
  <2>2. pc' \in [Calls -> Labels]
    BY <1>2, <1>4 DEF SelfRead, RequestRead, Labels
  <2> QED
    BY <1>1, <1>4, <2>1, <2>2 DEF TypeOK, SelfRead, RequestRead
<1>5. ASSUME NEW p \in Calls, RecordSelf(p) PROVE TypeOK'
  <2>1. [status |-> "AUTO_CANCELLED", fee |-> 0, refund |-> local[p].refund] \in Requests
    BY <1>1 DEF Locals, Requests
  <2>2. requests' \in [Calls -> Requests]
    BY <1>1, <1>5, <2>1 DEF RecordSelf
  <2>3. pc' \in [Calls -> Labels]
    BY <1>2, <1>5 DEF RecordSelf, Labels
  <2> QED
    BY <1>1, <1>5, <2>2, <2>3 DEF TypeOK, RecordSelf, At
<1>6. ASSUME NEW p \in Calls, File(p) PROVE TypeOK'
  <2>1. [status |-> "REQUESTED", fee |-> 0, refund |-> None] \in Requests
    BY DEF Requests, Amounts
  <2>2. requests' \in [Calls -> Requests]
    BY <1>1, <1>6, <2>1 DEF File
  <2>3. pc' \in [Calls -> Labels]
    BY <1>2, <1>6 DEF File, Labels
  <2> QED
    BY <1>1, <1>6, <2>2, <2>3 DEF TypeOK, File, At
<1>7. ASSUME NEW p \in Calls, Reject(p) PROVE TypeOK'
  <2>1. PICK r \in Calls : requests' = [requests EXCEPT ![r] = [requests[r] EXCEPT !.status = "REJECTED"]]
    BY <1>7 DEF Reject
  <2>2. [requests[r] EXCEPT !.status = "REJECTED"] \in Requests
    BY <1>1 DEF Requests
  <2>3. requests' \in [Calls -> Requests]
    BY <1>1, <2>1, <2>2
  <2>4. pc' \in [Calls -> Labels] /\ kind' \in [Calls -> Kinds \cup {"none"}]
    BY <1>2, <1>3, <1>7 DEF Reject, Labels, Kinds
  <2> QED
    BY <1>1, <1>7, <2>3, <2>4 DEF TypeOK, Reject
<1>8. ASSUME NEW p \in Calls, Approve(p) PROVE TypeOK'
  <2>1. PICK r \in Calls, fee \in Fees :
          /\ requests' = [requests EXCEPT ![r] = [requests[r] EXCEPT !.status = "APPROVED", !.fee = fee]]
          /\ local' = [local EXCEPT ![p] = [local[p] EXCEPT !.fee = fee, !.request = r]]
    BY <1>8 DEF Approve
  <2>2. /\ [requests[r] EXCEPT !.status = "APPROVED", !.fee = fee] \in Requests
        /\ [local[p] EXCEPT !.fee = fee, !.request = r] \in Locals
    BY <1>1, MoneyAssumption DEF Requests, Locals
  <2>3. requests' \in [Calls -> Requests] /\ local' \in [Calls -> Locals]
    BY <1>1, <2>1, <2>2
  <2>4. pc' \in [Calls -> Labels] /\ kind' \in [Calls -> Kinds \cup {"none"}]
    BY <1>2, <1>3, <1>8 DEF Approve, Labels, Kinds
  <2> QED
    BY <1>1, <1>8, <2>3, <2>4 DEF TypeOK, Approve
<1>9. ASSUME NEW p \in Calls, Reopen(p) \/ FinishApproval(p) PROVE TypeOK'
  <2>1. local[p].request \in Calls
    BY <1>9 DEF Reopen, FinishApproval, At, Handlers
  <2> DEFINE row == requests[local[p].request]
  <2>2. /\ [row EXCEPT !.status = "REQUESTED", !.fee = 0] \in Requests
        /\ [row EXCEPT !.refund = local[p].refund] \in Requests
    <3>1. row \in Requests /\ local[p].refund \in Amounts
      BY <1>1, <2>1 DEF Locals
    <3> QED
      BY <3>1 DEF Requests
  <2>3. requests' \in [Calls -> Requests]
    BY <1>1, <1>9, <2>2 DEF Reopen, FinishApproval
  <2>4. pc' \in [Calls -> Labels]
    BY <1>2, <1>9 DEF Reopen, FinishApproval, Labels
  <2> QED
    BY <1>1, <1>9, <2>3, <2>4 DEF TypeOK, Reopen, FinishApproval, At
<1>10. ASSUME NEW p \in Calls, AdminCancel(p) PROVE TypeOK'
  <2>1. PICK fee \in Fees, due \in {"due", "waived"} :
          local' = [local EXCEPT ![p] = [local[p] EXCEPT !.fee = fee, !.due = due]]
    BY <1>10 DEF AdminCancel
  <2>2. [local[p] EXCEPT !.fee = fee, !.due = due] \in Locals
    BY <1>1, MoneyAssumption DEF Locals
  <2>3. local' \in [Calls -> Locals]
    BY <1>1, <2>1, <2>2
  <2>4. pc' \in [Calls -> Labels] /\ kind' \in [Calls -> Kinds \cup {"none"}]
    BY <1>2, <1>3, <1>10 DEF AdminCancel, Labels, Kinds
  <2> QED
    BY <1>1, <1>10, <2>3, <2>4 DEF TypeOK, AdminCancel
<1>11. ASSUME NEW p \in Calls, CloseRequests(p) PROVE TypeOK'
  <2>1. [status |-> "APPROVED", fee |-> local[p].fee, refund |-> local[p].refund] \in Requests
    BY <1>1 DEF Requests, Locals
  <2>2. requests' \in [Calls -> Requests]
    BY <1>1, <1>11, <2>1 DEF CloseRequests
  <2>3. pc' \in [Calls -> Labels]
    BY <1>2, <1>11 DEF CloseRequests, Labels
  <2> QED
    BY <1>1, <1>11, <2>2, <2>3 DEF TypeOK, CloseRequests, At
<1>12. ASSUME NEW p \in Calls, StatusCancel(p) PROVE TypeOK'
  <2>1. [local[p] EXCEPT !.amount = Total] \in Locals
    BY <1>1, MoneyAssumption DEF Locals
  <2>2. local' \in [Calls -> Locals]
    BY <1>1, <1>12, <2>1 DEF StatusCancel
  <2>3. pc' \in [Calls -> Labels] /\ kind' \in [Calls -> Kinds \cup {"none"}]
    BY <1>2, <1>3, <1>12 DEF StatusCancel, Labels, Kinds
  <2> QED
    BY <1>1, <1>12, <2>2, <2>3 DEF TypeOK, StatusCancel
<1>13. ASSUME NEW p \in Calls, OrderRead(p) PROVE TypeOK'
  <2>1. FeeAllowed(p) => [local[p] EXCEPT !.amount = Amount(p)] \in Locals
    BY <1>1, AmountFacts DEF Locals
  <2>2. local' \in [Calls -> Locals]
    BY <1>1, <1>13, <2>1 DEF OrderRead
  <2>3. pc' \in [Calls -> Labels]
    BY <1>2, <1>13, LabelFacts DEF OrderRead, Labels
  <2> QED
    BY <1>1, <1>13, <2>2, <2>3 DEF TypeOK, OrderRead, At
<1>14. ASSUME NEW p \in Calls, ChangeStatus(p) PROVE TypeOK'
  <2>1. kind[p] \in {"self", "approve", "admin", "status"}
    BY <1>14 DEF ChangeStatus, At, Handlers
  <2>2. AfterFailure(p) \in Labels /\ AfterCancel(p) \in Labels
    BY <2>1, LabelFacts DEF Labels
  <2>3. pc' \in [Calls -> Labels]
    BY <1>2, <1>14, <2>2 DEF ChangeStatus
  <2>4. status' \in Statuses
    BY <1>1, <1>14, StatusFacts DEF ChangeStatus
  <2>5. Refund(p) \in Amounts
    BY <1>1 DEF Amounts, Locals, Refund
  <2>6. [local[p] EXCEPT !.refund = Refund(p), !.from = status] \in Locals
    BY <1>1, <2>5 DEF Locals
  <2>7. \/ UNCHANGED <<refunds, local>>
        \/ /\ refunds' = [refunds EXCEPT ![p] = Refund(p)]
           /\ local' = [local EXCEPT ![p] = [local[p] EXCEPT !.refund = Refund(p), !.from = status]]
    BY <1>14 DEF ChangeStatus
  <2>8. refunds' \in [Calls -> Amounts] /\ local' \in [Calls -> Locals]
    BY <1>1, <2>5, <2>6, <2>7
  <2> QED
    BY <1>1, <1>14, <2>3, <2>4, <2>8 DEF TypeOK, ChangeStatus, At
<1>15. ASSUME NEW p \in Calls, Abort(p) PROVE TypeOK'
  <2>1. pc' \in [Calls -> Labels]
    BY <1>2, <1>15 DEF Abort, Labels
  <2> QED
    BY <1>1, <1>15, <2>1 DEF TypeOK, Abort
<1>16. CASE Move
  BY <1>1, <1>16 DEF TypeOK, Move
<1>17. CASE UNCHANGED vars
  BY <1>17 DEF TypeOK, vars
<1> QED
  BY <1>4, <1>5, <1>6, <1>7, <1>8, <1>9, <1>10, <1>11, <1>12, <1>13, <1>14, <1>15, <1>16, <1>17
     DEF Next, Customer, Admin

\* A step of one call leaves the other calls where they are.
Step(p) == Customer(p) \/ Admin(p) \/ OrderRead(p) \/ ChangeStatus(p) \/ Abort(p)

LEMMA OthersKept ==
  ASSUME TypeOK, NEW p \in Calls, Step(p)
  PROVE  \A q \in Calls \ {p} : /\ pc'[q] = pc[q] /\ kind'[q] = kind[q] /\ local'[q] = local[q]
                                /\ refunds'[q] = refunds[q]
<1>1. /\ local \in [Calls -> Locals] /\ refunds \in [Calls -> Amounts]
      /\ kind \in [Calls -> Kinds \cup {"none"}] /\ pc \in [Calls -> Labels]
  BY DEF TypeOK
<1>2. \A q \in Calls \ {p} : pc'[q] = pc[q]
  BY <1>1 DEF Step, Customer, Admin, SelfRead, RecordSelf, RequestRead, File, Reject, Approve, Reopen,
     FinishApproval, AdminCancel, CloseRequests, StatusCancel, OrderRead, ChangeStatus, Abort, Goto
<1>3. \A q \in Calls \ {p} : kind'[q] = kind[q]
  BY <1>1 DEF Step, Customer, Admin, SelfRead, RecordSelf, RequestRead, File, Reject, Approve, Reopen,
     FinishApproval, AdminCancel, CloseRequests, StatusCancel, OrderRead, ChangeStatus, Abort, Arrive, At
<1>4. ASSUME ~ChangeStatus(p) PROVE \A q \in Calls \ {p} : local'[q] = local[q] /\ refunds'[q] = refunds[q]
  <2>1. refunds' = refunds
    BY <1>4 DEF Step, Customer, Admin, SelfRead, RecordSelf, RequestRead, File, Reject, Approve, Reopen,
       FinishApproval, AdminCancel, CloseRequests, StatusCancel, OrderRead, Abort
  <2>2. \A q \in Calls \ {p} : local'[q] = local[q]
    BY <1>1, <1>4 DEF Step, Customer, Admin, SelfRead, RecordSelf, RequestRead, File, Reject, Approve,
       Reopen, FinishApproval, AdminCancel, CloseRequests, StatusCancel, OrderRead, Abort
  <2> QED
    BY <2>1, <2>2
<1>5. ASSUME ChangeStatus(p) PROVE \A q \in Calls \ {p} : local'[q] = local[q] /\ refunds'[q] = refunds[q]
  BY <1>1, <1>5 DEF ChangeStatus
<1> QED
  BY <1>2, <1>3, <1>4, <1>5

LEMMA HandlersStep == TypeOK /\ Handlers /\ [Next]_vars => Handlers'
<1> SUFFICES ASSUME TypeOK, Handlers, [Next]_vars PROVE Handlers'
  OBVIOUS
<1>1. /\ local \in [Calls -> Locals]
      /\ kind \in [Calls -> Kinds \cup {"none"}] /\ pc \in [Calls -> Labels]
  BY DEF TypeOK
<1> DEFINE Ok(p) == /\ pc'[p] \in {"read", "cancel"} => kind'[p] \in {"self", "approve", "admin", "status"}
                    /\ pc'[p] \in {"reopen", "finish"} => kind'[p] = "approve"
                    /\ pc'[p] = "record" => kind'[p] = "self"
                    /\ kind'[p] = "approve" /\ pc'[p] \in {"read", "cancel", "reopen", "finish"} =>
                         local'[p].request \in Calls
<1>2. ASSUME NEW p \in Calls, Step(p), Ok(p) PROVE Handlers'
  BY <1>2, OthersKept DEF Handlers
<1> HIDE DEF Ok
<1>3. ASSUME NEW p \in Calls, Customer(p) PROVE Ok(p)
  BY <1>1, <1>3 DEF Ok, Customer, SelfRead, RecordSelf, RequestRead, File, Goto, Arrive, At
<1>4. ASSUME NEW p \in Calls, Approve(p) PROVE Ok(p)
  <2>1. local'[p].request \in Calls
    BY <1>1, <1>4 DEF Approve, Locals
  <2> QED
    BY <1>1, <1>4, <2>1 DEF Ok, Approve, Goto, Arrive
<1>5. ASSUME NEW p \in Calls, Reject(p) \/ Reopen(p) \/ FinishApproval(p) \/ CloseRequests(p) PROVE Ok(p)
  BY <1>1, <1>5 DEF Ok, Reject, Reopen, FinishApproval, CloseRequests, Goto
<1>6. ASSUME NEW p \in Calls, AdminCancel(p) \/ StatusCancel(p) PROVE Ok(p)
  BY <1>1, <1>6 DEF Ok, AdminCancel, StatusCancel, Goto, Arrive
<1>7. ASSUME NEW p \in Calls, OrderRead(p) \/ ChangeStatus(p) PROVE Ok(p)
  <2>1. /\ kind' = kind /\ kind[p] \in {"self", "approve", "admin", "status"}
        /\ kind[p] = "approve" => local[p].request \in Calls
    BY <1>7 DEF OrderRead, ChangeStatus, At, Handlers
  <2>2. local'[p].request = local[p].request
    <3>1. CASE OrderRead(p)
      BY <1>1, <3>1 DEF OrderRead, Locals
    <3>2. CASE ChangeStatus(p)
      BY <1>1, <3>2 DEF ChangeStatus, Locals
    <3> QED
      BY <1>7, <3>1, <3>2
  <2>3. \/ pc'[p] = "cancel"
        \/ pc'[p] = AfterFailure(p)
        \/ pc'[p] = AfterCancel(p)
    BY <1>1, <1>7 DEF OrderRead, ChangeStatus, Goto
  <2>4. AfterFailure(p) = "done" \/ (AfterFailure(p) = "reopen" /\ kind[p] = "approve")
    BY DEF AfterFailure
  <2>5. \/ AfterCancel(p) \in {"close", "done"}
        \/ AfterCancel(p) = "finish" /\ kind[p] = "approve"
        \/ AfterCancel(p) = "record" /\ kind[p] = "self"
    BY <2>1 DEF AfterCancel
  <2> QED
    BY <2>1, <2>2, <2>3, <2>4, <2>5 DEF Ok
<1>8. ASSUME NEW p \in Calls, Abort(p) PROVE Ok(p)
  BY <1>1, <1>8 DEF Ok, Abort, Goto
<1>9. ASSUME NEW p \in Calls, Step(p) PROVE Ok(p)
  BY <1>3, <1>4, <1>5, <1>6, <1>7, <1>8, <1>9 DEF Step, Admin
<1>10. Move \/ UNCHANGED vars => Handlers'
  BY DEF Move, vars, Handlers
<1> QED
  BY <1>2, <1>9, <1>10 DEF Next, Step

TypeInv == TypeOK /\ Handlers

LEMMA TypeInvariant == Spec => []TypeInv
<1>1. Init => TypeInv
  BY TypeInit DEF Init, TypeInv, Handlers
<1>2. TypeInv /\ [Next]_vars => TypeInv'
  BY TypeStep, HandlersStep DEF TypeInv
<1> QED
  BY <1>1, <1>2, PTL DEF Spec

\* No combination of fees and races records or asks for a negative refund.
THEOREM CancellationsTypeCorrect == Spec => []TypeOK
  BY TypeInvariant, PTL DEF TypeInv

-----------------------------------------------------------------------------
(* The inductive invariant.                                                *)

\* The call that has claimed a request and not yet written it again.
Holds(p, r) == /\ kind[p] = "approve" /\ local[p].request = r
               /\ pc[p] \in {"read", "cancel", "reopen", "finish"}

Fresh == \A p \in Calls : pc[p] = "new" => local[p] = NoLocals

\* A call files its request last, and an open request has no refund.
Rows ==
  \A r \in Calls :
    /\ requests[r].status # "none" => pc[r] = "done"
    /\ requests[r].status \in {"none", "REQUESTED"} => requests[r].refund = None

\* The claim keeps every other call from the request, so its row stays as claimed.
Held ==
  \A p, r \in Calls : Holds(p, r) =>
    /\ requests[r].status = "APPROVED" /\ requests[r].refund = None
    /\ requests[r].fee = local[p].fee
    /\ \A q \in Calls : Holds(q, r) => p = q

\* The order is cancelled when a call got past changeStatus; it stays so.
Ended ==
  \A p \in Calls :
    pc[p] \in {"finish", "close", "record"} \/ refunds[p] # None => status \in RestockStatuses

\* The fee a call withholds and what it refunds make up the total.
Money ==
  \A p \in Calls :
    /\ kind[p] = "self" => local[p].fee = 0
    /\ pc[p] = "cancel" /\ local[p].amount > 0 => local[p].fee + local[p].amount = Total
    /\ local[p].refund # None => /\ refunds[p] = local[p].refund
                                 /\ local[p].fee + local[p].refund = Total

Inv == /\ TypeInv /\ Fresh /\ Rows /\ Held /\ Ended /\ Money
       /\ ApprovedIsCancelled /\ RefundAsRecorded

LEMMA Moving ==
  ASSUME TypeInv, NEW p \in Calls, Step(p)
  PROVE  pc'[p] # "new" /\ pc[p] \notin {"done", "aborted"}
<1>1. /\ pc \in [Calls -> Labels]
      /\ pc[p] \in {"read", "cancel"} => kind[p] \in {"self", "approve", "admin", "status"}
  BY DEF TypeInv, TypeOK, Handlers
<1>2. pc[p] \notin {"done", "aborted"}
  BY DEF Step, Customer, Admin, SelfRead, RecordSelf, RequestRead, File, Reject, Approve, Reopen,
     FinishApproval, AdminCancel, CloseRequests, StatusCancel, OrderRead, ChangeStatus, Abort, Arrive, At
<1>3. CASE OrderRead(p) \/ ChangeStatus(p)
  <2>1. kind[p] \in {"self", "approve", "admin", "status"}
    BY <1>1, <1>3 DEF OrderRead, ChangeStatus, At
  <2>2. AfterFailure(p) # "new" /\ AfterCancel(p) # "new"
    BY <2>1, LabelFacts
  <2> QED
    BY <1>1, <1>2, <1>3, <2>2 DEF OrderRead, ChangeStatus, Goto
<1>4. CASE ~(OrderRead(p) \/ ChangeStatus(p))
  BY <1>1, <1>2, <1>4 DEF Step, Customer, Admin, SelfRead, RecordSelf, RequestRead, File, Reject, Approve,
     Reopen, FinishApproval, AdminCancel, CloseRequests, StatusCancel, Abort, Goto
<1> QED
  BY <1>3, <1>4

\* The order leaves its present status only forward, and never from an end.
LEMMA EndsStay == TypeOK /\ [Next]_vars /\ status \in RestockStatuses => status' \in RestockStatuses
<1> SUFFICES ASSUME TypeOK, [Next]_vars, status \in RestockStatuses PROVE status' \in RestockStatuses
  OBVIOUS
<1>1. CASE Move
  BY <1>1, StatusFacts DEF Move, TypeOK
<1>2. ASSUME NEW p \in Calls, Step(p) PROVE status' \in RestockStatuses
  BY <1>2 DEF Step, Customer, Admin, SelfRead, RecordSelf, RequestRead, File, Reject, Approve, Reopen,
     FinishApproval, AdminCancel, CloseRequests, StatusCancel, OrderRead, ChangeStatus, Abort
<1>3. CASE UNCHANGED vars
  BY <1>3 DEF vars
<1> QED
  BY <1>1, <1>2, <1>3 DEF Next, Step

LEMMA FreshStep == Inv /\ [Next]_vars => Fresh'
<1> SUFFICES ASSUME Inv, [Next]_vars PROVE Fresh'
  OBVIOUS
<1>1. ASSUME NEW p \in Calls, Step(p) PROVE Fresh'
  BY <1>1, Moving, OthersKept DEF Inv, TypeInv, Fresh, NoLocals
<1>2. CASE Move \/ UNCHANGED vars
  BY <1>2 DEF Move, vars, Inv, Fresh, NoLocals
<1> QED
  BY <1>1, <1>2 DEF Next, Step

LEMMA RowsStep == Inv /\ [Next]_vars => Rows'
<1> SUFFICES ASSUME Inv, [Next]_vars PROVE Rows'
  OBVIOUS
<1>1. /\ requests \in [Calls -> Requests] /\ pc \in [Calls -> Labels] /\ TypeOK /\ TypeInv /\ Rows
  BY DEF Inv, TypeInv, TypeOK
<1>2. ASSUME NEW p \in Calls, Step(p) PROVE Rows'
  <2>1. \A r \in Calls : pc[r] = "done" => pc'[r] = "done"
    BY <1>1, <1>2, Moving, OthersKept
  <2>2. CASE requests' = requests
    BY <1>1, <2>1, <2>2 DEF Rows
  <2>3. CASE RecordSelf(p)
    <3>1. /\ requests'[p].status = "AUTO_CANCELLED" /\ pc'[p] = "done"
          /\ \A r \in Calls \ {p} : requests'[r] = requests[r]
      BY <1>1, <2>3 DEF RecordSelf, Goto
    <3> QED
      BY <1>1, <2>1, <3>1 DEF Rows
  <2>4. CASE File(p)
    <3>1. /\ requests'[p].status = "REQUESTED" /\ requests'[p].refund = None /\ pc'[p] = "done"
          /\ \A r \in Calls \ {p} : requests'[r] = requests[r]
      BY <1>1, <2>4 DEF File, Goto
    <3> QED
      BY <1>1, <2>1, <3>1 DEF Rows
  <2>5. CASE Reject(p)
    <3>1. PICK r \in Calls : /\ Open(r)
                             /\ requests' = [requests EXCEPT ![r] = [requests[r] EXCEPT !.status = "REJECTED"]]
      BY <2>5 DEF Reject
    <3>2. /\ requests[r].status = "REQUESTED" /\ requests'[r].status = "REJECTED"
          /\ \A q \in Calls \ {r} : requests'[q] = requests[q]
      BY <1>1, <3>1 DEF Open, Requests
    <3> QED
      BY <1>1, <2>1, <3>2 DEF Rows
  <2>6. CASE Approve(p)
    <3>1. PICK r \in Calls, fee \in Fees :
            /\ Approvable(r)
            /\ requests' = [requests EXCEPT ![r] = [requests[r] EXCEPT !.status = "APPROVED", !.fee = fee]]
      BY <2>6 DEF Approve
    <3>2. /\ requests[r].status = "REQUESTED" /\ requests'[r].status = "APPROVED"
          /\ \A q \in Calls \ {r} : requests'[q] = requests[q]
      BY <1>1, <3>1 DEF Open, Requests, Approvable
    <3> QED
      BY <1>1, <2>1, <3>2 DEF Rows
  <2>7. CASE Reopen(p) \/ FinishApproval(p)
    <3>1. PICK r \in Calls : r = local[p].request /\ Holds(p, r)
      BY <1>1, <2>7 DEF TypeInv, Handlers, Reopen, FinishApproval, At, Holds
    <3>2. requests[r].status = "APPROVED" /\ requests[r].refund = None
      BY <3>1 DEF Inv, Held
    <3>3. \A q \in Calls \ {r} : requests'[q] = requests[q]
      BY <1>1, <2>7, <3>1 DEF Reopen, FinishApproval
    <3>4. CASE Reopen(p)
      <4>1. requests'[r].refund = None
        BY <1>1, <3>1, <3>2, <3>4 DEF Reopen, Requests
      <4> QED
        BY <1>1, <2>1, <3>2, <3>3, <4>1 DEF Rows
    <3>5. CASE FinishApproval(p)
      <4>1. requests'[r].status = "APPROVED"
        BY <1>1, <3>1, <3>2, <3>5 DEF FinishApproval, Requests
      <4> QED
        BY <1>1, <2>1, <3>2, <3>3, <4>1 DEF Rows
    <3> QED
      BY <2>7, <3>4, <3>5
  <2>8. CASE CloseRequests(p)
    <3>1. \A r \in Calls : \/ requests'[r] = requests[r]
                           \/ requests[r].status = "REQUESTED" /\ requests'[r].status = "APPROVED"
      BY <1>1, <2>8 DEF CloseRequests, Open
    <3> QED
      BY <1>1, <2>1, <3>1 DEF Rows
  <2> QED
    BY <1>2, <2>2, <2>3, <2>4, <2>5, <2>6, <2>7, <2>8 DEF Step, Customer, Admin, SelfRead, RequestRead,
       AdminCancel, StatusCancel, OrderRead, ChangeStatus, Abort
<1>3. CASE Move \/ UNCHANGED vars
  BY <1>1, <1>3 DEF Move, vars, Rows
<1> QED
  BY <1>2, <1>3 DEF Next, Step

LEMMA EndedStep == Inv /\ [Next]_vars => Ended'
<1> SUFFICES ASSUME Inv, [Next]_vars PROVE Ended'
  OBVIOUS
<1>1. /\ pc \in [Calls -> Labels] /\ refunds \in [Calls -> Amounts] /\ TypeOK /\ TypeInv /\ Ended
  BY DEF Inv, TypeInv, TypeOK
<1>2. ASSUME NEW p \in Calls, Step(p) PROVE Ended'
  <2>1. ASSUME NEW q \in Calls \ {p}, pc'[q] \in {"finish", "close", "record"} \/ refunds'[q] # None
        PROVE  status' \in RestockStatuses
    <3>1. pc[q] \in {"finish", "close", "record"} \/ refunds[q] # None
      BY <1>1, <1>2, <2>1, OthersKept
    <3> QED
      BY <1>1, <3>1, EndsStay DEF Ended
  <2>2. CASE ChangeStatus(p)
    <3>1. status' \in RestockStatuses \/ (pc'[p] = AfterFailure(p) /\ refunds' = refunds)
      BY <1>1, <2>2, StatusFacts DEF ChangeStatus, Goto
    <3>2. AfterFailure(p) \notin {"finish", "close", "record"}
      BY LabelFacts
    <3> QED
      BY <1>1, <2>1, <3>1, <3>2, EndsStay DEF Ended
  <2>3. CASE ~ChangeStatus(p)
    <3>1. pc'[p] \notin {"finish", "close", "record"}
      BY <1>1, <1>2, <2>3, LabelFacts DEF Step, Customer, Admin, SelfRead, RecordSelf, RequestRead, File,
         Reject, Approve, Reopen, FinishApproval, AdminCancel, CloseRequests, StatusCancel, OrderRead,
         Abort, Goto
    <3>2. refunds' = refunds
      BY <1>2, <2>3 DEF Step, Customer, Admin, SelfRead, RecordSelf, RequestRead, File,
         Reject, Approve, Reopen, FinishApproval, AdminCancel, CloseRequests, StatusCancel, OrderRead,
         Abort
    <3> QED
      BY <1>1, <2>1, <3>1, <3>2, EndsStay DEF Ended
  <2> QED
    BY <2>2, <2>3
<1>3. CASE Move \/ UNCHANGED vars
  BY <1>1, <1>3, EndsStay DEF Move, vars, Ended
<1> QED
  BY <1>2, <1>3 DEF Next, Step

LEMMA MoneyStep == Inv /\ [Next]_vars => Money'
<1> SUFFICES ASSUME Inv, [Next]_vars PROVE Money'
  OBVIOUS
<1>1. /\ pc \in [Calls -> Labels] /\ refunds \in [Calls -> Amounts] /\ local \in [Calls -> Locals]
      /\ kind \in [Calls -> Kinds \cup {"none"}]
      /\ TypeOK /\ TypeInv /\ Money /\ Fresh
  BY DEF Inv, TypeInv, TypeOK
<1> DEFINE Ok(q) == /\ kind'[q] = "self" => local'[q].fee = 0
                    /\ pc'[q] = "cancel" /\ local'[q].amount > 0 => local'[q].fee + local'[q].amount = Total
                    /\ local'[q].refund # None => /\ refunds'[q] = local'[q].refund
                                                  /\ local'[q].fee + local'[q].refund = Total
<1>2. ASSUME NEW p \in Calls, Step(p), Ok(p) PROVE Money'
  BY <1>1, <1>2, OthersKept DEF Money
<1>3. Move \/ UNCHANGED vars => Money'
  BY <1>1 DEF Move, vars, Money
<1>4. \A p \in Calls : /\ kind[p] = "self" => local[p].fee = 0
                       /\ pc[p] = "cancel" /\ local[p].amount > 0 => local[p].fee + local[p].amount = Total
                       /\ local[p].refund # None => /\ refunds[p] = local[p].refund
                                                    /\ local[p].fee + local[p].refund = Total
  BY <1>1 DEF Money
<1>5. ASSUME NEW p \in Calls, SelfRead(p) \/ RequestRead(p) PROVE Ok(p)
  <2>1. pc[p] = "new" /\ UNCHANGED <<local, refunds>> /\ pc'[p] # "cancel"
    BY <1>1, <1>5 DEF SelfRead, RequestRead, Arrive, Goto
  <2>2. local[p] = NoLocals
    BY <1>1, <2>1 DEF Fresh
  <2> QED
    BY <2>1, <2>2 DEF NoLocals
<1>6. ASSUME NEW p \in Calls, RecordSelf(p) \/ File(p) \/ Reopen(p) \/ FinishApproval(p) \/ CloseRequests(p) \/ Abort(p)
      PROVE  Ok(p)
  <2>1. UNCHANGED <<local, refunds, kind>> /\ pc'[p] # "cancel"
    BY <1>1, <1>6 DEF RecordSelf, File, Reopen, FinishApproval, CloseRequests, Abort, At, Goto
  <2> QED
    BY <1>4, <2>1
<1>7. ASSUME NEW p \in Calls, Reject(p) \/ Approve(p) \/ AdminCancel(p) \/ StatusCancel(p) PROVE Ok(p)
  <2>1. local[p] = NoLocals /\ refunds' = refunds /\ kind'[p] # "self"
    BY <1>1, <1>7 DEF Fresh, Reject, Approve, AdminCancel, StatusCancel, Arrive
  <2>2. local'[p].refund = local[p].refund
    <3>1. CASE Reject(p)
      BY <3>1 DEF Reject
    <3>2. CASE Approve(p)
      BY <1>1, <3>2 DEF Approve, Locals
    <3>3. CASE AdminCancel(p)
      BY <1>1, <3>3 DEF AdminCancel, Locals
    <3>4. CASE StatusCancel(p)
      BY <1>1, <3>4 DEF StatusCancel, Locals
    <3> QED
      BY <1>7, <3>1, <3>2, <3>3, <3>4
  <2>3. pc'[p] = "cancel" => StatusCancel(p)
    BY <1>1, <1>7 DEF Reject, Approve, AdminCancel, Goto
  <2>4. StatusCancel(p) => local'[p].fee = local[p].fee /\ local'[p].amount = Total
    BY <1>1 DEF StatusCancel, Locals
  <2> QED
    BY <2>1, <2>2, <2>3, <2>4, MoneyAssumption DEF NoLocals
<1>8. ASSUME NEW p \in Calls, OrderRead(p) PROVE Ok(p)
  <2>1. UNCHANGED <<kind, refunds>>
    BY <1>8 DEF OrderRead, At
  <2>2. CASE local' = local /\ pc'[p] = AfterFailure(p)
    BY <1>4, <2>1, <2>2, LabelFacts
  <2>3. CASE FeeAllowed(p) /\ local' = [local EXCEPT ![p] = [local[p] EXCEPT !.amount = Amount(p)]]
    <3>1. /\ local'[p].fee = local[p].fee /\ local'[p].refund = local[p].refund
          /\ local'[p].amount = Amount(p)
      BY <1>1, <2>3 DEF Locals
    <3>2. Amount(p) > 0 => local[p].fee + Amount(p) = Total
      BY <1>1, <2>3, AmountFacts
    <3> QED
      BY <1>4, <2>1, <3>1, <3>2
  <2> QED
    BY <1>1, <1>8, <2>2, <2>3 DEF OrderRead, Goto
<1>9. ASSUME NEW p \in Calls, ChangeStatus(p) PROVE Ok(p)
  <2>1. pc[p] = "cancel" /\ kind' = kind
    BY <1>9 DEF ChangeStatus, At
  <2>2. kind[p] \in {"self", "approve", "admin", "status"}
    BY <1>1, <2>1 DEF TypeInv, Handlers
  <2>3. pc'[p] # "cancel"
    BY <1>1, <1>9, <2>2, LabelFacts DEF ChangeStatus, Goto
  <2>4. CASE UNCHANGED <<refunds, local>>
    BY <1>4, <2>1, <2>3, <2>4
  <2>5. CASE /\ refunds' = [refunds EXCEPT ![p] = Refund(p)]
             /\ local' = [local EXCEPT ![p] = [local[p] EXCEPT !.refund = Refund(p), !.from = status]]
    <3>1. local'[p].fee = local[p].fee /\ local'[p].refund = Refund(p) /\ refunds'[p] = Refund(p)
      BY <1>1, <2>5 DEF Locals
    <3>2. Refund(p) # None => local[p].amount > 0 /\ Refund(p) = local[p].amount
      BY DEF Refund
    <3> QED
      BY <1>4, <2>1, <2>3, <3>1, <3>2
  <2> QED
    BY <1>9, <2>4, <2>5 DEF ChangeStatus
<1> HIDE DEF Ok
<1> QED
  BY <1>2, <1>3, <1>5, <1>6, <1>7, <1>8, <1>9 DEF Next, Step, Customer, Admin

\* What a claimed request has to fear from a step: nothing, but of the call that holds it.
LEMMA HeldRow ==
  ASSUME Inv, NEW p \in Calls, Step(p), NEW q \in Calls, NEW r \in Calls, Holds(q, r),
         p # q \/ ~(Reopen(p) \/ FinishApproval(p))
  PROVE  requests'[r] = requests[r]
<1>1. requests \in [Calls -> Requests] /\ TypeInv /\ Held /\ Rows
  BY DEF Inv, TypeInv, TypeOK
<1>2. requests[r].status = "APPROVED" /\ pc[r] = "done" /\ r # p
  BY <1>1, Moving DEF Held, Rows
<1>3. CASE RecordSelf(p) \/ File(p)
  BY <1>1, <1>2, <1>3 DEF RecordSelf, File
<1>4. CASE Reject(p) \/ Approve(p)
  BY <1>1, <1>2, <1>4 DEF Reject, Approve, Approvable, Open
<1>5. CASE CloseRequests(p)
  BY <1>1, <1>2, <1>5 DEF CloseRequests, Open
<1>6. CASE Reopen(p) \/ FinishApproval(p)
  <2>1. PICK r2 \in Calls : r2 = local[p].request /\ Holds(p, r2)
    BY <1>1, <1>6 DEF TypeInv, Handlers, Reopen, FinishApproval, At, Holds
  <2>2. r # r2
    BY <1>1, <1>6, <2>1 DEF Held
  <2> QED
    BY <1>1, <1>6, <2>1, <2>2 DEF Reopen, FinishApproval
<1> QED
  BY <1>3, <1>4, <1>5, <1>6 DEF Step, Customer, Admin, SelfRead, RequestRead, AdminCancel, StatusCancel,
     OrderRead, ChangeStatus, Abort

\* A call holds a request from its approval on.
LEMMA HoldsSince ==
  ASSUME TypeOK, NEW p \in Calls, Step(p), NEW r \in Calls, Holds(p, r)'
  PROVE  \/ /\ Holds(p, r) /\ local'[p].fee = local[p].fee
            /\ ~(Reopen(p) \/ FinishApproval(p))
         \/ Approve(p)
<1>1. /\ local \in [Calls -> Locals] /\ kind \in [Calls -> Kinds \cup {"none"}] /\ pc \in [Calls -> Labels]
  BY DEF TypeOK
<1>2. /\ kind'[p] = "approve" /\ local'[p].request = r
      /\ pc'[p] \in {"read", "cancel", "reopen", "finish"}
  BY DEF Holds
<1>3. CASE OrderRead(p)
  <2>1. /\ kind' = kind /\ pc[p] = "read"
        /\ local'[p].fee = local[p].fee /\ local'[p].request = local[p].request
    BY <1>1, <1>3 DEF OrderRead, At, Locals
  <2> QED
    BY <1>2, <1>3, <2>1 DEF Holds, OrderRead, Reopen, FinishApproval, At
<1>4. CASE ChangeStatus(p)
  <2>1. kind' = kind /\ pc[p] = "cancel"
    BY <1>4 DEF ChangeStatus, At
  <2>2. local'[p].fee = local[p].fee /\ local'[p].request = local[p].request
    BY <1>1, <1>4 DEF ChangeStatus, Locals
  <2> QED
    BY <1>2, <1>4, <2>1, <2>2 DEF Holds, Reopen, FinishApproval, At
<1>5. CASE \/ RecordSelf(p) \/ File(p) \/ Reject(p) \/ Reopen(p) \/ FinishApproval(p)
           \/ CloseRequests(p) \/ Abort(p)
  BY <1>1, <1>2, <1>5 DEF RecordSelf, File, Reject, Reopen, FinishApproval, CloseRequests, Abort, Goto
<1>6. CASE SelfRead(p) \/ RequestRead(p) \/ AdminCancel(p) \/ StatusCancel(p)
  BY <1>1, <1>2, <1>6 DEF SelfRead, RequestRead, AdminCancel, StatusCancel, Arrive
<1> QED
  BY <1>3, <1>4, <1>5, <1>6 DEF Step, Customer, Admin

LEMMA HeldStep == Inv /\ [Next]_vars => Held'
<1> SUFFICES ASSUME Inv, [Next]_vars PROVE Held'
  OBVIOUS
<1>1. /\ requests \in [Calls -> Requests] /\ local \in [Calls -> Locals]
      /\ TypeOK /\ TypeInv /\ Held /\ Rows
  BY DEF Inv, TypeInv, TypeOK
<1>2. ASSUME NEW p \in Calls, Step(p) PROVE Held'
  <2>1. \A q \in Calls \ {p}, r \in Calls : Holds(q, r)' <=> Holds(q, r)
    BY <1>1, <1>2, OthersKept DEF Holds
  <2>2. CASE ~Approve(p)
    <3>1. \A q, r \in Calls : Holds(q, r)' => /\ Holds(q, r) /\ local'[q].fee = local[q].fee
                                              /\ requests'[r] = requests[r]
      <4> SUFFICES ASSUME NEW q \in Calls, NEW r \in Calls, Holds(q, r)'
                   PROVE  /\ Holds(q, r) /\ local'[q].fee = local[q].fee
                          /\ requests'[r] = requests[r]
        OBVIOUS
      <4>1. Holds(q, r) /\ local'[q].fee = local[q].fee
        BY <1>1, <1>2, <2>1, <2>2, OthersKept, HoldsSince
      <4>2. p # q \/ ~(Reopen(p) \/ FinishApproval(p))
        BY <1>1, <1>2, <2>2, HoldsSince
      <4> QED
        BY <1>2, <4>1, <4>2, HeldRow
    <3> QED
      BY <1>1, <3>1 DEF Held
  <2>3. CASE Approve(p)
    <3>1. PICK r \in Calls, fee \in Fees :
            /\ Approvable(r)
            /\ requests' = [requests EXCEPT ![r] = [requests[r] EXCEPT !.status = "APPROVED", !.fee = fee]]
            /\ local' = [local EXCEPT ![p] = [local[p] EXCEPT !.fee = fee, !.request = r]]
      BY <2>3 DEF Approve
    <3>2. requests[r].status = "REQUESTED" /\ requests[r].refund = None
      BY <1>1, <3>1 DEF Approvable, Open, Rows
    <3>3. /\ requests'[r].status = "APPROVED" /\ requests'[r].refund = None /\ requests'[r].fee = fee
          /\ local'[p].fee = fee /\ local'[p].request = r
      BY <1>1, <3>1, <3>2 DEF Requests, Locals
    <3>4. \A q \in Calls : ~Holds(q, r)
      BY <1>1, <3>2 DEF Held
    <3>5. \A q \in Calls \ {p}, s \in Calls : Holds(q, s)' =>
            Holds(q, s) /\ requests'[s] = requests[s] /\ local'[q].fee = local[q].fee
      BY <1>1, <1>2, <2>1, <3>1, <3>4, OthersKept
    <3>6. \A s \in Calls : Holds(p, s)' => s = r
      BY <3>3 DEF Holds
    <3> QED
      BY <1>1, <3>3, <3>4, <3>5, <3>6 DEF Held
  <2> QED
    BY <2>2, <2>3
<1>3. CASE Move \/ UNCHANGED vars
  BY <1>1, <1>3 DEF Move, vars, Held, Holds
<1> QED
  BY <1>2, <1>3 DEF Next, Step

\* Which steps approve a request.
LEMMA Approved ==
  ASSUME Inv, NEW p \in Calls, Step(p), NEW r \in Calls, requests'[r].status = "APPROVED"
  PROVE  \/ requests[r].status = "APPROVED" /\ (Reopen(p) => local[p].request # r)
         \/ Approving(p, r)'
         \/ CloseRequests(p)
<1>1. /\ requests \in [Calls -> Requests] /\ local \in [Calls -> Locals]
      /\ kind \in [Calls -> Kinds \cup {"none"}] /\ pc \in [Calls -> Labels]
      /\ TypeInv /\ Held
  BY DEF Inv, TypeInv, TypeOK
<1>2. CASE RecordSelf(p) \/ File(p)
  BY <1>1, <1>2 DEF RecordSelf, File, Reopen, At
<1>3. CASE Reject(p)
  <2>1. PICK s \in Calls : requests' = [requests EXCEPT ![s] = [requests[s] EXCEPT !.status = "REJECTED"]]
    BY <1>3 DEF Reject
  <2>2. requests'[s].status = "REJECTED"
    BY <1>1, <2>1 DEF Requests
  <2> QED
    BY <1>1, <1>3, <2>1, <2>2 DEF Reject, Reopen, Arrive, At
<1>4. CASE Approve(p)
  <2>1. PICK s \in Calls, fee \in Fees :
          /\ requests' = [requests EXCEPT ![s] = [requests[s] EXCEPT !.status = "APPROVED", !.fee = fee]]
          /\ local' = [local EXCEPT ![p] = [local[p] EXCEPT !.fee = fee, !.request = s]]
    BY <1>4 DEF Approve
  <2>2. local'[p].request = s
    BY <1>1, <2>1 DEF Locals
  <2>3. kind'[p] = "approve" /\ pc'[p] = "read"
    BY <1>1, <1>4 DEF Approve, Arrive, Goto
  <2>4. CASE r = s
    BY <2>2, <2>3, <2>4 DEF Approving
  <2>5. CASE r # s
    BY <1>1, <1>4, <2>1, <2>5 DEF Approve, Reopen, Arrive, At
  <2> QED
    BY <2>4, <2>5
<1>5. CASE Reopen(p) \/ FinishApproval(p)
  <2>1. PICK s \in Calls : s = local[p].request /\ Holds(p, s)
    BY <1>1, <1>5 DEF TypeInv, Handlers, Reopen, FinishApproval, At, Holds
  <2>2. requests[s].status = "APPROVED"
    BY <1>1, <2>1 DEF Held
  <2>3. CASE r = s
    <3>1. Reopen(p) => requests'[s].status = "REQUESTED"
      BY <1>1, <2>1 DEF Reopen, Requests
    <3> QED
      BY <2>2, <2>3, <3>1
  <2>4. CASE r # s
    BY <1>1, <1>5, <2>1, <2>4 DEF Reopen, FinishApproval
  <2> QED
    BY <2>3, <2>4
<1>6. CASE UNCHANGED requests /\ ~Reopen(p)
  BY <1>6
<1>7. ASSUME Reopen(p) PROVE ~(SelfRead(p) \/ RequestRead(p) \/ AdminCancel(p) \/ StatusCancel(p)
                                \/ OrderRead(p) \/ ChangeStatus(p) \/ (Abort(p) /\ requests' = requests /\ pc'[p] = "aborted"))
  BY <1>1, <1>7 DEF Reopen, SelfRead, RequestRead, AdminCancel, StatusCancel, OrderRead, ChangeStatus, At,
     Arrive, Goto
<1>8. Abort(p) => requests' = requests /\ pc'[p] = "aborted"
  BY <1>1 DEF Abort, Goto
<1> QED
  BY <1>2, <1>3, <1>4, <1>5, <1>6, <1>7, <1>8 DEF Step, Customer, Admin, SelfRead, RequestRead, AdminCancel,
     StatusCancel, OrderRead, ChangeStatus

LEMMA ApprovedStep == Inv /\ [Next]_vars => ApprovedIsCancelled'
<1> SUFFICES ASSUME Inv, [Next]_vars PROVE ApprovedIsCancelled'
  OBVIOUS
<1>1. /\ requests \in [Calls -> Requests] /\ local \in [Calls -> Locals]
      /\ kind \in [Calls -> Kinds \cup {"none"}] /\ pc \in [Calls -> Labels]
      /\ TypeOK /\ TypeInv /\ ApprovedIsCancelled /\ Ended
  BY DEF Inv, TypeInv, TypeOK
<1>2. ASSUME NEW p \in Calls, Step(p) PROVE ApprovedIsCancelled'
  <2> SUFFICES ASSUME NEW r \in Calls, requests'[r].status = "APPROVED", status' \notin RestockStatuses
               PROVE  \E q \in Calls : Approving(q, r)' \/ Died(q, r)'
    BY DEF ApprovedIsCancelled
  <2>1. status \notin RestockStatuses
    BY <1>1, EndsStay
  <2>2. ~CloseRequests(p)
    BY <1>1, <1>2, <2>1 DEF CloseRequests, At, Ended
  <2>3. CASE Approving(p, r)'
    BY <2>3
  <2>4. CASE requests[r].status = "APPROVED" /\ (Reopen(p) => local[p].request # r)
    <3>1. PICK q \in Calls : Approving(q, r) \/ Died(q, r)
      BY <1>1, <2>1, <2>4 DEF ApprovedIsCancelled
    <3>2. CASE q # p
      BY <1>1, <1>2, <3>1, <3>2, OthersKept DEF Approving, Died
    <3>3. CASE q = p
      <4>1. Approving(p, r)
        BY <1>1, <1>2, <3>1, <3>3, Moving DEF Died
      <4>2. CASE OrderRead(p)
        <5>1. /\ kind' = kind /\ local'[p].request = local[p].request
              /\ pc'[p] = "cancel" \/ pc'[p] = AfterFailure(p)
          BY <1>1, <4>2 DEF OrderRead, At, Goto, Locals
        <5> QED
          BY <4>1, <5>1 DEF Approving, AfterFailure
      <4>3. CASE ChangeStatus(p)
        <5>1. kind' = kind /\ pc'[p] = AfterFailure(p) /\ local' = local
          BY <1>1, <2>1, <4>3, StatusFacts DEF ChangeStatus, At, Goto
        <5> QED
          BY <4>1, <5>1 DEF Approving, AfterFailure
      <4>4. CASE Abort(p)
        BY <1>1, <4>1, <4>4 DEF Abort, Goto, Approving, Died
      <4>5. ~Reopen(p)
        BY <2>4, <4>1 DEF Approving
      <4> QED
        BY <1>2, <2>2, <4>1, <4>2, <4>3, <4>4, <4>5 DEF Approving, Step, Customer, Admin, SelfRead, RecordSelf,
           RequestRead, File, Reject, Approve, FinishApproval, AdminCancel, StatusCancel, Arrive, At
    <3> QED
      BY <3>2, <3>3
  <2> QED
    BY <1>2, <2>2, <2>3, <2>4, Approved
<1>3. CASE Move \/ UNCHANGED vars
  BY <1>1, <1>3, EndsStay DEF Move, vars, ApprovedIsCancelled, Approving, Died
<1> QED
  BY <1>2, <1>3 DEF Next, Step

\* Refund rows are made once the order leaves its last live status, and kept.
LEMMA RefundsStep ==
  ASSUME Inv, NEW p \in Calls, Step(p)
  PROVE  /\ \A q \in Calls : refunds[q] # None => refunds'[q] = refunds[q]
         /\ \A q, r \in Calls : refunds'[q] # None /\ refunds'[r] # None => q = r
<1>1. /\ refunds \in [Calls -> Amounts] /\ Ended
      /\ \A q, r \in Calls : refunds[q] # None /\ refunds[r] # None => q = r
  BY DEF Inv, TypeInv, TypeOK, RefundAsRecorded
<1>2. CASE refunds' = refunds
  BY <1>1, <1>2
<1>3. CASE ChangeStatus(p) /\ status \notin RestockStatuses
  <2>1. \A q \in Calls : refunds[q] = None
    BY <1>1, <1>3 DEF Ended
  <2>2. \A q \in Calls \ {p} : refunds'[q] = None
    BY <1>1, <1>3, <2>1 DEF ChangeStatus
  <2> QED
    BY <2>1, <2>2
<1> QED
  BY <1>2, <1>3, StatusFacts DEF Step, Customer, Admin, SelfRead, RecordSelf, RequestRead, File, Reject, Approve, Reopen,
     FinishApproval, AdminCancel, CloseRequests, StatusCancel, OrderRead, ChangeStatus, Abort

\* A request that names a refund named it before, or takes the refund and the fee of the
\* call that writes it.
LEMMA RefundNamed ==
  ASSUME Inv, NEW p \in Calls, Step(p), NEW r \in Calls, requests'[r].refund # None
  PROVE  \/ requests'[r].refund = requests[r].refund /\ requests'[r].fee = requests[r].fee
         \/ requests'[r].refund = local[p].refund /\ requests'[r].fee = local[p].fee
<1>1. /\ requests \in [Calls -> Requests] /\ TypeInv /\ Held /\ Rows /\ Money
  BY DEF Inv, TypeInv, TypeOK
<1>2. CASE RecordSelf(p)
  <2>1. local[p].fee = 0
    BY <1>1, <1>2 DEF Money, RecordSelf, At, TypeInv, Handlers
  <2>2. /\ requests'[p].refund = local[p].refund /\ requests'[p].fee = 0
        /\ \A s \in Calls \ {p} : requests'[s] = requests[s]
    BY <1>1, <1>2 DEF RecordSelf
  <2> QED
    BY <2>1, <2>2
<1>3. CASE File(p)
  BY <1>1, <1>3 DEF File
<1>4. CASE Reject(p)
  <2>1. PICK s \in Calls : requests' = [requests EXCEPT ![s] = [requests[s] EXCEPT !.status = "REJECTED"]]
    BY <1>4 DEF Reject
  <2>2. requests'[s].refund = requests[s].refund /\ requests'[s].fee = requests[s].fee
    BY <1>1, <2>1 DEF Requests
  <2> QED
    BY <1>1, <2>1, <2>2
<1>5. CASE Approve(p)
  <2>1. PICK s \in Calls, fee \in Fees :
          /\ Approvable(s)
          /\ requests' = [requests EXCEPT ![s] = [requests[s] EXCEPT !.status = "APPROVED", !.fee = fee]]
    BY <1>5 DEF Approve
  <2>2. requests[s].refund = None
    BY <1>1, <2>1 DEF Approvable, Open, Rows
  <2>3. requests'[s].refund = None
    BY <1>1, <2>1, <2>2 DEF Requests
  <2> QED
    BY <1>1, <2>1, <2>3
<1>6. CASE Reopen(p) \/ FinishApproval(p)
  <2>1. PICK s \in Calls : s = local[p].request /\ Holds(p, s)
    BY <1>1, <1>6 DEF TypeInv, Handlers, Reopen, FinishApproval, At, Holds
  <2>2. requests[s].refund = None /\ requests[s].fee = local[p].fee
    BY <1>1, <2>1 DEF Held
  <2>3. CASE r = s
    <3>1. Reopen(p) => requests'[s].refund = None
      BY <1>1, <2>1, <2>2 DEF Reopen, Requests
    <3>2. FinishApproval(p) => requests'[s].refund = local[p].refund /\ requests'[s].fee = local[p].fee
      BY <1>1, <2>1, <2>2 DEF FinishApproval, Requests
    <3> QED
      BY <1>6, <2>3, <3>1, <3>2
  <2>4. CASE r # s
    BY <1>1, <1>6, <2>1, <2>4 DEF Reopen, FinishApproval
  <2> QED
    BY <2>3, <2>4
<1>7. CASE CloseRequests(p)
  BY <1>1, <1>7 DEF CloseRequests, Open
<1> QED
  BY <1>2, <1>3, <1>4, <1>5, <1>6, <1>7 DEF Step, Customer, Admin, SelfRead, RequestRead, AdminCancel,
     StatusCancel, OrderRead, ChangeStatus, Abort

LEMMA RefundStep == Inv /\ [Next]_vars => RefundAsRecorded'
<1> SUFFICES ASSUME Inv, [Next]_vars PROVE RefundAsRecorded'
  OBVIOUS
<1>1. RefundAsRecorded /\ Money
  BY DEF Inv
<1>2. ASSUME NEW p \in Calls, Step(p) PROVE RefundAsRecorded'
  <2>1. \A q, r \in Calls : refunds'[q] # None /\ refunds'[r] # None => q = r
    BY <1>2, RefundsStep
  <2> SUFFICES ASSUME NEW r \in Calls, requests'[r].refund # None
               PROVE  /\ \E q \in Calls : refunds'[q] = requests'[r].refund
                      /\ requests'[r].fee + requests'[r].refund = Total
    BY <2>1 DEF RefundAsRecorded
  <2>2. CASE requests'[r].refund = requests[r].refund /\ requests'[r].fee = requests[r].fee
    <3>1. /\ \E q \in Calls : refunds[q] = requests[r].refund
          /\ requests[r].fee + requests[r].refund = Total
      BY <1>1, <2>2 DEF RefundAsRecorded
    <3> QED
      BY <1>2, <2>2, <3>1, RefundsStep
  <2>3. CASE requests'[r].refund = local[p].refund /\ requests'[r].fee = local[p].fee
    <3>1. refunds[p] = local[p].refund /\ local[p].fee + local[p].refund = Total
      BY <1>1, <2>3 DEF Money
    <3> QED
      BY <1>2, <2>3, <3>1, RefundsStep
  <2> QED
    BY <1>2, <2>2, <2>3, RefundNamed
<1>3. CASE Move \/ UNCHANGED vars
  BY <1>1, <1>3 DEF Move, vars, RefundAsRecorded
<1> QED
  BY <1>2, <1>3 DEF Next, Step

LEMMA InvInit == Init => Inv
<1> SUFFICES ASSUME Init PROVE Inv
  OBVIOUS
<1>1. TypeInv
  BY TypeInit DEF Init, TypeInv, Handlers
<1>2. Fresh /\ Rows /\ Held /\ Ended
  BY DEF Init, Fresh, Rows, Held, Holds, Ended, NoRequest
<1>3. Money
  BY DEF Init, Money, NoLocals
<1>4. ApprovedIsCancelled /\ RefundAsRecorded
  BY DEF Init, ApprovedIsCancelled, RefundAsRecorded, NoRequest
<1> QED
  BY <1>1, <1>2, <1>3, <1>4 DEF Inv

LEMMA Invariant == Spec => []Inv
<1>1. Inv /\ [Next]_vars => Inv'
  BY TypeStep, HandlersStep, FreshStep, RowsStep, HeldStep, EndedStep, MoneyStep, ApprovedStep, RefundStep
     DEF Inv, TypeInv
<1> QED
  BY <1>1, InvInit, PTL DEF Spec

\* "Claim the request first so two admins cannot approve (and refund) twice": no request
\* is under two approvals at once.
THEOREM OneApprovalCorrect == Spec => []OneApproval
<1>1. Inv => OneApproval
  BY DEF Inv, Held, Holds, OneApproval, Approving
<1> QED
  BY <1>1, Invariant, PTL

\* An approved request is one of a cancelled order, however approvals fail and race.
THEOREM ApprovedCorrect == Spec => []ApprovedIsCancelled
  BY Invariant, PTL DEF Inv

\* The order is refunded once, and every request that names a refund names that one and
\* the fee that was withheld from it.
THEOREM RefundCorrect == Spec => []RefundAsRecorded
  BY Invariant, PTL DEF Inv
=============================================================================
