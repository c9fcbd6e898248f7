---------------------------- MODULE AdminProofs ----------------------------
(***************************************************************************)
(* Proofs about the alerts, the admins, the pictures, the tree of          *)
(* categories and the rate limiter, for any number of calls, accounts,     *)
(* pictures, categories and keys.                                          *)
(***************************************************************************)
EXTENDS StockAlerts, AdminGrants, ProductImages, Categories, RateLimit,
        FiniteSetTheorems, TLAPS

-----------------------------------------------------------------------------
(* StockAlerts: types.                                                     *)

AlertSteps == {"idle", "read", "clear", "claim sold out", "clear sold out",
               "claim low", "mail sold out", "mail low", "done"}

LEMMA AlertsTypeStep == AlertsTypeOK /\ [AlertsNext]_alertsVars => AlertsTypeOK'
<1> SUFFICES ASSUME AlertsTypeOK, [AlertsNext]_alertsVars PROVE AlertsTypeOK'
  OBVIOUS
<1> DEFINE Marks == left \in Nat /\ lowMark \in {0, 1} /\ soldMark \in {0, 1}
<1> DEFINE Counts == lowMails \in Nat /\ soldMails \in Nat /\ lowCleared \in Nat /\ soldCleared \in Nat
<1> DEFINE Flags == tracked \in BOOLEAN /\ alone \in BOOLEAN
<1> DEFINE Places == doing \in [AlertCalls -> AlertSteps]
<1>1. Marks
  BY DEF AlertsTypeOK
<1>c. Counts
  BY DEF AlertsTypeOK
<1>f. Flags
  BY DEF AlertsTypeOK
<1>p. Places
  BY DEF AlertsTypeOK, AlertSteps
<1>2. Marks' /\ Counts' /\ Flags' /\ Places' => AlertsTypeOK'
  BY DEF AlertsTypeOK, AlertSteps
<1>3. ASSUME NEW k \in AlertCalls, NEW next \in AlertSteps, Turn(k, next) PROVE Places'
  BY <1>p, <1>3 DEF Turn
<1>4. ASSUME NEW k \in AlertCalls, NEW n \in 0 .. MaxLeft, NEW t \in BOOLEAN, ChangeStock(k, n, t)
      PROVE  AlertsTypeOK'
  <2>1. AlertsAtRest \in BOOLEAN
    BY DEF AlertsAtRest
  <2>2. Flags'
    BY <1>4, <2>1 DEF ChangeStock
  <2>3. Marks'
    BY <1>1, <1>4, AlertsAssumption DEF ChangeStock, alertMarks
  <2>5. Counts'
    BY <1>c, <1>4 DEF ChangeStock
  <2>4. Places'
    BY <1>3, <1>4 DEF ChangeStock, AlertSteps
  <2> QED
    BY <1>2, <2>2, <2>3, <2>4, <2>5
<1>5. ASSUME NEW k \in AlertCalls, ReadRow(k) PROVE AlertsTypeOK'
  <2>1. Marks'
    BY <1>1, <1>5 DEF ReadRow, alertRow, alertMarks, alertHistory
  <2>5. Counts'
    BY <1>c, <1>5 DEF ReadRow, alertHistory
  <2>2. Flags'
    BY <1>f, <1>5 DEF ReadRow, alertRow, alertHistory
  <2>3. Places'
    BY <1>3, <1>5 DEF ReadRow, AlertSteps
  <2> QED
    BY <1>2, <2>1, <2>2, <2>3, <2>5
<1>6. ASSUME NEW k \in AlertCalls, ClearMarks(k) PROVE AlertsTypeOK'
  <2>1. Marks'
    BY <1>1, <1>6 DEF ClearMarks, alertRow, alertMarks, alertHistory
  <2>4. lowCleared' = lowCleared + lowMark /\ soldCleared' = soldCleared + soldMark /\ UNCHANGED <<lowMails, soldMails>>
    BY <1>6 DEF ClearMarks
  <2>5. Counts'
    BY <1>1, <1>c, <2>4
  <2>2. Flags'
    BY <1>f, <1>6 DEF ClearMarks, alertRow, alertHistory
  <2>3. Places'
    BY <1>3, <1>6 DEF ClearMarks, AlertSteps
  <2> QED
    BY <1>2, <2>1, <2>2, <2>3, <2>5
<1>7. ASSUME NEW k \in AlertCalls, ClaimSoldOut(k) PROVE AlertsTypeOK'
  <2>1. Marks'
    BY <1>1, <1>7 DEF ClaimSoldOut, LowMarkSet, alertRow, alertMarks, alertHistory
  <2>5. Counts'
    BY <1>c, <1>7 DEF ClaimSoldOut, alertHistory
  <2>2. Flags'
    BY <1>f, <1>7 DEF ClaimSoldOut, alertRow, alertHistory
  <2>3. Places'
    BY <1>3, <1>7 DEF ClaimSoldOut, AlertSteps
  <2> QED
    BY <1>2, <2>1, <2>2, <2>3, <2>5
<1>8. ASSUME NEW k \in AlertCalls, ClearSoldOut(k) PROVE AlertsTypeOK'
  <2>1. Marks'
    BY <1>1, <1>8 DEF ClearSoldOut, SoldMarkCleared, alertRow, alertMarks, alertHistory
  <2>4. soldCleared' = soldCleared + soldMark /\ UNCHANGED <<lowMails, soldMails, lowCleared>>
    BY <1>8 DEF ClearSoldOut
  <2>5. Counts'
    BY <1>1, <1>c, <2>4
  <2>2. Flags'
    BY <1>f, <1>8 DEF ClearSoldOut, alertRow, alertHistory
  <2>3. Places'
    BY <1>3, <1>8 DEF ClearSoldOut, AlertSteps
  <2> QED
    BY <1>2, <2>1, <2>2, <2>3, <2>5
<1>9. ASSUME NEW k \in AlertCalls, ClaimLow(k) PROVE AlertsTypeOK'
  <2>1. Marks'
    BY <1>1, <1>9 DEF ClaimLow, alertRow, alertMarks, alertHistory
  <2>5. Counts'
    BY <1>c, <1>9 DEF ClaimLow, alertHistory
  <2>2. Flags'
    BY <1>f, <1>9 DEF ClaimLow, alertRow, alertHistory
  <2>3. Places'
    BY <1>3, <1>9 DEF ClaimLow, AlertSteps
  <2> QED
    BY <1>2, <2>1, <2>2, <2>3, <2>5
<1>10. ASSUME NEW k \in AlertCalls, MailSoldOut(k) PROVE AlertsTypeOK'
  <2>1. Marks'
    BY <1>1, <1>10 DEF MailSoldOut, alertRow, alertMarks, alertHistory
  <2>4. soldMails' = soldMails + 1 /\ UNCHANGED <<lowMails, lowCleared, soldCleared>>
    BY <1>10 DEF MailSoldOut
  <2>5. Counts'
    BY <1>1, <1>c, <2>4
  <2>2. Flags'
    BY <1>f, <1>10 DEF MailSoldOut, alertRow, alertHistory
  <2>3. Places'
    BY <1>3, <1>10 DEF MailSoldOut, AlertSteps
  <2> QED
    BY <1>2, <2>1, <2>2, <2>3, <2>5
<1>11. ASSUME NEW k \in AlertCalls, MailLow(k) PROVE AlertsTypeOK'
  <2>1. Marks'
    BY <1>1, <1>11 DEF MailLow, alertRow, alertMarks, alertHistory
  <2>4. lowMails' = lowMails + 1 /\ UNCHANGED <<soldMails, lowCleared, soldCleared>>
    BY <1>11 DEF MailLow
  <2>5. Counts'
    BY <1>1, <1>c, <2>4
  <2>2. Flags'
    BY <1>f, <1>11 DEF MailLow, alertRow, alertHistory
  <2>3. Places'
    BY <1>3, <1>11 DEF MailLow, AlertSteps
  <2> QED
    BY <1>2, <2>1, <2>2, <2>3, <2>5
<1>12. ASSUME NEW k \in AlertCalls, AlertFails(k) PROVE AlertsTypeOK'
  <2>1. Marks'
    BY <1>1, <1>12 DEF AlertFails, alertRow, alertMarks, alertHistory
  <2>5. Counts'
    BY <1>c, <1>12 DEF AlertFails, alertHistory
  <2>2. Flags'
    BY <1>f, <1>12 DEF AlertFails, alertRow, alertHistory
  <2>3. Places'
    BY <1>3, <1>12 DEF AlertFails, AlertSteps
  <2> QED
    BY <1>2, <2>1, <2>2, <2>3, <2>5
<1>13. CASE UNCHANGED alertsVars
  BY <1>1, <1>c, <1>f, <1>p, <1>2, <1>13 DEF alertsVars, alertRow, alertMarks, alertHistory
<1> QED
  BY <1>4, <1>5, <1>6, <1>7, <1>8, <1>9, <1>10, <1>11, <1>12, <1>13 DEF AlertsNext

-----------------------------------------------------------------------------
(* StockAlerts: the markers.                                               *)

\* Where a step leaves the markers.
LEMMA MarkMoves ==
  ASSUME [AlertsNext]_alertsVars
  PROVE  \/ lowMark' = lowMark /\ soldMark' = soldMark
         \/ lowMark' = 0 /\ soldMark' = 0
         \/ lowMark' = 1 /\ soldMark' = 1
         \/ lowMark' = lowMark /\ soldMark' = 0
         \/ lowMark' = 1 /\ soldMark' = soldMark
  BY DEF AlertsNext, alertsVars, alertMarks, ChangeStock, ReadRow, ClearMarks, ClaimSoldOut, LowMarkSet,
         ClearSoldOut, SoldMarkCleared, ClaimLow, MailSoldOut, MailLow, AlertFails

LEMMA SoldOutStep == AlertsTypeOK /\ SoldOutImpliesLow /\ [AlertsNext]_alertsVars => SoldOutImpliesLow'
<1> SUFFICES ASSUME AlertsTypeOK, SoldOutImpliesLow, [AlertsNext]_alertsVars PROVE SoldOutImpliesLow'
  OBVIOUS
<1>1. lowMark \in {0, 1} /\ soldMark \in {0, 1}
  BY DEF AlertsTypeOK
<1> QED
  BY <1>1, MarkMoves DEF SoldOutImpliesLow

LEMMA AlertsInitially == AlertsInit => AlertsTypeOK /\ SoldOutImpliesLow
<1> SUFFICES ASSUME AlertsInit PROVE AlertsTypeOK /\ SoldOutImpliesLow
  OBVIOUS
<1>1. left \in Nat /\ lowMark \in {0, 1} /\ soldMark \in {0, 1} /\ soldMark <= lowMark
  BY AlertsAssumption DEF AlertsInit
<1>2. lowMails \in Nat /\ soldMails \in Nat /\ lowCleared \in Nat /\ soldCleared \in Nat
  BY <1>1 DEF AlertsInit
<1>3. tracked \in BOOLEAN /\ alone \in BOOLEAN
  BY DEF AlertsInit
<1>4. doing \in [AlertCalls -> AlertSteps]
  BY DEF AlertsInit, AlertSteps
<1> QED
  BY <1>1, <1>2, <1>3, <1>4 DEF AlertsTypeOK, AlertSteps, SoldOutImpliesLow

\* The alerts are well typed.
THEOREM AlertsTypeCorrect == AlertsSpec => []AlertsTypeOK
  BY AlertsInitially, AlertsTypeStep, PTL DEF AlertsSpec

\* A marked sell-out is marked as low too, whatever races, fails or stops.
THEOREM SoldOutCorrect == AlertsSpec => []SoldOutImpliesLow
  BY AlertsInitially, AlertsTypeStep, SoldOutStep, PTL DEF AlertsSpec

\* What a call that runs alone knows.
Knows(k) ==
  /\ doing[k] = "clear" => ~LowNow
  /\ doing[k] \in {"claim sold out", "clear sold out", "claim low", "mail sold out", "mail low"} => LowNow
  /\ doing[k] \in {"claim sold out", "mail sold out"} => left <= 0
  /\ doing[k] \in {"clear sold out", "claim low", "mail low"} => ~(left <= 0)
  /\ doing[k] = "claim low" => soldMark = 0
  /\ doing[k] = "mail sold out" => soldMark = 1
  /\ doing[k] = "mail low" => lowMark = 1 /\ soldMark = 0

Running(k) == doing[k] \notin {"idle", "done"}

\* The strengthening: a call that runs alone is the only one, and knows
\* what the row says.
AloneInv ==
  /\ AlertsTypeOK /\ SoldOutImpliesLow /\ SettledMarkers
  /\ alone => \A k, j \in AlertCalls : Running(k) /\ Running(j) => k = j
  /\ alone => \A k \in AlertCalls : Knows(k)

LEMMA AloneStep == AloneInv /\ [AlertsNext]_alertsVars => AloneInv'
<1> SUFFICES ASSUME AloneInv, [AlertsNext]_alertsVars PROVE AloneInv'
  OBVIOUS
<1>1. AlertsTypeOK' /\ SoldOutImpliesLow'
  BY AlertsTypeStep, SoldOutStep DEF AloneInv
<1>2. SoldOutImpliesLow /\ lowMark \in {0, 1} /\ soldMark \in {0, 1} /\ doing \in [AlertCalls -> AlertSteps] /\ left \in Nat /\ Threshold \in Nat
  BY AlertsAssumption DEF AloneInv, AlertsTypeOK, AlertSteps
<1> DEFINE Only == \A k, j \in AlertCalls : Running(k) /\ Running(j) => k = j
<1> DEFINE Known == \A k \in AlertCalls : Knows(k)
<1>3. ASSUME NEW k \in AlertCalls, NEW n \in 0 .. MaxLeft, NEW t \in BOOLEAN, ChangeStock(k, n, t), alone'
      PROVE  Only' /\ Known' /\ SettledMarkers'
  <2>1. AlertsAtRest /\ doing' = [doing EXCEPT ![k] = "read"]
    BY <1>3 DEF ChangeStock, Turn
  <2> QED
    BY <1>2, <2>1 DEF AlertsAtRest, Running, Knows, SettledMarkers, LowNow
<1>4. ASSUME NEW k \in AlertCalls, alone', alone, UNCHANGED alertRow, Running(k),
             \A j \in AlertCalls : j # k => doing'[j] = doing[j],
             Knows(k)', ~Running(k)' => (lowMark' = 1 <=> LowNow') /\ (soldMark' = 1 <=> LowNow' /\ left' <= 0)
      PROVE  Only' /\ Known' /\ SettledMarkers'
  <2>1. \A j \in AlertCalls : j # k => ~Running(j)
    BY <1>4 DEF AloneInv
  <2>2. \A j \in AlertCalls : j # k => doing[j] \in {"idle", "done"} /\ doing'[j] \in {"idle", "done"}
    BY <1>4, <2>1 DEF Running
  <2>3. Only' /\ \A j \in AlertCalls : j # k => Knows(j)'
    BY <2>2 DEF Running, Knows
  <2>4. SettledMarkers'
    BY <1>4 DEF SettledMarkers, AlertsAtRest, Running
  <2> QED
    BY <1>4, <2>3, <2>4
<1>5. ASSUME NEW k \in AlertCalls, alone',
             ReadRow(k) \/ ClearMarks(k) \/ ClaimSoldOut(k) \/ ClearSoldOut(k) \/ ClaimLow(k)
             \/ MailSoldOut(k) \/ MailLow(k)
      PROVE  Only' /\ Known' /\ SettledMarkers'
  <2>1. alone /\ left' = left /\ tracked' = tracked
    BY <1>5 DEF ReadRow, ClearMarks, ClaimSoldOut, ClearSoldOut, ClaimLow, MailSoldOut, MailLow, alertRow,
                alertHistory
  <2>2. LowNow' <=> LowNow
    BY <2>1 DEF LowNow
  <2>3. Running(k)
    BY <1>5 DEF ReadRow, ClearMarks, ClaimSoldOut, ClearSoldOut, ClaimLow, MailSoldOut, MailLow, Running
  <2>4. Knows(k)
    BY <2>1 DEF AloneInv
  <2>5. \A j \in AlertCalls : j # k => doing'[j] = doing[j]
    BY <1>2, <1>5 DEF ReadRow, ClearMarks, ClaimSoldOut, ClearSoldOut, ClaimLow, MailSoldOut, MailLow, Turn
  <2> DEFINE Good == /\ Knows(k)'
                     /\ ~Running(k)' => (lowMark' = 1 <=> LowNow') /\ (soldMark' = 1 <=> LowNow' /\ left' <= 0)
  <2>6. ASSUME ReadRow(k) PROVE Good
    <3>1. lowMark' = lowMark /\ soldMark' = soldMark
      BY <2>6 DEF ReadRow, alertMarks
    <3>2. lowMark + soldMark = 0 => lowMark = 0 /\ soldMark = 0
      BY <1>2
    <3>3. \/ ~LowNow /\ doing'[k] = "clear"
          \/ ~LowNow /\ lowMark = 0 /\ soldMark = 0 /\ doing'[k] = "done"
          \/ LowNow /\ left <= 0 /\ doing'[k] = "claim sold out"
          \/ LowNow /\ ~(left <= 0) /\ doing'[k] = "clear sold out"
          \/ LowNow /\ ~(left <= 0) /\ soldMark = 0 /\ doing'[k] = "claim low"
      <4>1. left > 0 => ~(left <= 0)
        BY <1>2
      <4> QED
        BY <1>2, <2>6, <3>2, <4>1 DEF ReadRow, Turn
    <3>4. Knows(k)'
      BY <2>1, <2>2, <3>1, <3>3 DEF Knows
    <3>5. ~Running(k)' => ~LowNow /\ lowMark = 0 /\ soldMark = 0
      BY <3>3 DEF Running
    <3> QED
      BY <2>2, <3>1, <3>4, <3>5
  <2>7. ASSUME ClearMarks(k) PROVE Good
    <3>1. doing[k] = "clear" /\ doing'[k] = "done" /\ lowMark' = 0 /\ soldMark' = 0
      BY <1>2, <2>7 DEF ClearMarks, Turn
    <3> QED
      BY <2>1, <2>2, <2>4, <3>1 DEF Knows, Running
  <2>8. ASSUME ClaimSoldOut(k) PROVE Good
    <3>1. \/ lowMark' = 1 /\ soldMark' = 1 /\ doing'[k] = "mail sold out"
          \/ soldMark # 0 /\ lowMark' = lowMark /\ soldMark' = soldMark /\ doing'[k] = "done"
      BY <1>2, <2>8 DEF ClaimSoldOut, LowMarkSet, Free, Turn, alertMarks
    <3>2. soldMark # 0 => soldMark = 1 /\ lowMark = 1
      BY <1>2 DEF SoldOutImpliesLow
    <3>3. doing[k] = "claim sold out"
      BY <2>8 DEF ClaimSoldOut
    <3> QED
      BY <2>1, <2>2, <2>4, <3>1, <3>2, <3>3 DEF Knows, Running
  <2>9. ASSUME ClearSoldOut(k) PROVE Good
    <3>1. doing[k] = "clear sold out" /\ doing'[k] = "claim low" /\ soldMark' = 0
      BY <1>2, <2>9 DEF ClearSoldOut, SoldMarkCleared, Turn
    <3> QED
      BY <2>1, <2>2, <2>4, <3>1 DEF Knows, Running
  <2>10. ASSUME ClaimLow(k) PROVE Good
    <3>1. /\ doing[k] = "claim low" /\ soldMark' = soldMark
          /\ \/ lowMark' = 1 /\ doing'[k] = "mail low"
             \/ lowMark # 0 /\ lowMark' = lowMark /\ doing'[k] = "done"
      BY <1>2, <2>10 DEF ClaimLow, Free, Turn
    <3>2. lowMark # 0 => lowMark = 1
      BY <1>2
    <3> QED
      BY <2>1, <2>2, <2>4, <3>1, <3>2 DEF Knows, Running
  <2>11. ASSUME MailSoldOut(k) PROVE Good
    <3>1. doing[k] = "mail sold out" /\ doing'[k] = "done" /\ lowMark' = lowMark /\ soldMark' = soldMark
      BY <1>2, <2>11 DEF MailSoldOut, Turn, alertMarks
    <3>2. soldMark = 1 => lowMark = 1
      BY <1>2 DEF SoldOutImpliesLow
    <3> QED
      BY <2>1, <2>2, <2>4, <3>1, <3>2 DEF Knows, Running
  <2>12. ASSUME MailLow(k) PROVE Good
    <3>1. doing[k] = "mail low" /\ doing'[k] = "done" /\ lowMark' = lowMark /\ soldMark' = soldMark
      BY <1>2, <2>12 DEF MailLow, Turn, alertMarks
    <3>2. LowNow /\ ~(left <= 0) /\ lowMark = 1 /\ soldMark = 0
      BY <2>4, <3>1 DEF Knows
    <3>3. Knows(k)'
      BY <3>1 DEF Knows
    <3>4. lowMark' = 1 /\ soldMark' = 0
      BY <3>1, <3>2
    <3>5. LowNow'
      BY <2>2, <3>2
    <3>6. soldMark' # 1
      BY <3>4
    <3>7. (lowMark' = 1 <=> LowNow') /\ (soldMark' = 1 <=> LowNow' /\ left' <= 0)
      <4>1. lowMark' = 1 <=> LowNow'
        BY <3>4, <3>5
      <4>2. soldMark' = 1 <=> LowNow' /\ left' <= 0
        <5>1. ~(left' <= 0)
          BY <2>1, <3>2
        <5> QED
          BY <3>6, <5>1
      <4> QED
        BY <4>1, <4>2
    <3> QED
      BY <3>3, <3>7
  <2>13. Good
    BY <1>5, <2>6, <2>7, <2>8, <2>9, <2>10, <2>11, <2>12
  <2> QED
    BY <1>4, <1>5, <2>1, <2>3, <2>5, <2>13 DEF alertRow
<1>6. ASSUME NEW k \in AlertCalls, AlertFails(k) PROVE ~alone'
  BY <1>6 DEF AlertFails
<1>7. CASE UNCHANGED alertsVars
  <2>1. UNCHANGED <<left, tracked, lowMark, soldMark, doing, alone>>
    BY <1>7 DEF alertsVars, alertRow, alertMarks, alertHistory
  <2> QED
    BY <1>1, <2>1 DEF AloneInv, Running, Knows, LowNow, SettledMarkers, AlertsAtRest
<1>8. CASE AlertsNext
  <2>1. alone' => Only' /\ Known' /\ SettledMarkers'
    BY <1>8, <1>3, <1>5, <1>6 DEF AlertsNext
  <2>2. ~alone' => SettledMarkers'
    BY DEF SettledMarkers
  <2> QED
    BY <1>1, <2>1, <2>2 DEF AloneInv
<1> QED
  BY <1>7, <1>8

\* After a change of stock whose call ran alone and to its end, the markers
\* say what the stock is.
THEOREM SettledCorrect == AlertsSpec => []SettledMarkers
<1>1. AlertsInit => AloneInv
  <2>1. AlertsInit => ~alone
    BY DEF AlertsInit
  <2> QED
    BY <2>1, AlertsInitially DEF AloneInv, SettledMarkers
<1>2. AloneInv => SettledMarkers
  BY DEF AloneInv
<1> QED
  BY <1>1, <1>2, AloneStep, PTL DEF AlertsSpec

-----------------------------------------------------------------------------
(* StockAlerts: the mails.                                                 *)

\* The calls that are at step w.
Pending(w) == {k \in AlertCalls : doing[k] = w}

LEMMA PendingSize ==
  ASSUME NEW w
  PROVE  IsFiniteSet(Pending(w)) /\ Cardinality(Pending(w)) \in Nat
<1>1. Pending(w) \in SUBSET AlertCalls
  BY DEF Pending
<1> QED
  BY <1>1, AlertsAssumption, FS_Subset, FS_CardinalityType

\* One call moves: it joins the calls at step w, leaves them, or does neither.
LEMMA PendingMoves ==
  ASSUME AlertsTypeOK, NEW k \in AlertCalls, NEW next, Turn(k, next), NEW w
  PROVE  /\ next = w /\ doing[k] # w => Cardinality(Pending(w))' = Cardinality(Pending(w)) + 1
         /\ next # w /\ doing[k] = w => Cardinality(Pending(w))' = Cardinality(Pending(w)) - 1
         /\ next # w => Cardinality(Pending(w))' <= Cardinality(Pending(w))
         /\ next # w /\ doing[k] # w => Cardinality(Pending(w))' = Cardinality(Pending(w))
<1>1. \A j \in AlertCalls : doing'[j] = IF j = k THEN next ELSE doing[j]
  BY DEF AlertsTypeOK, Turn
<1>2. IsFiniteSet(Pending(w)) /\ Cardinality(Pending(w)) \in Nat
  BY PendingSize
<1>3. ASSUME next = w, doing[k] # w
      PROVE  Cardinality(Pending(w))' = Cardinality(Pending(w)) + 1
  <2>1. Pending(w)' = Pending(w) \cup {k} /\ k \notin Pending(w)
    BY <1>1, <1>3 DEF Pending
  <2> QED
    BY <1>2, <2>1, FS_AddElement
<1>4. ASSUME next # w, doing[k] = w
      PROVE  Cardinality(Pending(w))' = Cardinality(Pending(w)) - 1
  <2>1. Pending(w)' = Pending(w) \ {k} /\ k \in Pending(w)
    BY <1>1, <1>4 DEF Pending
  <2> QED
    BY <1>2, <2>1, FS_RemoveElement
<1>5. ASSUME next # w, doing[k] # w
      PROVE  Cardinality(Pending(w))' = Cardinality(Pending(w))
  <2>1. Pending(w)' = Pending(w)
    BY <1>1, <1>5 DEF Pending
  <2> QED
    BY <2>1
<1>6. ASSUME next # w PROVE Cardinality(Pending(w))' <= Cardinality(Pending(w))
  BY <1>2, <1>4, <1>5, <1>6
<1> QED
  BY <1>3, <1>4, <1>5, <1>6

LowPending == Cardinality(Pending("mail low"))
SoldPending == Cardinality(Pending("mail sold out"))

\* The strengthening: mails still to be handed over count too.
MailInv ==
  /\ lowMails + LowPending <= lowCleared + lowMark
  /\ soldMails + SoldPending <= soldCleared + soldMark

\* How the low mails move in a step, and the sold-out mails.
LEMMA MailMoves ==
  ASSUME AlertsTypeOK, NEW k \in AlertCalls,
         \/ \E n \in 0 .. MaxLeft, t \in BOOLEAN : ChangeStock(k, n, t)
         \/ ReadRow(k) \/ ClearMarks(k) \/ ClaimSoldOut(k) \/ ClearSoldOut(k) \/ ClaimLow(k)
         \/ MailSoldOut(k) \/ MailLow(k) \/ AlertFails(k)
  PROVE  /\ \/ /\ lowMails' = lowMails /\ LowPending' <= LowPending
               /\ lowCleared' = lowCleared /\ (lowMark' = lowMark \/ lowMark' = 1)
            \/ /\ lowMails' = lowMails /\ LowPending' <= LowPending
               /\ lowCleared' = lowCleared + lowMark /\ lowMark' = 0
            \/ /\ lowMails' = lowMails /\ LowPending' = LowPending + 1
               /\ lowCleared' = lowCleared /\ lowMark = 0 /\ lowMark' = 1
            \/ /\ lowMails' = lowMails + 1 /\ LowPending' = LowPending - 1
               /\ lowCleared' = lowCleared /\ lowMark' = lowMark
         /\ \/ /\ soldMails' = soldMails /\ SoldPending' <= SoldPending
               /\ soldCleared' = soldCleared /\ soldMark' = soldMark
            \/ /\ soldMails' = soldMails /\ SoldPending' <= SoldPending
               /\ soldCleared' = soldCleared + soldMark /\ soldMark' = 0
            \/ /\ soldMails' = soldMails /\ SoldPending' = SoldPending + 1
               /\ soldCleared' = soldCleared /\ soldMark = 0 /\ soldMark' = 1
            \/ /\ soldMails' = soldMails + 1 /\ SoldPending' = SoldPending - 1
               /\ soldCleared' = soldCleared /\ soldMark' = soldMark
<1> DEFINE Goes(next) == doing' = [doing EXCEPT ![k] = next]
<1>a. ASSUME NEW next, Goes(next), next # "mail low" PROVE LowPending' <= LowPending
  BY <1>a, PendingMoves DEF LowPending, Turn
<1>b. ASSUME NEW next, Goes(next), next # "mail sold out" PROVE SoldPending' <= SoldPending
  BY <1>b, PendingMoves DEF SoldPending, Turn
<1>c. ASSUME Goes("mail low"), doing[k] # "mail low" PROVE LowPending' = LowPending + 1
  BY <1>c, PendingMoves DEF LowPending, Turn
<1>d. ASSUME Goes("mail sold out"), doing[k] # "mail sold out" PROVE SoldPending' = SoldPending + 1
  BY <1>d, PendingMoves DEF SoldPending, Turn
<1>e. ASSUME Goes("done"), doing[k] = "mail low" PROVE LowPending' = LowPending - 1
  BY <1>e, PendingMoves DEF LowPending, Turn
<1>g. ASSUME Goes("done"), doing[k] = "mail sold out" PROVE SoldPending' = SoldPending - 1
  BY <1>g, PendingMoves DEF SoldPending, Turn
<1>h. ASSUME Goes("read") \/ Goes("clear") \/ Goes("done") \/ Goes("claim sold out")
             \/ Goes("clear sold out") \/ Goes("claim low")
      PROVE  LowPending' <= LowPending /\ SoldPending' <= SoldPending
  BY <1>h, <1>a, <1>b
<1>i. ASSUME Goes("mail low") PROVE SoldPending' <= SoldPending
  BY <1>i, <1>b
<1>j. ASSUME Goes("mail sold out") PROVE LowPending' <= LowPending
  BY <1>j, <1>a
<1> HIDE DEF Goes
<1>2. ASSUME NEW n \in 0 .. MaxLeft, NEW t \in BOOLEAN, ChangeStock(k, n, t)
      PROVE  /\ LowPending' <= LowPending /\ SoldPending' <= SoldPending
             /\ UNCHANGED <<lowMails, soldMails, lowCleared, soldCleared, lowMark, soldMark>>
  <2>1. Turn(k, "read")
    BY <1>2 DEF ChangeStock, alertMarks
  <2>2. LowPending' <= LowPending /\ SoldPending' <= SoldPending
    BY <1>c, <1>d, <1>e, <1>g, <1>h, <1>i, <1>j, <2>1 DEF Turn, Goes
  <2>3. UNCHANGED <<lowMails, soldMails, lowCleared, soldCleared, lowMark, soldMark>>
    BY <1>2 DEF ChangeStock, alertMarks
  <2> QED
    BY <2>2, <2>3
<1>3. ASSUME ReadRow(k) \/ AlertFails(k)
      PROVE  /\ LowPending' <= LowPending /\ SoldPending' <= SoldPending
             /\ UNCHANGED <<lowMails, soldMails, lowCleared, soldCleared, lowMark, soldMark>>
  <2>1. \/ Turn(k, "clear") \/ Turn(k, "done") \/ Turn(k, "claim sold out")
        \/ Turn(k, "clear sold out") \/ Turn(k, "claim low")
    BY <1>3 DEF ReadRow, AlertFails
  <2>2. LowPending' <= LowPending /\ SoldPending' <= SoldPending
    BY <1>c, <1>d, <1>e, <1>g, <1>h, <1>i, <1>j, <2>1 DEF Turn, Goes
  <2>3. UNCHANGED <<lowMails, soldMails, lowCleared, soldCleared, lowMark, soldMark>>
    BY <1>3 DEF ReadRow, AlertFails, alertMarks, alertHistory
  <2> QED
    BY <2>2, <2>3
<1>4. ASSUME ClearMarks(k)
      PROVE  /\ LowPending' <= LowPending /\ SoldPending' <= SoldPending
             /\ UNCHANGED <<lowMails, soldMails>> /\ lowMark' = 0 /\ soldMark' = 0
             /\ lowCleared' = lowCleared + lowMark /\ soldCleared' = soldCleared + soldMark
  <2>1. Turn(k, "done")
    BY <1>4 DEF ClearMarks
  <2>2. LowPending' <= LowPending /\ SoldPending' <= SoldPending
    BY <1>c, <1>d, <1>e, <1>g, <1>h, <1>i, <1>j, <2>1 DEF Turn, Goes
  <2>3. /\ UNCHANGED <<lowMails, soldMails>> /\ lowMark' = 0 /\ soldMark' = 0
        /\ lowCleared' = lowCleared + lowMark /\ soldCleared' = soldCleared + soldMark
    BY <1>4 DEF ClearMarks
  <2> QED
    BY <2>2, <2>3
<1>5. ASSUME ClaimSoldOut(k)
      PROVE  /\ UNCHANGED <<lowMails, soldMails, lowCleared, soldCleared>> /\ LowPending' <= LowPending
             /\ \/ SoldPending' = SoldPending + 1 /\ soldMark = 0 /\ soldMark' = 1 /\ lowMark' = 1
                \/ SoldPending' <= SoldPending /\ UNCHANGED <<lowMark, soldMark>>
  <2>1. UNCHANGED <<lowMails, soldMails, lowCleared, soldCleared>> /\ doing[k] = "claim sold out"
    BY <1>5 DEF ClaimSoldOut, alertHistory
  <2>2. \/ soldMark = 0 /\ soldMark' = 1 /\ lowMark' = 1 /\ Turn(k, "mail sold out")
        \/ UNCHANGED <<lowMark, soldMark>> /\ Turn(k, "done")
    BY <1>5 DEF ClaimSoldOut, Free, LowMarkSet, alertMarks
  <2>3. Turn(k, "mail sold out") => LowPending' <= LowPending /\ SoldPending' = SoldPending + 1
    BY <1>c, <1>d, <1>e, <1>g, <1>h, <1>i, <1>j, <2>1 DEF Turn, Goes
  <2>4. Turn(k, "done") => LowPending' <= LowPending /\ SoldPending' <= SoldPending
    BY <1>c, <1>d, <1>e, <1>g, <1>h, <1>i, <1>j DEF Turn, Goes
  <2> QED
    BY <2>1, <2>2, <2>3, <2>4
<1>6. ASSUME ClearSoldOut(k)
      PROVE  /\ LowPending' <= LowPending /\ SoldPending' <= SoldPending
             /\ UNCHANGED <<lowMails, soldMails, lowCleared, lowMark>> /\ soldMark' = 0
             /\ soldCleared' = soldCleared + soldMark
  <2>1. Turn(k, "claim low")
    BY <1>6 DEF ClearSoldOut, SoldMarkCleared
  <2>2. LowPending' <= LowPending /\ SoldPending' <= SoldPending
    BY <1>c, <1>d, <1>e, <1>g, <1>h, <1>i, <1>j, <2>1 DEF Turn, Goes
  <2>3. /\ UNCHANGED <<lowMails, soldMails, lowCleared, lowMark>> /\ soldMark' = 0
        /\ soldCleared' = soldCleared + soldMark
    BY <1>6 DEF ClearSoldOut, SoldMarkCleared
  <2> QED
    BY <2>2, <2>3
<1>7. ASSUME ClaimLow(k)
      PROVE  /\ UNCHANGED <<lowMails, soldMails, lowCleared, soldCleared, soldMark>> /\ SoldPending' <= SoldPending
             /\ \/ LowPending' = LowPending + 1 /\ lowMark = 0 /\ lowMark' = 1
                \/ LowPending' <= LowPending /\ UNCHANGED lowMark
  <2>1. UNCHANGED <<lowMails, soldMails, lowCleared, soldCleared, soldMark>> /\ doing[k] = "claim low"
    BY <1>7 DEF ClaimLow, alertHistory
  <2>2. \/ lowMark = 0 /\ lowMark' = 1 /\ Turn(k, "mail low")
        \/ UNCHANGED lowMark /\ Turn(k, "done")
    BY <1>7 DEF ClaimLow, Free
  <2>3. Turn(k, "mail low") => LowPending' = LowPending + 1 /\ SoldPending' <= SoldPending
    BY <1>c, <1>d, <1>e, <1>g, <1>h, <1>i, <1>j, <2>1 DEF Turn, Goes
  <2>4. Turn(k, "done") => LowPending' <= LowPending /\ SoldPending' <= SoldPending
    BY <1>c, <1>d, <1>e, <1>g, <1>h, <1>i, <1>j DEF Turn, Goes
  <2> QED
    BY <2>1, <2>2, <2>3, <2>4
<1>8. ASSUME MailSoldOut(k)
      PROVE  /\ LowPending' <= LowPending /\ SoldPending' = SoldPending - 1 /\ soldMails' = soldMails + 1
             /\ UNCHANGED <<lowMails, lowCleared, soldCleared, lowMark, soldMark>>
  <2>1. Turn(k, "done") /\ doing[k] = "mail sold out"
    BY <1>8 DEF MailSoldOut, alertMarks
  <2>2. LowPending' <= LowPending /\ SoldPending' = SoldPending - 1
    BY <1>c, <1>d, <1>e, <1>g, <1>h, <1>i, <1>j, <2>1 DEF Turn, Goes
  <2>3. soldMails' = soldMails + 1 /\ UNCHANGED <<lowMails, lowCleared, soldCleared, lowMark, soldMark>>
    BY <1>8 DEF MailSoldOut, alertMarks
  <2> QED
    BY <2>2, <2>3
<1>9. ASSUME MailLow(k)
      PROVE  /\ SoldPending' <= SoldPending /\ LowPending' = LowPending - 1 /\ lowMails' = lowMails + 1
             /\ UNCHANGED <<soldMails, lowCleared, soldCleared, lowMark, soldMark>>
  <2>1. Turn(k, "done") /\ doing[k] = "mail low"
    BY <1>9 DEF MailLow, alertMarks
  <2>2. SoldPending' <= SoldPending /\ LowPending' = LowPending - 1
    BY <1>c, <1>d, <1>e, <1>g, <1>h, <1>i, <1>j, <2>1 DEF Turn, Goes
  <2>3. lowMails' = lowMails + 1 /\ UNCHANGED <<soldMails, lowCleared, soldCleared, lowMark, soldMark>>
    BY <1>9 DEF MailLow, alertMarks
  <2> QED
    BY <2>2, <2>3
<1> QED
  BY <1>2, <1>3, <1>4, <1>5, <1>6, <1>7, <1>8, <1>9

LEMMA MailStep == AlertsTypeOK /\ MailInv /\ [AlertsNext]_alertsVars => MailInv'
<1> SUFFICES ASSUME AlertsTypeOK, MailInv, [AlertsNext]_alertsVars PROVE MailInv'
  OBVIOUS
<1>1. /\ lowMails \in Nat /\ soldMails \in Nat /\ lowCleared \in Nat /\ soldCleared \in Nat
      /\ lowMark \in {0, 1} /\ soldMark \in {0, 1}
  BY DEF AlertsTypeOK
<1>2. LowPending \in Nat /\ SoldPending \in Nat
  BY PendingSize DEF LowPending, SoldPending
<1>3. LowPending' \in Nat /\ SoldPending' \in Nat
  <2>1. AlertsTypeOK'
    BY AlertsTypeStep
  <2>2. Pending("mail low")' \in SUBSET AlertCalls /\ Pending("mail sold out")' \in SUBSET AlertCalls
    BY DEF Pending
  <2> QED
    BY <2>2, AlertsAssumption, FS_Subset, FS_CardinalityType DEF LowPending, SoldPending
<1>4. CASE AlertsNext
  <2>1. lowMails + LowPending <= lowCleared + lowMark /\ soldMails + SoldPending <= soldCleared + soldMark
    BY DEF MailInv
  <2>2. PICK k \in AlertCalls :
          \/ \E n \in 0 .. MaxLeft, t \in BOOLEAN : ChangeStock(k, n, t)
          \/ ReadRow(k) \/ ClearMarks(k) \/ ClaimSoldOut(k) \/ ClearSoldOut(k) \/ ClaimLow(k)
          \/ MailSoldOut(k) \/ MailLow(k) \/ AlertFails(k)
    BY <1>4 DEF AlertsNext
  <2>3. lowMails' + LowPending' <= lowCleared' + lowMark'
    BY <1>1, <1>2, <1>3, <2>1, <2>2, MailMoves
  <2>4. soldMails' + SoldPending' <= soldCleared' + soldMark'
    BY <1>1, <1>2, <1>3, <2>1, <2>2, MailMoves
  <2> QED
    BY <2>3, <2>4 DEF MailInv
<1>5. CASE UNCHANGED alertsVars
  BY <1>5 DEF MailInv, LowPending, SoldPending, Pending, alertsVars, alertRow, alertMarks, alertHistory
<1> QED
  BY <1>4, <1>5

\* At most one mail of a kind goes out for each time its marker was taken.
THEOREM MailedOnceCorrect == AlertsSpec => []MailedOncePerMarker
<1>1. AlertsInit => MailInv
  <2> SUFFICES ASSUME AlertsInit PROVE MailInv
    OBVIOUS
  <2>1. Pending("mail low") = {} /\ Pending("mail sold out") = {}
    BY DEF AlertsInit, Pending
  <2>2. LowPending = 0 /\ SoldPending = 0
    BY <2>1, FS_EmptySet DEF LowPending, SoldPending
  <2>3. lowMark \in {0, 1} /\ soldMark \in {0, 1}
    BY AlertsInitially DEF AlertsTypeOK
  <2> QED
    BY <2>2, <2>3 DEF AlertsInit, MailInv
<1>2. AlertsTypeOK /\ MailInv => MailedOncePerMarker
  <2> SUFFICES ASSUME AlertsTypeOK, MailInv PROVE MailedOncePerMarker
    OBVIOUS
  <2>1. LowPending \in Nat /\ SoldPending \in Nat
    BY PendingSize DEF LowPending, SoldPending
  <2>2. /\ lowMails \in Nat /\ soldMails \in Nat /\ lowCleared \in Nat /\ soldCleared \in Nat
        /\ lowMark \in {0, 1} /\ soldMark \in {0, 1}
    BY DEF AlertsTypeOK
  <2> QED
    BY <2>1, <2>2 DEF MailInv, MailedOncePerMarker
<1> QED
  BY <1>1, <1>2, AlertsInitially, AlertsTypeStep, MailStep, PTL DEF AlertsSpec

-----------------------------------------------------------------------------
(* AdminGrants: types.                                                     *)

Roles == {"none", "CUSTOMER", "ADMIN"}
GrantSteps == {"idle", "owner", "accept", "invite", "promote", "remove", "create admin", "update role", "done"}

\* What an action does to the calls, and to an account.
LEMMA GrantMoves ==
  ASSUME GrantsTypeOK, NEW k \in GrantCalls
  PROVE  /\ Finish(k) => step' \in [GrantCalls -> GrantSteps] /\ about' \in [GrantCalls -> Accounts]
         /\ \A a \in Accounts, next \in GrantSteps :
              Start(k, a, next) => step' \in [GrantCalls -> GrantSteps] /\ about' \in [GrantCalls -> Accounts]
<1>1. step \in [GrantCalls -> GrantSteps] /\ about \in [GrantCalls -> Accounts]
  BY DEF GrantsTypeOK, GrantSteps
<1>2. ASSUME Finish(k) PROVE step' \in [GrantCalls -> GrantSteps] /\ about' \in [GrantCalls -> Accounts]
  BY <1>1, <1>2, OwnerAssumption DEF Finish, Proceed, GrantSteps
<1>3. ASSUME NEW a \in Accounts, NEW next \in GrantSteps, Start(k, a, next)
      PROVE  step' \in [GrantCalls -> GrantSteps] /\ about' \in [GrantCalls -> Accounts]
  BY <1>1, <1>3 DEF Start, Proceed
<1> QED
  BY <1>2, <1>3

LEMMA PromoteMoves ==
  ASSUME GrantsTypeOK, NEW a \in Accounts, NEW n \in 0 .. 1, Promote(a, n)
  PROVE  /\ role' \in [Accounts -> Roles] /\ wanted' \in [Accounts -> Int]
         /\ role'[a] = "ADMIN" /\ \A b \in Accounts \ {a} : role'[b] = role[b]
         /\ wanted'[a] = wanted[a] + n - (IF role[a] # "ADMIN" THEN 1 ELSE 0)
         /\ \A b \in Accounts \ {a} : wanted'[b] = wanted[b]
<1>1. role \in [Accounts -> Roles] /\ wanted \in [Accounts -> Int]
  BY DEF GrantsTypeOK, Roles
<1>2. role' \in [Accounts -> Roles] /\ role'[a] = "ADMIN" /\ \A b \in Accounts \ {a} : role'[b] = role[b]
  BY <1>1 DEF Promote, Roles
<1>3. wanted' = [wanted EXCEPT ![a] = wanted[a] + n - (IF role[a] # "ADMIN" THEN 1 ELSE 0)]
  BY DEF Promote, Count
<1> QED
  BY <1>1, <1>2, <1>3

LEMMA GrantsTypeStep == GrantsTypeOK /\ [GrantsNext]_grantsVars => GrantsTypeOK'
<1> SUFFICES ASSUME GrantsTypeOK, [GrantsNext]_grantsVars PROVE GrantsTypeOK'
  OBVIOUS
<1>1. /\ role \in [Accounts -> Roles] /\ verified \in [Accounts -> BOOLEAN]
      /\ invited \in [Accounts -> BOOLEAN] /\ wanted \in [Accounts -> Int]
      /\ step \in [GrantCalls -> GrantSteps] /\ about \in [GrantCalls -> Accounts]
      /\ doomed \in [GrantCalls -> BOOLEAN]
  BY DEF GrantsTypeOK, Roles, GrantSteps
<1> DEFINE Types == /\ role \in [Accounts -> Roles] /\ verified \in [Accounts -> BOOLEAN]
                    /\ invited \in [Accounts -> BOOLEAN] /\ wanted \in [Accounts -> Int]
                    /\ step \in [GrantCalls -> GrantSteps] /\ about \in [GrantCalls -> Accounts]
                    /\ doomed \in [GrantCalls -> BOOLEAN]
<1>2. Types' => GrantsTypeOK'
  BY DEF GrantsTypeOK, Roles, GrantSteps
<1>3. ASSUME NEW a \in Accounts, Register(a) PROVE Types'
  BY <1>1, <1>3 DEF Register, Roles, grantReads
<1>4. ASSUME NEW a \in Accounts, VerifyEmail(a) \/ RevokeInvitation(a) PROVE Types'
  <2>1. verified' \in [Accounts -> BOOLEAN] /\ invited' \in [Accounts -> BOOLEAN]
    <3>1. verified' = verified \/ verified' = [verified EXCEPT ![a] = TRUE]
      BY <1>4 DEF VerifyEmail, RevokeInvitation
    <3>2. invited' = invited \/ invited' = [invited EXCEPT ![a] = FALSE]
      BY <1>4 DEF VerifyEmail, RevokeInvitation
    <3>3. verified' \in [Accounts -> BOOLEAN]
      BY <1>1, <3>1
    <3>4. invited' \in [Accounts -> BOOLEAN]
      BY <1>1, <3>2
    <3> QED
      BY <3>3, <3>4
  <2>2. UNCHANGED <<role, step, about, doomed, wanted>>
    BY <1>4 DEF VerifyEmail, RevokeInvitation, grantReads
  <2> QED
    BY <1>1, <2>1, <2>2
<1>5. ASSUME NEW k \in GrantCalls, NEW a \in Accounts,
             BeginGrants(k, a) \/ FindForGrant(k, a) \/ FindForEnsure(k, a)
      PROVE  Types'
  <2>1. PICK next \in GrantSteps : Start(k, a, next)
    BY <1>5 DEF BeginGrants, FindForGrant, FindForEnsure, GrantSteps
  <2>2. step' \in [GrantCalls -> GrantSteps] /\ about' \in [GrantCalls -> Accounts]
    BY <2>1, GrantMoves
  <2> QED
    BY <1>1, <2>1, <2>2 DEF Start, accountRows
<1>6. ASSUME NEW k \in GrantCalls, NEW a \in Accounts, CountAdmins(k, a) PROVE Types'
  BY <1>1, <1>6 DEF CountAdmins, Proceed, accountRows, GrantSteps
<1>7. ASSUME NEW k \in GrantCalls, GrantOwner(k) PROVE Types'
  <2>1. PICK n \in 0 .. 1 : Promote(about[k], n)
    BY <1>7 DEF GrantOwner, Count
  <2> QED
    BY <1>1, <1>7, <2>1, GrantMoves, PromoteMoves DEF GrantOwner
<1>8. ASSUME NEW k \in GrantCalls, AcceptInvitation(k) PROVE Types'
  <2>1. role' \in [Accounts -> Roles] /\ wanted' \in [Accounts -> Int]
    BY <1>1, <1>8, PromoteMoves DEF AcceptInvitation
  <2>2. invited' \in [Accounts -> BOOLEAN]
    BY <1>1, <1>8 DEF AcceptInvitation, InvitationLeft
  <2> QED
    BY <1>1, <1>8, <2>1, <2>2, GrantMoves DEF AcceptInvitation
<1>9. ASSUME NEW k \in GrantCalls, PromoteNow(k) PROVE Types'
  BY <1>1, <1>9, GrantMoves, PromoteMoves DEF PromoteNow
<1>10. ASSUME NEW k \in GrantCalls, Invite(k) PROVE Types'
  BY <1>1, <1>10, GrantMoves DEF Invite
<1>11. ASSUME NEW k \in GrantCalls, CommitRemove(k) PROVE Types'
  <2>1. doomed' \in [GrantCalls -> BOOLEAN]
    BY <1>11 DEF CommitRemove
  <2>2. role' \in [Accounts -> Roles]
    BY <1>1, <1>11 DEF CommitRemove, Roles
  <2> QED
    BY <1>1, <1>11, <2>1, <2>2, GrantMoves DEF CommitRemove
<1>12. ASSUME NEW k \in GrantCalls, CreateAdmin(k) PROVE Types'
  <2>1. Promote(about[k], 1) /\ about[k] \in Accounts
    BY <1>1, <1>12 DEF CreateAdmin
  <2>2. role' \in [Accounts -> Roles] /\ wanted' \in [Accounts -> Int]
    BY <2>1, PromoteMoves
  <2> QED
    BY <1>1, <1>12, <2>1, <2>2, GrantMoves DEF CreateAdmin
<1>13. ASSUME NEW k \in GrantCalls, UpdateRole(k) PROVE Types'
  <2>1. Promote(about[k], 1) /\ about[k] \in Accounts
    BY <1>1, <1>13 DEF UpdateRole
  <2>2. role' \in [Accounts -> Roles] /\ wanted' \in [Accounts -> Int]
    BY <2>1, PromoteMoves
  <2> QED
    BY <1>1, <1>13, <2>1, <2>2, GrantMoves DEF UpdateRole
<1>14. ASSUME NEW k \in GrantCalls, GrantFails(k) PROVE Types'
  BY <1>1, <1>14, GrantMoves DEF GrantFails, accountRows
<1>15. ASSUME UNCHANGED grantsVars PROVE Types'
  BY <1>1, <1>15 DEF grantsVars, accountRows, grantReads
<1> QED
  BY <1>2, <1>3, <1>4, <1>5, <1>6, <1>7, <1>8, <1>9, <1>10, <1>11, <1>12, <1>13, <1>14, <1>15 DEF GrantsNext

\* The accounts and the calls are well typed.
THEOREM GrantsTypeCorrect == GrantsSpec => []GrantsTypeOK
<1>1. GrantsInit => GrantsTypeOK
  BY OwnerAssumption DEF GrantsInit, GrantsTypeOK
<1> QED
  BY <1>1, GrantsTypeStep, PTL DEF GrantsSpec

-----------------------------------------------------------------------------
(* AdminGrants: an admin remains.                                          *)

\* A removal that has not lost its race leaves another admin behind.
OthersRemain ==
  \A k \in GrantCalls :
    step[k] = "remove" /\ ~doomed[k] => \E b \in Accounts : role[b] = "ADMIN" /\ b # about[k]

AdminInv == GrantsTypeOK /\ AdminRemains /\ OthersRemain

LEMMA AnotherAdmin ==
  ASSUME NEW a \in Accounts, Removable(a)
  PROVE  \E b \in Accounts : role[b] = "ADMIN" /\ b # a
<1>1. IsFiniteSet(Admins) /\ Cardinality(Admins) > 1
  BY OwnerAssumption, FS_Subset DEF Admins, Removable
<1>2. Cardinality({a}) = 1
  BY FS_Singleton
<1>3. Admins # {a}
  BY <1>1, <1>2
<1>4. a \in Admins
  BY DEF Removable
<1>5. PICK b \in Admins : b # a
  BY <1>3, <1>4
<1> QED
  BY <1>5 DEF Admins

LEMMA AdminStep == AdminInv /\ [GrantsNext]_grantsVars => AdminInv'
<1> SUFFICES ASSUME AdminInv, [GrantsNext]_grantsVars PROVE AdminInv'
  OBVIOUS
<1>1. GrantsTypeOK'
  BY GrantsTypeStep DEF AdminInv
<1>2. /\ role \in [Accounts -> Roles] /\ step \in [GrantCalls -> GrantSteps]
      /\ about \in [GrantCalls -> Accounts]
  BY DEF AdminInv, GrantsTypeOK, Roles, GrantSteps
<1>3. PICK c \in Accounts : role[c] = "ADMIN"
  BY DEF AdminInv, AdminRemains, Admins
<1>4. OthersRemain
  BY DEF AdminInv
\* A step that demotes nobody and starts no removal keeps both.
<1>5. ASSUME \A b \in Accounts : role[b] = "ADMIN" => role'[b] = "ADMIN",
             \A j \in GrantCalls : step'[j] = "remove" /\ ~doomed'[j] =>
               step[j] = "remove" /\ ~doomed[j] /\ about'[j] = about[j]
      PROVE  AdminRemains' /\ OthersRemain'
  <2>1. AdminRemains'
    BY <1>3, <1>5 DEF AdminRemains, Admins
  <2>2. OthersRemain'
    BY <1>4, <1>5 DEF OthersRemain
  <2> QED
    BY <2>1, <2>2
\* Ending a call is no removal of another.
<1>6. ASSUME NEW k \in GrantCalls, Finish(k), \A j \in GrantCalls : doomed'[j] = doomed[j] \/ j = k
      PROVE  \A j \in GrantCalls : step'[j] = "remove" /\ ~doomed'[j] =>
               step[j] = "remove" /\ ~doomed[j] /\ about'[j] = about[j]
  BY <1>2, <1>6 DEF Finish, Proceed
<1>7. ASSUME NEW a \in Accounts, Register(a) \/ VerifyEmail(a) \/ RevokeInvitation(a)
      PROVE  AdminRemains' /\ OthersRemain'
  <2>1. UNCHANGED <<step, about, doomed>>
    BY <1>7 DEF Register, VerifyEmail, RevokeInvitation, grantReads
  <2>2. \A b \in Accounts : role[b] = "ADMIN" => role'[b] = "ADMIN"
    BY <1>2, <1>7 DEF Register, VerifyEmail, RevokeInvitation
  <2> QED
    BY <1>5, <2>1, <2>2
<1>8. ASSUME NEW k \in GrantCalls, NEW a \in Accounts,
             BeginGrants(k, a) \/ FindForGrant(k, a) \/ FindForEnsure(k, a)
      PROVE  AdminRemains' /\ OthersRemain'
  <2>1. PICK next \in GrantSteps \ {"remove"} : Start(k, a, next)
    BY <1>8 DEF BeginGrants, FindForGrant, FindForEnsure, GrantSteps
  <2>2. /\ role' = role /\ doomed' = doomed
        /\ step' = [step EXCEPT ![k] = next] /\ about' = [about EXCEPT ![k] = a]
    BY <2>1 DEF Start, Proceed, accountRows
  <2>3. \A j \in GrantCalls : step'[j] = "remove" =>
          step[j] = "remove" /\ about'[j] = about[j]
    BY <1>2, <2>2
  <2> QED
    BY <1>5, <2>2, <2>3
<1>9. ASSUME NEW k \in GrantCalls, NEW a \in Accounts, CountAdmins(k, a)
      PROVE  AdminRemains' /\ OthersRemain'
  <2>1. /\ role' = role /\ doomed' = doomed
        /\ step' = [step EXCEPT ![k] = "remove"] /\ about' = [about EXCEPT ![k] = a]
    BY <1>9 DEF CountAdmins, Proceed, accountRows
  <2>2. \E b \in Accounts : role[b] = "ADMIN" /\ b # a
    BY <1>9, AnotherAdmin DEF CountAdmins
  <2>3. OthersRemain'
    BY <1>2, <1>4, <2>1, <2>2 DEF OthersRemain
  <2> QED
    BY <1>3, <2>1, <2>3 DEF AdminRemains, Admins
<1>10. ASSUME NEW k \in GrantCalls,
              GrantOwner(k) \/ AcceptInvitation(k) \/ PromoteNow(k) \/ Invite(k) \/ CreateAdmin(k)
              \/ UpdateRole(k) \/ GrantFails(k)
      PROVE  AdminRemains' /\ OthersRemain'
  <2>1. Finish(k) /\ \A j \in GrantCalls : doomed'[j] = doomed[j] \/ j = k
    <3>1. Finish(k) /\ (doomed' = doomed \/ doomed' = [doomed EXCEPT ![k] = FALSE])
      BY <1>10 DEF GrantOwner, AcceptInvitation, PromoteNow, Invite, CreateAdmin, UpdateRole, GrantFails
    <3>2. doomed \in [GrantCalls -> BOOLEAN]
      BY DEF AdminInv, GrantsTypeOK
    <3> QED
      BY <3>1, <3>2
  <2>2. role' = role \/ role' = [role EXCEPT ![about[k]] = "ADMIN"]
    BY <1>10 DEF GrantOwner, AcceptInvitation, PromoteNow, Invite, CreateAdmin, UpdateRole, GrantFails,
                 Promote, accountRows
  <2>3. \A b \in Accounts : role[b] = "ADMIN" => role'[b] = "ADMIN"
    BY <1>2, <2>2
  <2> QED
    BY <1>5, <1>6, <2>1, <2>3
<1>11. ASSUME NEW k \in GrantCalls, CommitRemove(k) PROVE AdminRemains' /\ OthersRemain'
  <2>1. /\ step[k] = "remove" /\ ~doomed[k]
        /\ role' = [role EXCEPT ![about[k]] = "CUSTOMER"]
        /\ doomed' = [j \in GrantCalls |-> j # k /\ (doomed[j] \/ step[j] = "remove")]
        /\ step' = [step EXCEPT ![k] = "done"]
    BY <1>11 DEF CommitRemove, Serializable, Finish, Proceed
  <2>2. PICK b \in Accounts : role[b] = "ADMIN" /\ b # about[k]
    BY <1>4, <2>1 DEF OthersRemain
  <2>3. role'[b] = "ADMIN"
    BY <1>2, <2>1, <2>2
  <2>4. AdminRemains'
    BY <2>3 DEF AdminRemains, Admins
  <2>5. \A j \in GrantCalls : step'[j] = "remove" => doomed'[j]
    BY <1>2, <2>1
  <2> QED
    BY <2>4, <2>5 DEF OthersRemain
<1>12. CASE UNCHANGED grantsVars
  <2>1. UNCHANGED <<role, step, about, doomed>>
    BY <1>12 DEF grantsVars, accountRows, grantReads
  <2> QED
    BY <1>1, <1>5, <2>1 DEF AdminInv
<1> QED
  BY <1>1, <1>7, <1>8, <1>9, <1>10, <1>11, <1>12 DEF AdminInv, GrantsNext

\* The shop always has an admin: removals that count the same admins at
\* once cannot all commit.
THEOREM AdminRemainsCorrect == GrantsSpec => []AdminRemains
<1>1. GrantsInit => AdminInv
  <2> SUFFICES ASSUME GrantsInit PROVE AdminInv
    OBVIOUS
  <2>1. GrantsTypeOK
    BY OwnerAssumption DEF GrantsInit, GrantsTypeOK
  <2> QED
    BY <2>1 DEF GrantsInit, AdminInv, AdminRemains, OthersRemain
<1>2. AdminInv => AdminRemains
  BY DEF AdminInv
<1> QED
  BY <1>1, <1>2, AdminStep, PTL DEF GrantsSpec

-----------------------------------------------------------------------------
(* AdminGrants: invitations.                                               *)

LEMMA InvitationStep == GrantsTypeOK /\ InvitationsSpentOnce /\ [GrantsNext]_grantsVars => InvitationsSpentOnce'
<1> SUFFICES ASSUME GrantsTypeOK, InvitationsSpentOnce, [GrantsNext]_grantsVars PROVE InvitationsSpentOnce'
  OBVIOUS
<1>1. /\ invited \in [Accounts -> BOOLEAN] /\ wanted \in [Accounts -> Int]
      /\ about \in [GrantCalls -> Accounts] /\ role \in [Accounts -> Roles]
  BY DEF GrantsTypeOK, Roles
<1>2. \A a \in Accounts : wanted[a] >= 0 /\ (invited[a] => wanted[a] >= 1)
  BY <1>1 DEF InvitationsSpentOnce, Count
\* What is enough after a step.
<1>3. ASSUME \A a \in Accounts : /\ wanted'[a] \in Int /\ wanted'[a] >= 0
                                 /\ invited'[a] => wanted'[a] >= 1
      PROVE  InvitationsSpentOnce'
  <2> SUFFICES ASSUME NEW a \in Accounts PROVE (Count(invited[a]) <= wanted[a])'
    BY DEF InvitationsSpentOnce
  <2>1. CASE invited'[a]
    BY <1>3, <2>1 DEF Count
  <2>2. CASE ~invited'[a]
    BY <1>3, <2>2 DEF Count
  <2> QED
    BY <2>1, <2>2
<1>4. ASSUME NEW a \in Accounts, Register(a) \/ VerifyEmail(a) \/ RevokeInvitation(a)
      PROVE  InvitationsSpentOnce'
  <2>1. wanted' = wanted /\ (invited' = invited \/ invited' = [invited EXCEPT ![a] = FALSE])
    BY <1>4 DEF Register, VerifyEmail, RevokeInvitation
  <2>2. \A b \in Accounts : invited'[b] => invited[b]
    BY <1>1, <2>1
  <2> QED
    BY <1>1, <1>2, <1>3, <2>1, <2>2
<1>5. ASSUME UNCHANGED <<invited, wanted>> PROVE InvitationsSpentOnce'
  BY <1>5 DEF InvitationsSpentOnce
<1>6. ASSUME NEW k \in GrantCalls, NEW a \in Accounts,
             BeginGrants(k, a) \/ FindForGrant(k, a) \/ CountAdmins(k, a) \/ FindForEnsure(k, a)
      PROVE  UNCHANGED <<invited, wanted>>
  BY <1>6 DEF BeginGrants, FindForGrant, CountAdmins, FindForEnsure, Start, accountRows
<1>7. ASSUME NEW k \in GrantCalls, CommitRemove(k) \/ GrantFails(k) PROVE UNCHANGED <<invited, wanted>>
  BY <1>7 DEF CommitRemove, GrantFails, accountRows
<1>8. ASSUME NEW k \in GrantCalls, GrantOwner(k) PROVE InvitationsSpentOnce'
  <2>1. invited' = invited /\ Promote(about[k], Count(role[about[k]] # "ADMIN"))
    BY <1>8 DEF GrantOwner
  <2>2. wanted' = [wanted EXCEPT ![about[k]] = wanted[about[k]] + Count(role[about[k]] # "ADMIN") - Count(role[about[k]] # "ADMIN")]
    BY <2>1 DEF Promote
  <2>3. Count(role[about[k]] # "ADMIN") \in {0, 1}
    BY DEF Count
  <2>4. \A a \in Accounts : wanted'[a] = wanted[a]
    BY <1>1, <2>2, <2>3
  <2> QED
    BY <1>1, <1>2, <1>3, <2>1, <2>4
<1>9. ASSUME NEW k \in GrantCalls, AcceptInvitation(k) PROVE InvitationsSpentOnce'
  <2>1. CASE UNCHANGED <<invited, wanted>>
    BY <1>5, <2>1
  <2>2. CASE /\ invited[about[k]] /\ invited' = [invited EXCEPT ![about[k]] = FALSE]
             /\ Promote(about[k], 0)
    <3>1. wanted'[about[k]] \in Int /\ wanted'[about[k]] >= 0
      BY <1>1, <1>2, <2>2, PromoteMoves
    <3>2. \A b \in Accounts \ {about[k]} : wanted'[b] = wanted[b] /\ invited'[b] = invited[b]
      BY <1>1, <2>2, PromoteMoves
    <3>3. ~invited'[about[k]]
      BY <1>1, <2>2
    <3> QED
      BY <1>1, <1>2, <1>3, <3>1, <3>2, <3>3
  <2> QED
    BY <1>9, <2>1, <2>2 DEF AcceptInvitation, InvitationLeft
<1>10. ASSUME NEW k \in GrantCalls, PromoteNow(k) \/ CreateAdmin(k) \/ UpdateRole(k) PROVE InvitationsSpentOnce'
  <2>1. /\ Promote(about[k], 1)
        /\ invited' = invited \/ invited' = [invited EXCEPT ![about[k]] = FALSE]
    BY <1>10 DEF PromoteNow, CreateAdmin, UpdateRole
  <2>2. \A b \in Accounts : wanted'[b] \in Int /\ wanted'[b] >= wanted[b]
    BY <1>1, <2>1, PromoteMoves
  <2>3. \A b \in Accounts : invited'[b] => invited[b]
    BY <1>1, <2>1
  <2> QED
    BY <1>1, <1>2, <1>3, <2>2, <2>3
<1>11. ASSUME NEW k \in GrantCalls, Invite(k) PROVE InvitationsSpentOnce'
  <2>1. /\ invited' = [invited EXCEPT ![about[k]] = TRUE]
        /\ wanted' = [wanted EXCEPT ![about[k]] = wanted[about[k]] + 1]
    BY <1>11 DEF Invite
  <2>2. \A b \in Accounts \ {about[k]} : wanted'[b] = wanted[b] /\ invited'[b] = invited[b]
    BY <1>1, <2>1
  <2>3. wanted'[about[k]] \in Int /\ wanted'[about[k]] >= 1
    BY <1>1, <1>2, <2>1
  <2> QED
    BY <1>1, <1>2, <1>3, <2>2, <2>3
<1>12. CASE UNCHANGED grantsVars
  BY <1>5, <1>12 DEF grantsVars, accountRows
<1> QED
  BY <1>4, <1>5, <1>6, <1>7, <1>8, <1>9, <1>10, <1>11, <1>12 DEF GrantsNext

\* An account becomes an admin at most as often as somebody asked for it.
THEOREM InvitationsCorrect == GrantsSpec => []InvitationsSpentOnce
<1>1. GrantsInit => GrantsTypeOK
  BY OwnerAssumption DEF GrantsInit, GrantsTypeOK
<1>2. GrantsInit => InvitationsSpentOnce
  BY DEF GrantsInit, InvitationsSpentOnce, Count
<1> QED
  BY <1>1, <1>2, GrantsTypeStep, InvitationStep, PTL DEF GrantsSpec

-----------------------------------------------------------------------------
(* ProductImages: types.                                                   *)

ImageSteps == {"idle", "put", "save", "delete image", "delete upload", "delete product",
               "pull", "drop upload", "remove files", "done"}

LEMMA ImagesTypeStep == ImagesTypeOK /\ [ImagesNext]_imagesVars => ImagesTypeOK'
<1> SUFFICES ASSUME ImagesTypeOK, [ImagesNext]_imagesVars PROVE ImagesTypeOK'
  OBVIOUS
<1> DEFINE Sets == /\ imageRows \subseteq Images /\ uploadRows \subseteq Images /\ files \subseteq Images
                   /\ pulled \subseteq Images /\ excused \subseteq Images
<1> DEFINE CallsOK == stage \in [ImageCalls -> ImageSteps] /\ keys \in [ImageCalls -> SUBSET Images]
<1>1. Sets
  BY DEF ImagesTypeOK
<1>2. CallsOK /\ present \in BOOLEAN
  BY DEF ImagesTypeOK, ImageSteps
<1>3. Sets' /\ CallsOK' /\ present' \in BOOLEAN => ImagesTypeOK'
  BY DEF ImagesTypeOK, ImageSteps
<1>4. ASSUME NEW k \in ImageCalls, NEW next \in ImageSteps, NEW images \in SUBSET Images, Begin(k, next, images)
      PROVE  Sets' /\ CallsOK' /\ present' \in BOOLEAN
  BY <1>1, <1>2, <1>4 DEF Begin, To, imagesDb
<1>5. ASSUME NEW k \in ImageCalls, FindProduct(k) \/ ReadProduct(k)
      PROVE  Sets' /\ CallsOK' /\ present' \in BOOLEAN
  <2>1. {k} \in SUBSET Images /\ imageRows \cap uploadRows \in SUBSET Images
    BY <1>1 DEF Images
  <2>2. "put" \in ImageSteps /\ "delete product" \in ImageSteps
    BY DEF ImageSteps
  <2>3. Begin(k, "put", {k}) \/ Begin(k, "delete product", imageRows \cap uploadRows)
    BY <1>5 DEF FindProduct, ReadProduct
  <2> QED
    BY <1>4, <2>1, <2>2, <2>3
<1>6. ASSUME NEW k \in ImageCalls, NEW i \in Images, FindImage(k, i) \/ FindUpload(k, i)
      PROVE  Sets' /\ CallsOK' /\ present' \in BOOLEAN
  <2>1. "delete image" \in ImageSteps /\ "pull" \in ImageSteps /\ {i} \in SUBSET Images
    BY DEF ImageSteps
  <2>2. Begin(k, "delete image", {i}) \/ Begin(k, "pull", {i})
    BY <1>6 DEF FindImage, FindUpload, RowFirst
  <2> QED
    BY <1>4, <2>1, <2>2
<1>7. ASSUME NEW k \in ImageCalls, PutFile(k) \/ SaveImage(k) \/ ImagesFail(k)
      PROVE  Sets' /\ CallsOK' /\ present' \in BOOLEAN
  <2>1. k \in Images /\ keys[k] \subseteq Images
    BY <1>2 DEF Images
  <2>2. stage' \in [ImageCalls -> ImageSteps] /\ keys' = keys /\ present' = present
    BY <1>2, <1>7 DEF PutFile, SaveImage, ImagesFail, To, ImageSteps, imagesDb
  <2>3. Sets'
    BY <1>1, <1>7, <2>1 DEF PutFile, SaveImage, ImagesFail, imagesDb
  <2> QED
    BY <1>2, <2>2, <2>3
<1>8. ASSUME NEW k \in ImageCalls,
             DeleteImageRow(k) \/ DeleteUploadRow(k) \/ DeleteProduct(k) \/ PullFile(k) \/ DropUpload(k)
      PROVE  Sets' /\ CallsOK' /\ present' \in BOOLEAN
  <2>1. keys[k] \subseteq Images
    BY <1>2
  <2>2. stage' \in [ImageCalls -> ImageSteps] /\ keys' = keys /\ (present' = present \/ present' = FALSE)
    BY <1>2, <1>8 DEF DeleteImageRow, DeleteUploadRow, DeleteProduct, PullFile, DropUpload, To, ImageSteps, imagesDb
  <2>3. Sets'
    BY <1>1, <1>8, <2>1 DEF DeleteImageRow, DeleteUploadRow, DeleteProduct, PullFile, DropUpload, imagesDb
  <2> QED
    BY <1>2, <2>2, <2>3
<1>9. ASSUME NEW k \in ImageCalls, RemoveFiles(k) PROVE Sets' /\ CallsOK' /\ present' \in BOOLEAN
  <2>1. keys[k] \subseteq Images
    BY <1>2
  <2>2. stage' \in [ImageCalls -> ImageSteps] /\ UNCHANGED <<present, imageRows, uploadRows, keys, pulled>>
    BY <1>2, <1>9 DEF RemoveFiles, To, ImageSteps, imagesDb
  <2>3. files' \subseteq Images /\ excused' \subseteq Images
    BY <1>1, <1>9, <2>1 DEF RemoveFiles, KeysToRemove
  <2> QED
    BY <1>1, <1>2, <2>2, <2>3
<1>10. ASSUME UNCHANGED imagesVars PROVE Sets' /\ CallsOK' /\ present' \in BOOLEAN
  BY <1>1, <1>2, <1>10 DEF imagesVars, imagesDb
<1> QED
  BY <1>3, <1>5, <1>6, <1>7, <1>8, <1>9, <1>10 DEF ImagesNext

LEMMA ImagesInitially == ImagesInit => ImagesTypeOK
  BY DEF ImagesInit, ImagesTypeOK, Images

\* The rows, the files and the calls are well typed.
THEOREM ImagesTypeCorrect == ImagesSpec => []ImagesTypeOK
  BY ImagesInitially, ImagesTypeStep, PTL DEF ImagesSpec

-----------------------------------------------------------------------------
(* ProductImages: rows, files and leftovers.                               *)

\* Nothing refers to the picture of a call before its row is saved.
Unsaved ==
  \A k \in ImageCalls :
    stage[k] \in {"idle", "put", "save"} =>
      k \notin imageRows /\ k \notin uploadRows /\ \A j \in ImageCalls \ {k} : k \notin keys[j]

\* What a call holds at its steps.
HoldsKeys(k) ==
  /\ stage[k] \in {"put", "save"} => keys[k] = {k}
  /\ stage[k] = "save" => k \in files
  /\ stage[k] \in {"delete upload", "remove files"} => keys[k] \cap imageRows = {}
  /\ stage[k] \in {"delete image", "delete upload", "pull", "drop upload"} => \E i \in Images : keys[k] = {i}
  /\ stage[k] = "drop upload" => keys[k] \cap files = {}

\* A file is pointed at, excused, or some call will see to it.
Pointed(i) == i \in imageRows /\ i \in uploadRows
SeenTo(i) ==
  \/ \E k \in ImageCalls : stage[k] \in {"save", "remove files"} /\ i \in keys[k]
  \/ i \in uploadRows /\ \E k \in ImageCalls : stage[k] = "delete upload" /\ i \in keys[k]

ImagesInv ==
  /\ ImagesTypeOK /\ ImagesHaveFiles /\ Unsaved
  /\ \A k \in ImageCalls : HoldsKeys(k)
  /\ \A i \in files : Pointed(i) \/ i \in excused \/ SeenTo(i)

\* A call begins.
LEMMA BeginKeeps ==
  ASSUME ImagesTypeOK, Unsaved, \A j \in ImageCalls : HoldsKeys(j),
         NEW k \in ImageCalls, NEW next \in {"put", "delete image", "pull", "delete product"},
         NEW images \in SUBSET Images, Begin(k, next, images),
         next = "put" => images = {k},
         next # "put" => images \subseteq imageRows \cup uploadRows,
         next \in {"delete image", "pull"} => \E i \in Images : images = {i}
  PROVE  Unsaved' /\ \A j \in ImageCalls : HoldsKeys(j)'
<1>1. stage[k] = "idle" /\ UNCHANGED <<imageRows, uploadRows, files>>
  BY DEF Begin, imagesDb
<1>2. stage' = [stage EXCEPT ![k] = next] /\ keys' = [keys EXCEPT ![k] = images]
  BY DEF Begin, To
<1>3. stage'[k] = next /\ keys'[k] = images
  BY <1>2 DEF ImagesTypeOK
<1>4. \A j \in ImageCalls \ {k} : stage'[j] = stage[j] /\ keys'[j] = keys[j]
  BY <1>2 DEF ImagesTypeOK
<1>5. Unsaved'
  <2> SUFFICES ASSUME NEW i \in ImageCalls, stage'[i] \in {"idle", "put", "save"}
               PROVE  i \notin imageRows /\ i \notin uploadRows /\ \A j \in ImageCalls \ {i} : i \notin keys'[j]
    BY <1>1 DEF Unsaved
  <2>1. stage[i] \in {"idle", "put", "save"}
    BY <1>1, <1>4
  <2>2. i \notin imageRows /\ i \notin uploadRows /\ \A j \in ImageCalls \ {i} : i \notin keys[j]
    BY <2>1 DEF Unsaved
  <2>3. ASSUME i # k PROVE i \notin images
    BY <2>2, <2>3
  <2> QED
    BY <1>3, <1>4, <2>2, <2>3
<1>6. ASSUME NEW j \in ImageCalls PROVE HoldsKeys(j)'
  <2>1. CASE j = k
    BY <1>3, <2>1 DEF HoldsKeys
  <2>2. CASE j # k
    <3>1. HoldsKeys(j) /\ stage'[j] = stage[j] /\ keys'[j] = keys[j]
      BY <1>4, <2>2
    <3> QED
      BY <1>1, <3>1 DEF HoldsKeys
  <2> QED
    BY <2>1, <2>2
<1> QED
  BY <1>5, <1>6

LEMMA ImagesStep == ImagesInv /\ [ImagesNext]_imagesVars => ImagesInv'
<1> SUFFICES ASSUME ImagesInv, [ImagesNext]_imagesVars PROVE ImagesInv'
  OBVIOUS
<1>0. ImagesTypeOK
  BY DEF ImagesInv
<1>1. ImagesTypeOK'
  BY ImagesTypeStep DEF ImagesInv
<1>2. stage \in [ImageCalls -> ImageSteps] /\ keys \in [ImageCalls -> SUBSET Images]
  BY DEF ImagesInv, ImagesTypeOK, ImageSteps
<1>3. Unsaved /\ \A k \in ImageCalls : HoldsKeys(k)
  BY DEF ImagesInv
<1>4. \A i \in files : Pointed(i) \/ i \in excused \/ SeenTo(i)
  BY DEF ImagesInv
<1>5. imageRows \subseteq files \cup pulled
  BY DEF ImagesInv, ImagesHaveFiles
<1> DEFINE Rest == /\ Unsaved' /\ \A k \in ImageCalls : HoldsKeys(k)'
                   /\ \A i \in files' : Pointed(i)' \/ i \in excused' \/ SeenTo(i)'
<1>6. ASSUME NEW k \in ImageCalls, NEW next, NEW images, Begin(k, next, images)
      PROVE  /\ stage[k] = "idle" /\ UNCHANGED <<present, imageRows, uploadRows, files, pulled, excused>>
             /\ stage' = [stage EXCEPT ![k] = next] /\ keys' = [keys EXCEPT ![k] = images]
             /\ \A j \in ImageCalls : stage'[j] = IF j = k THEN next ELSE stage[j]
             /\ \A j \in ImageCalls : keys'[j] = IF j = k THEN images ELSE keys[j]
  BY <1>2, <1>6 DEF Begin, To, imagesDb
<1>7. ASSUME NEW k \in ImageCalls, FindProduct(k) PROVE ImagesHaveFiles' /\ Rest
  <2>1. Begin(k, "put", {k}) /\ {k} \in SUBSET Images
    BY <1>7 DEF FindProduct, Images
  <2>2. Unsaved' /\ \A j \in ImageCalls : HoldsKeys(j)'
    BY <1>0, <1>3, <2>1, BeginKeeps
  <2>3. \A i \in files' : Pointed(i)' \/ i \in excused' \/ SeenTo(i)'
    BY <1>4, <1>6, <2>1 DEF Pointed, SeenTo
  <2> QED
    BY <1>5, <1>6, <2>1, <2>2, <2>3 DEF ImagesHaveFiles
<1>8. ASSUME NEW k \in ImageCalls, ReadProduct(k) PROVE ImagesHaveFiles' /\ Rest
  <2>1. Begin(k, "delete product", imageRows \cap uploadRows)
    BY <1>8 DEF ReadProduct
  <2>2. imageRows \cap uploadRows \in SUBSET Images
    BY <1>0 DEF ImagesTypeOK
  <2>3. Unsaved' /\ \A j \in ImageCalls : HoldsKeys(j)'
    BY <1>0, <1>3, <2>1, <2>2, BeginKeeps
  <2>4. \A i \in files' : Pointed(i)' \/ i \in excused' \/ SeenTo(i)'
    BY <1>4, <1>6, <2>1 DEF Pointed, SeenTo
  <2> QED
    BY <1>5, <1>6, <2>1, <2>3, <2>4 DEF ImagesHaveFiles
<1>9. ASSUME NEW k \in ImageCalls, NEW i \in Images, FindImage(k, i) \/ FindUpload(k, i)
      PROVE  ImagesHaveFiles' /\ Rest
  <2>1. PICK next \in {"delete image", "pull"} : Begin(k, next, {i})
    BY <1>9 DEF FindImage, FindUpload, RowFirst
  <2>2. {i} \subseteq imageRows \cup uploadRows /\ {i} \in SUBSET Images
    BY <1>9 DEF FindImage, FindUpload
  <2>3. Unsaved' /\ \A j \in ImageCalls : HoldsKeys(j)'
    BY <1>0, <1>3, <2>1, <2>2, BeginKeeps
  <2>4. \A f \in files' : Pointed(f)' \/ f \in excused' \/ SeenTo(f)'
    BY <1>4, <1>6, <2>1 DEF Pointed, SeenTo
  <2> QED
    BY <1>5, <1>6, <2>1, <2>3, <2>4 DEF ImagesHaveFiles
<1>10. ASSUME NEW k \in ImageCalls, PutFile(k) PROVE ImagesHaveFiles' /\ Rest
  <2>1. /\ stage[k] = "put" /\ UNCHANGED <<imageRows, uploadRows, keys, pulled>>
        /\ \/ files' = files \cup {k} /\ stage'[k] = "save" /\ excused' = excused
           \/ files' = files \cup {k} /\ stage'[k] = "done" /\ excused' = excused \cup {k}
           \/ files' = files /\ stage'[k] = "done" /\ excused' = excused
        /\ \A j \in ImageCalls \ {k} : stage'[j] = stage[j]
    BY <1>2, <1>10 DEF PutFile, To, imagesDb
  <2>2. keys[k] = {k} /\ \A j \in ImageCalls \ {k} : k \notin keys[j]
    BY <1>3, <2>1 DEF HoldsKeys, Unsaved
  <2>3. Unsaved'
    BY <1>3, <2>1 DEF Unsaved
  <2>4. HoldsKeys(k)'
    BY <2>1, <2>2 DEF HoldsKeys
  <2>5. ASSUME NEW j \in ImageCalls \ {k} PROVE HoldsKeys(j)'
    <3>1. HoldsKeys(j) /\ stage'[j] = stage[j] /\ keys' = keys /\ imageRows' = imageRows
      BY <1>3, <2>1
    <3>2. keys[j] \cap files' = keys[j] \cap files /\ files \subseteq files'
      BY <2>1, <2>2
    <3>3. j \in files => j \in files'
      BY <3>2
    <3> QED
      BY <3>1, <3>2, <3>3 DEF HoldsKeys
  <2>6. \A f \in files' : Pointed(f)' \/ f \in excused' \/ SeenTo(f)'
    BY <1>4, <2>1, <2>2 DEF Pointed, SeenTo
  <2> QED
    BY <1>5, <2>1, <2>3, <2>4, <2>5, <2>6 DEF ImagesHaveFiles
<1>11. ASSUME NEW k \in ImageCalls, SaveImage(k) PROVE ImagesHaveFiles' /\ Rest
  <2>1. /\ stage[k] = "save" /\ UNCHANGED <<files, keys, pulled, excused>>
        /\ \/ imageRows' = imageRows \cup {k} /\ uploadRows' = uploadRows \cup {k} /\ stage'[k] = "done"
           \/ imageRows' = imageRows /\ uploadRows' = uploadRows /\ stage'[k] = "remove files"
        /\ \A j \in ImageCalls \ {k} : stage'[j] = stage[j]
    BY <1>2, <1>11 DEF SaveImage, To
  <2>2. keys[k] = {k} /\ k \in files /\ k \notin imageRows /\ \A j \in ImageCalls \ {k} : k \notin keys[j]
    BY <1>3, <2>1 DEF HoldsKeys, Unsaved
  <2>3. Unsaved'
    <3> SUFFICES ASSUME NEW i \in ImageCalls, stage'[i] \in {"idle", "put", "save"}
                 PROVE  i \notin imageRows' /\ i \notin uploadRows' /\ \A j \in ImageCalls \ {i} : i \notin keys'[j]
      BY DEF Unsaved
    <3>1. i # k
      BY <2>1
    <3>2. stage[i] \in {"idle", "put", "save"}
      BY <2>1, <3>1
    <3>3. i \notin imageRows /\ i \notin uploadRows /\ \A j \in ImageCalls \ {i} : i \notin keys[j]
      BY <1>3, <3>2 DEF Unsaved
    <3>4. keys' = keys /\ i \notin imageRows' /\ i \notin uploadRows'
      BY <2>1, <3>1, <3>3
    <3> QED
      BY <3>3, <3>4
  <2>4. HoldsKeys(k)'
    BY <2>1, <2>2 DEF HoldsKeys
  <2>5. ASSUME NEW j \in ImageCalls \ {k} PROVE HoldsKeys(j)'
    <3>1. HoldsKeys(j) /\ stage'[j] = stage[j] /\ keys' = keys /\ files' = files
      BY <1>3, <2>1
    <3>2. keys[j] \cap imageRows' = keys[j] \cap imageRows
      BY <2>1, <2>2
    <3> QED
      BY <3>1, <3>2 DEF HoldsKeys
  <2>6. \A f \in files' : Pointed(f)' \/ f \in excused' \/ SeenTo(f)'
    BY <1>4, <2>1, <2>2 DEF Pointed, SeenTo
  <2> QED
    BY <1>5, <2>1, <2>2, <2>3, <2>4, <2>5, <2>6 DEF ImagesHaveFiles
<1>12. ASSUME NEW k \in ImageCalls, DeleteImageRow(k) PROVE ImagesHaveFiles' /\ Rest
  <2>1. /\ stage[k] = "delete image" /\ UNCHANGED <<uploadRows, files, keys, pulled, excused>>
        /\ imageRows' = imageRows \ keys[k]
        /\ \/ keys[k] \subseteq uploadRows /\ stage'[k] = "delete upload"
           \/ ~(keys[k] \subseteq uploadRows) /\ stage'[k] = "done"
        /\ \A j \in ImageCalls \ {k} : stage'[j] = stage[j]
    BY <1>2, <1>12 DEF DeleteImageRow, To
  <2>2. PICK i \in Images : keys[k] = {i}
    BY <1>3, <2>1 DEF HoldsKeys
  <2>3. Unsaved'
    BY <1>3, <2>1 DEF Unsaved
  <2>4. \A j \in ImageCalls : HoldsKeys(j)'
    BY <1>3, <2>1, <2>2 DEF HoldsKeys
  <2>5. \A f \in files' : Pointed(f)' \/ f \in excused' \/ SeenTo(f)'
    BY <1>4, <2>1, <2>2 DEF Pointed, SeenTo
  <2> QED
    BY <1>5, <2>1, <2>3, <2>4, <2>5 DEF ImagesHaveFiles
<1>13. ASSUME NEW k \in ImageCalls, DeleteUploadRow(k) PROVE ImagesHaveFiles' /\ Rest
  <2>1. /\ stage[k] = "delete upload" /\ UNCHANGED <<imageRows, files, keys, pulled, excused>>
        /\ uploadRows' = uploadRows \ keys[k]
        /\ \/ keys[k] \subseteq uploadRows /\ stage'[k] = "remove files"
           \/ ~(keys[k] \subseteq uploadRows) /\ stage'[k] = "done"
        /\ \A j \in ImageCalls \ {k} : stage'[j] = stage[j]
    BY <1>2, <1>13 DEF DeleteUploadRow, To
  <2>2. PICK i \in Images : keys[k] = {i}
    BY <1>3, <2>1 DEF HoldsKeys
  <2>3. Unsaved'
    BY <1>3, <2>1 DEF Unsaved
  <2>4. \A j \in ImageCalls : HoldsKeys(j)'
    BY <1>3, <2>1, <2>2 DEF HoldsKeys
  <2>5. keys[k] \cap imageRows = {}
    BY <1>3, <2>1 DEF HoldsKeys
  <2>6. \A f \in files' : Pointed(f)' \/ f \in excused' \/ SeenTo(f)'
    BY <1>4, <2>1, <2>2, <2>5 DEF Pointed, SeenTo
  <2> QED
    BY <1>5, <2>1, <2>3, <2>4, <2>6 DEF ImagesHaveFiles
<1>14. ASSUME NEW k \in ImageCalls, DeleteProduct(k) PROVE ImagesHaveFiles' /\ Rest
  <2>1. /\ stage[k] = "delete product" /\ UNCHANGED <<files, keys, pulled>>
        /\ imageRows' = {} /\ uploadRows' = uploadRows \ keys[k]
        /\ excused' = excused \cup (imageRows \ keys[k]) /\ stage'[k] = "remove files"
        /\ \A j \in ImageCalls \ {k} : stage'[j] = stage[j]
    BY <1>2, <1>14 DEF DeleteProduct, To
  <2>2. Unsaved'
    BY <1>3, <2>1 DEF Unsaved
  <2>3. \A j \in ImageCalls : HoldsKeys(j)'
    BY <1>3, <2>1 DEF HoldsKeys
  <2>4. \A f \in files' : Pointed(f)' \/ f \in excused' \/ SeenTo(f)'
    BY <1>4, <2>1 DEF Pointed, SeenTo
  <2> QED
    BY <2>1, <2>2, <2>3, <2>4 DEF ImagesHaveFiles
<1>15. ASSUME NEW k \in ImageCalls, PullFile(k) PROVE ImagesHaveFiles' /\ Rest
  <2>1. /\ stage[k] = "pull" /\ UNCHANGED <<imageRows, uploadRows, keys, excused>>
        /\ files' = files \ keys[k] /\ pulled' = pulled \cup keys[k] /\ stage'[k] = "drop upload"
        /\ \A j \in ImageCalls \ {k} : stage'[j] = stage[j]
    BY <1>2, <1>15 DEF PullFile, To, imagesDb
  <2>2. Unsaved'
    BY <1>3, <2>1 DEF Unsaved
  <2>3. \A j \in ImageCalls : stage[j] = "save" => j \notin keys[k]
    BY <1>3, <2>1 DEF Unsaved
  <2>4. \A j \in ImageCalls : HoldsKeys(j)'
    BY <1>3, <2>1, <2>3 DEF HoldsKeys
  <2>5. \A f \in files' : Pointed(f)' \/ f \in excused' \/ SeenTo(f)'
    BY <1>4, <2>1 DEF Pointed, SeenTo
  <2> QED
    BY <1>5, <2>1, <2>2, <2>4, <2>5 DEF ImagesHaveFiles
<1>16. ASSUME NEW k \in ImageCalls, DropUpload(k) PROVE ImagesHaveFiles' /\ Rest
  <2>1. /\ stage[k] = "drop upload" /\ UNCHANGED <<imageRows, files, keys, pulled, excused>>
        /\ uploadRows' = uploadRows \ keys[k] /\ stage'[k] = "done"
        /\ \A j \in ImageCalls \ {k} : stage'[j] = stage[j]
    BY <1>2, <1>16 DEF DropUpload, To
  <2>2. keys[k] \cap files = {}
    BY <1>3, <2>1 DEF HoldsKeys
  <2>3. Unsaved'
    BY <1>3, <2>1 DEF Unsaved
  <2>4. \A j \in ImageCalls : HoldsKeys(j)'
    BY <1>3, <2>1 DEF HoldsKeys
  <2>5. \A f \in files' : Pointed(f)' \/ f \in excused' \/ SeenTo(f)'
    BY <1>4, <2>1, <2>2 DEF Pointed, SeenTo
  <2> QED
    BY <1>5, <2>1, <2>3, <2>4, <2>5 DEF ImagesHaveFiles
<1>17. ASSUME NEW k \in ImageCalls, RemoveFiles(k) PROVE ImagesHaveFiles' /\ Rest
  <2>1. PICK failed \in SUBSET keys[k] :
          files' = files \ (keys[k] \ failed) /\ excused' = excused \cup failed
    BY <1>17 DEF RemoveFiles, KeysToRemove
  <2>2. /\ stage[k] = "remove files" /\ UNCHANGED <<imageRows, uploadRows, keys, pulled>> /\ stage'[k] = "done"
        /\ \A j \in ImageCalls \ {k} : stage'[j] = stage[j]
    BY <1>2, <1>17 DEF RemoveFiles, To, imagesDb
  <2>3. keys[k] \cap imageRows = {}
    BY <1>3, <2>2 DEF HoldsKeys
  <2>4. Unsaved'
    BY <1>3, <2>2 DEF Unsaved
  <2>5. \A j \in ImageCalls : stage[j] = "save" => j \notin keys[k]
    BY <1>3, <2>2 DEF Unsaved
  <2>6. \A j \in ImageCalls : HoldsKeys(j)'
    BY <1>3, <2>1, <2>2, <2>5 DEF HoldsKeys
  <2>7. \A f \in files' : Pointed(f)' \/ f \in excused' \/ SeenTo(f)'
    BY <1>4, <2>1, <2>2 DEF Pointed, SeenTo
  <2> QED
    BY <1>5, <2>1, <2>2, <2>3, <2>4, <2>6, <2>7 DEF ImagesHaveFiles
<1>18. ASSUME NEW k \in ImageCalls, ImagesFail(k) PROVE ImagesHaveFiles' /\ Rest
  <2>1. /\ stage'[k] = "done" /\ UNCHANGED <<imageRows, uploadRows, files, keys, pulled>>
        /\ excused \subseteq excused'
        /\ stage[k] \in {"save", "delete upload", "remove files"} => keys[k] \subseteq excused'
        /\ \A j \in ImageCalls \ {k} : stage'[j] = stage[j]
    BY <1>2, <1>18 DEF ImagesFail, To, imagesDb
  <2>2. Unsaved'
    BY <1>3, <2>1 DEF Unsaved
  <2>3. \A j \in ImageCalls : HoldsKeys(j)'
    BY <1>3, <2>1 DEF HoldsKeys
  <2>4. \A f \in files' : Pointed(f)' \/ f \in excused' \/ SeenTo(f)'
    BY <1>4, <2>1 DEF Pointed, SeenTo
  <2> QED
    BY <1>5, <2>1, <2>2, <2>3, <2>4 DEF ImagesHaveFiles
<1>19. ASSUME UNCHANGED imagesVars PROVE ImagesHaveFiles' /\ Rest
  <2>1. UNCHANGED <<imageRows, uploadRows, files, stage, keys, pulled, excused>>
    BY <1>19 DEF imagesVars, imagesDb
  <2> QED
    BY <1>3, <1>4, <1>5, <2>1 DEF ImagesHaveFiles, Unsaved, HoldsKeys, Pointed, SeenTo
<1> QED
  BY <1>1, <1>7, <1>8, <1>9, <1>10, <1>11, <1>12, <1>13, <1>14, <1>15, <1>16, <1>17, <1>18, <1>19
  DEF ImagesInv, ImagesNext

LEMMA ImagesInvInitially == ImagesInit => ImagesInv
<1> SUFFICES ASSUME ImagesInit PROVE ImagesInv
  OBVIOUS
<1>1. ImagesTypeOK
  BY ImagesInitially
<1>2. Unsaved
  BY ImagesAssumption DEF ImagesInit, Unsaved
<1>3. ImagesHaveFiles /\ \A i \in files : Pointed(i)
  BY DEF ImagesInit, ImagesHaveFiles, Pointed
<1>4. \A k \in ImageCalls : HoldsKeys(k)
  BY DEF ImagesInit, HoldsKeys
<1> QED
  BY <1>1, <1>2, <1>3, <1>4 DEF ImagesInv

\* The product points at files that are there, unless an upload itself was
\* deleted.
THEOREM ImagesHaveFilesCorrect == ImagesSpec => []ImagesHaveFiles
<1>1. ImagesInv => ImagesHaveFiles
  BY DEF ImagesInv
<1> QED
  BY <1>1, ImagesInvInitially, ImagesStep, PTL DEF ImagesSpec

\* At rest, a file nothing points at is one a failure or a race left behind.
THEOREM LeftoversCorrect == ImagesSpec => []LeftoversExplained
<1>1. ImagesInv => LeftoversExplained
  <2> SUFFICES ASSUME ImagesInv, \A k \in ImageCalls : stage[k] \in {"idle", "done"}, NEW i \in files
               PROVE  i \in imageRows \cup excused
    BY DEF LeftoversExplained
  <2>1. ~SeenTo(i)
    BY DEF SeenTo
  <2> QED
    BY <2>1 DEF ImagesInv, Pointed
<1> QED
  BY <1>1, ImagesInvInitially, ImagesStep, PTL DEF ImagesSpec

-----------------------------------------------------------------------------
(* Categories: the two levels of the tree.                                 *)

EditRecords == [step : EditSteps, product : Products, category : CategoryIds \cup {Top},
                to : CategoryIds \cup {Top}, stale : BOOLEAN]

\* Where an open call stands: it is about categories.
PlacedCalls == \A k \in TreeCalls : Open(k) => edit[k].category \in CategoryIds /\ edit[k].to \in CategoryIds

\* What a call has checked holds still, unless somebody wrote there since.
Moves(k) == edit[k].step \in {"count children", "create", "update"}
Checked(k) ==
  ~edit[k].stale =>
    /\ Moves(k) => /\ edit[k].category # edit[k].to
                   /\ parent[edit[k].to] \in {Top, NoRow}
                   /\ ProductsOf(edit[k].to) = {}
    /\ edit[k].step \in {"create", "update"} => Children(edit[k].category) = {}
    /\ edit[k].step \in {"create product", "move product"} => Children(edit[k].to) = {}

\* The inductive invariant: the rules are kept, and what the open calls rely
\* on is still so.
TreeInv ==
  /\ TreeTypeOK
  /\ HierarchyKept
  /\ PlacedCalls
  /\ \A k \in TreeCalls : Checked(k)

\* A call that writes marks the others about its categories.
LEMMA WrittenMarks ==
  ASSUME TreeTypeOK, PlacedCalls, NEW k \in TreeCalls, Open(k), Written(k)
  PROVE  /\ edit' \in [TreeCalls -> EditRecords]
         /\ edit'[k] = Blank("done")
         /\ \A j \in TreeCalls \ {k} :
              /\ edit'[j].step = edit[j].step /\ edit'[j].category = edit[j].category
              /\ edit'[j].to = edit[j].to /\ edit'[j].product = edit[j].product
              /\ Open(j)' = Open(j)
              /\ edit[j].stale => edit'[j].stale
              /\ Open(j) /\ ~edit'[j].stale =>
                   /\ edit[j].category # edit[k].category /\ edit[j].category # edit[k].to
                   /\ edit[j].to # edit[k].category /\ edit[j].to # edit[k].to
         /\ Concern(k) = {edit[k].category, edit[k].to}
         /\ scars' = (IF edit[k].stale THEN scars \cup {edit[k].category, edit[k].to} ELSE scars)
         /\ scars' \subseteq CategoryIds
<1>1. edit \in [TreeCalls -> EditRecords]
  BY DEF TreeTypeOK, EditRecords
<1>2. \A j \in TreeCalls : edit[j] \in EditRecords
  BY <1>1
<1>3. \A j \in TreeCalls : Open(j) => Concern(j) = {edit[j].category, edit[j].to}
  BY DEF PlacedCalls, Concern
<1>4. Products # {}
  BY <1>2 DEF EditRecords
<1>5. Blank("done") \in EditRecords
  BY <1>4 DEF Blank, EditRecords, EditSteps
<1>6. edit'[k] = Blank("done")
  BY DEF Written
<1>7. \A j \in TreeCalls \ {k} : edit'[j] = IF Overlaps(j, k) THEN [edit[j] EXCEPT !.stale = TRUE] ELSE edit[j]
  BY DEF Written
<1>8. ASSUME NEW j \in TreeCalls \ {k}
      PROVE  /\ edit'[j] \in EditRecords
             /\ edit'[j].step = edit[j].step /\ edit'[j].category = edit[j].category
             /\ edit'[j].to = edit[j].to /\ edit'[j].product = edit[j].product
             /\ Overlaps(j, k) \/ edit[j].stale => edit'[j].stale
  <2>1. edit[j] \in EditRecords
    BY <1>2
  <2>2. CASE Overlaps(j, k)
    <3>1. edit'[j] = [edit[j] EXCEPT !.stale = TRUE]
      BY <1>7, <2>2
    <3> QED
      BY <2>1, <3>1 DEF EditRecords
  <2>3. CASE ~Overlaps(j, k)
    BY <1>7, <2>1, <2>3
  <2> QED
    BY <2>2, <2>3
<1>9. edit' \in [TreeCalls -> EditRecords]
  <2>1. \A j \in TreeCalls : edit'[j] \in EditRecords
    BY <1>5, <1>6, <1>8
  <2>2. edit' = [j \in TreeCalls |-> edit'[j]]
    BY DEF Written
  <2> QED
    BY <2>1, <2>2
<1>10. ASSUME NEW j \in TreeCalls \ {k}
       PROVE  /\ Open(j)' = Open(j)
              /\ edit[j].stale => edit'[j].stale
              /\ Open(j) /\ ~edit'[j].stale =>
                   /\ edit[j].category # edit[k].category /\ edit[j].category # edit[k].to
                   /\ edit[j].to # edit[k].category /\ edit[j].to # edit[k].to
  <2>1. Open(j)' = Open(j)
    BY <1>8 DEF Open
  <2>2. edit[j].stale => edit'[j].stale
    BY <1>8
  <2>3. ASSUME Open(j), ~edit'[j].stale
        PROVE  {edit[j].category, edit[j].to} \cap {edit[k].category, edit[k].to} = {}
    BY <1>3, <1>8, <2>3 DEF Overlaps
  <2> QED
    BY <2>1, <2>2, <2>3
<1>11. scars' = (IF edit[k].stale THEN scars \cup {edit[k].category, edit[k].to} ELSE scars)
  BY <1>3 DEF Written
<1>12. scars' \subseteq CategoryIds
  BY <1>11 DEF TreeTypeOK, PlacedCalls
<1> QED
  BY <1>3, <1>6, <1>8, <1>9, <1>10, <1>11, <1>12

\* What calls rely on does not go away as long as their categories get no
\* parent, child or product.
LEMMA StillChecked ==
  ASSUME TreeTypeOK, NEW j \in TreeCalls, Checked(j),
         Open(j) => edit[j].category \in CategoryIds /\ edit[j].to \in CategoryIds,
         edit'[j].step = edit[j].step, edit'[j].category = edit[j].category, edit'[j].to = edit[j].to,
         edit[j].stale => edit'[j].stale,
         ASSUME Open(j), ~edit'[j].stale
         PROVE  /\ parent'[edit[j].to] \in {parent[edit[j].to], Top, NoRow}
                /\ ProductsOf(edit[j].to)' \subseteq ProductsOf(edit[j].to)
                /\ Children(edit[j].category)' \subseteq Children(edit[j].category)
                /\ Children(edit[j].to)' \subseteq Children(edit[j].to)
  PROVE  Checked(j)'
<1> PICK c, t : c = edit[j].category /\ t = edit[j].to
  OBVIOUS
<1>0. ProductsOf(edit[j].to)' = {p \in Products : home'[p] = t}
  BY DEF ProductsOf
<1>1. /\ Children(edit[j].category)' = {d \in CategoryIds : parent'[d] = c}
      /\ Children(edit[j].to)' = {d \in CategoryIds : parent'[d] = t}
  BY DEF Children
<1>2. CASE Open(j) /\ ~edit'[j].stale
  <2>1. /\ parent'[t] \in {parent[t], Top, NoRow}
        /\ ProductsOf(edit[j].to)' \subseteq ProductsOf(t)
        /\ Children(edit[j].category)' \subseteq Children(c)
        /\ Children(edit[j].to)' \subseteq Children(t)
    BY <1>2
  <2> QED
    BY <1>2, <2>1 DEF Checked, Moves
<1>3. CASE edit'[j].stale
  BY <1>3 DEF Checked
<1>4. CASE ~Open(j)
  BY <1>4 DEF Open, Checked, Moves
<1> QED
  BY <1>2, <1>3, <1>4

\* A call starts, goes on or ends, and the rows stay.
LEMMA TreeCallMoves ==
  ASSUME TreeInv, NEW k \in TreeCalls, NEW r \in EditRecords,
         edit' = [edit EXCEPT ![k] = r], UNCHANGED <<treeRows, scars>>,
         r.step \notin {"idle", "done"} => r.category \in CategoryIds /\ r.to \in CategoryIds,
         ~r.stale =>
           /\ r.step \in {"count children", "create", "update"} =>
                /\ r.category # r.to
                /\ parent[r.to] \in {Top, NoRow}
                /\ ProductsOf(r.to) = {}
           /\ r.step \in {"create", "update"} => Children(r.category) = {}
           /\ r.step \in {"create product", "move product"} => Children(r.to) = {}
  PROVE  TreeInv'
<1>1. TreeTypeOK /\ HierarchyKept /\ PlacedCalls /\ \A j \in TreeCalls : Checked(j)
  BY DEF TreeInv
<1>2. edit \in [TreeCalls -> EditRecords]
  BY <1>1 DEF TreeTypeOK, EditRecords
<1>3. edit' \in [TreeCalls -> EditRecords]
  BY <1>2
<1>4. UNCHANGED <<parent, home, scars>>
  BY DEF treeRows
<1>5. TreeTypeOK'
  BY <1>1, <1>3, <1>4 DEF TreeTypeOK, EditRecords, Existing
<1>6. HierarchyKept'
  BY <1>1, <1>4 DEF HierarchyKept, Existing, Children, ProductsOf
<1>7. edit'[k] = r /\ \A j \in TreeCalls \ {k} : edit'[j] = edit[j]
  BY <1>2
<1>8. PlacedCalls'
  BY <1>1, <1>7 DEF PlacedCalls, Open
<1>9. ASSUME NEW j \in TreeCalls PROVE Checked(j)'
  <2>1. CASE j = k
    BY <1>4, <1>7, <2>1 DEF Checked, Moves, ProductsOf, Children
  <2>2. CASE j # k
    <3>1. edit'[j] = edit[j] /\ Checked(j)
      BY <1>1, <1>7, <2>2
    <3> QED
      BY <1>4, <3>1 DEF Checked, Moves, ProductsOf, Children
  <2> QED
    BY <2>1, <2>2
<1> QED
  BY <1>5, <1>6, <1>8, <1>9 DEF TreeInv

LEMMA BlankEdit == Blank("done") \in EditRecords
  BY CategoriesAssumption DEF Blank, EditRecords, EditSteps

\* A category is put under another one, by a call that looked there.
LEMMA WriteParentStep == ASSUME TreeInv, NEW k \in TreeCalls, WriteParent(k) PROVE TreeInv'
<1>1. TreeTypeOK /\ HierarchyKept /\ PlacedCalls /\ \A j \in TreeCalls : Checked(j)
  BY DEF TreeInv
<1>2. PICK c, p : c = edit[k].category /\ p = edit[k].to
  OBVIOUS
<1>3. /\ edit[k].step \in {"create", "update"}
      /\ p \in Existing
      /\ parent' = [parent EXCEPT ![c] = p]
      /\ Written(k)
      /\ home' = home
  BY <1>2 DEF WriteParent
<1>4. Open(k)
  BY <1>3 DEF Open
<1>5. c \in CategoryIds /\ p \in CategoryIds
  BY <1>1, <1>2, <1>4 DEF PlacedCalls
<1>6. parent \in [CategoryIds -> CategoryIds \cup {Top, NoRow}]
  BY <1>1 DEF TreeTypeOK
<1>7. parent'[c] = p /\ \A d \in CategoryIds \ {c} : parent'[d] = parent[d]
  BY <1>3, <1>5, <1>6
<1>8. Top \notin CategoryIds /\ NoRow \notin CategoryIds /\ Top # NoRow
  BY CategoriesAssumption DEF Top, NoRow
<1>9. /\ edit' \in [TreeCalls -> EditRecords]
      /\ edit'[k] = Blank("done")
      /\ \A j \in TreeCalls \ {k} :
           /\ edit'[j].step = edit[j].step /\ edit'[j].category = edit[j].category
           /\ edit'[j].to = edit[j].to
           /\ Open(j)' = Open(j)
           /\ edit[j].stale => edit'[j].stale
           /\ Open(j) /\ ~edit'[j].stale =>
                edit[j].category # c /\ edit[j].category # p /\ edit[j].to # c /\ edit[j].to # p
      /\ scars' = (IF edit[k].stale THEN scars \cup {c, p} ELSE scars)
      /\ scars' \subseteq CategoryIds
  BY <1>1, <1>2, <1>3, <1>4, WrittenMarks
<1>10. Existing' = Existing \cup {c}
  BY <1>5, <1>7, <1>8 DEF Existing
<1>11. TreeTypeOK'
  <2>1. parent' \in [CategoryIds -> CategoryIds \cup {Top, NoRow}]
    BY <1>3, <1>5, <1>6
  <2>2. \A d \in Existing' : parent'[d] \in Existing' \cup {Top}
    BY <1>1, <1>3, <1>7, <1>10 DEF TreeTypeOK, Existing
  <2>3. \A q \in Products : home'[q] # NoRow => home'[q] \in Existing'
    BY <1>1, <1>3, <1>10 DEF TreeTypeOK
  <2> QED
    BY <1>1, <1>3, <1>9, <2>1, <2>2, <2>3 DEF TreeTypeOK, EditRecords
<1>12. PlacedCalls'
  <2>1. ~Open(k)'
    BY <1>9 DEF Open, Blank
  <2> QED
    BY <1>1, <1>9, <2>1 DEF PlacedCalls
<1>13. ASSUME NEW d \in CategoryIds \ {p} PROVE Children(d)' \subseteq Children(d)
  BY <1>3, <1>7, <1>13 DEF Children, Existing
<1>14. \A d : ProductsOf(d)' = ProductsOf(d)
  BY <1>3 DEF ProductsOf
<1>15. ASSUME NEW j \in TreeCalls PROVE Checked(j)'
  <2>1. CASE j = k
    <3>1. edit'[j].step = "done"
      BY <1>9, <2>1 DEF Blank
    <3>2. ~Moves(j)' /\ edit'[j].step \notin {"create", "update"} /\ edit'[j].step \notin {"create product", "move product"}
      BY <3>1 DEF Moves
    <3> QED
      BY <3>2 DEF Checked
  <2>2. CASE j # k
    <3>1. Open(j) => edit[j].category \in CategoryIds /\ edit[j].to \in CategoryIds
      BY <1>1 DEF PlacedCalls
    <3>2. Checked(j)
      BY <1>1
    <3>3. ASSUME Open(j), ~edit'[j].stale
          PROVE  /\ parent'[edit[j].to] \in {parent[edit[j].to], Top, NoRow}
                 /\ ProductsOf(edit[j].to)' \subseteq ProductsOf(edit[j].to)
                 /\ Children(edit[j].category)' \subseteq Children(edit[j].category)
                 /\ Children(edit[j].to)' \subseteq Children(edit[j].to)
      <4>1. /\ edit[j].category # p /\ edit[j].to # c /\ edit[j].to # p
            /\ edit[j].category \in CategoryIds /\ edit[j].to \in CategoryIds
        BY <1>9, <2>2, <3>1, <3>3
      <4>2. PICK e, t : e = edit[j].category /\ t = edit[j].to
        OBVIOUS
      <4>3. parent'[t] = parent[t] /\ {d \in CategoryIds : parent'[d] = e} \subseteq Children(e)
            /\ {d \in CategoryIds : parent'[d] = t} \subseteq Children(t)
        BY <1>7, <4>1, <4>2 DEF Children
      <4>4. Children(edit[j].category)' = {d \in CategoryIds : parent'[d] = e} /\ Children(edit[j].to)' = {d \in CategoryIds : parent'[d] = t}
            /\ ProductsOf(edit[j].to)' = {q \in Products : home'[q] = t} /\ ProductsOf(edit[j].to) = {q \in Products : home[q] = t}
        BY <1>9, <2>2, <4>2 DEF Children, ProductsOf
      <4> QED
        BY <1>3, <4>2, <4>3, <4>4
    <3> QED
      BY <1>1, <1>9, <2>2, <3>1, <3>2, <3>3, StillChecked
  <2> QED
    BY <2>1, <2>2
<1>16. HierarchyKept'
  <2> SUFFICES ASSUME NEW d \in Existing', d \notin scars'
               PROVE  /\ parent'[d] # Top /\ parent'[d] \notin scars' => parent'[parent'[d]] = Top
                      /\ ProductsOf(d)' # {} => Children(d)' = {}
    BY DEF HierarchyKept
  <2>1. d \in CategoryIds
    BY <1>5, <1>10 DEF Existing
  <2>2. CASE edit[k].stale
    <3>1. d # c /\ d # p /\ d \in Existing /\ d \notin scars
      BY <1>9, <1>10, <2>2
    <3>2. parent'[d] = parent[d] /\ Children(d)' \subseteq Children(d)
      BY <1>7, <1>13, <2>1, <3>1
    <3>3. /\ parent[d] # Top /\ parent[d] \notin scars => parent[parent[d]] = Top
          /\ ProductsOf(d) # {} => Children(d) = {}
      BY <1>1, <3>1 DEF HierarchyKept
    <3>4. parent[d] # Top => parent[d] \in CategoryIds
      BY <1>1, <3>1 DEF TreeTypeOK, Existing
    <3> QED
      BY <1>7, <1>9, <1>14, <2>2, <3>2, <3>3, <3>4
  <2>3. CASE ~edit[k].stale
    <3>1. scars' = scars
      BY <1>9, <2>3
    <3>2. /\ c # p /\ parent[p] \in {Top, NoRow} /\ ProductsOf(p) = {} /\ Children(c) = {}
      BY <1>1, <1>2, <1>3, <2>3 DEF Checked, Moves
    <3>3. parent[p] = Top
      BY <1>3, <3>2 DEF Existing
    <3>4. CASE d = c
      <4>1. parent'[d] = p /\ parent'[p] = Top
        BY <1>5, <1>7, <3>2, <3>3, <3>4
      <4>2. Children(d)' = {}
        BY <1>13, <2>1, <3>2, <3>4
      <4> QED
        BY <4>1, <4>2
    <3>5. CASE d # c
      <4>1. d \in Existing /\ d \notin scars /\ parent'[d] = parent[d]
        BY <1>7, <1>10, <2>1, <3>1, <3>5
      <4>2. /\ parent[d] # Top /\ parent[d] \notin scars => parent[parent[d]] = Top
            /\ ProductsOf(d) # {} => Children(d) = {}
        BY <1>1, <4>1 DEF HierarchyKept
      <4>3. parent[d] # c
        BY <2>1, <3>2 DEF Children
      <4>4. parent[d] # Top => parent[d] \in CategoryIds
        BY <1>1, <4>1 DEF TreeTypeOK, Existing
      <4>5. parent'[d] # Top /\ parent'[d] \notin scars' => parent'[parent'[d]] = Top
        BY <1>7, <3>1, <4>1, <4>2, <4>3, <4>4
      <4>6. ProductsOf(d)' # {} => d # p
        BY <1>14, <3>2
      <4> QED
        BY <1>13, <1>14, <2>1, <4>2, <4>5, <4>6
    <3> QED
      BY <3>4, <3>5
  <2> QED
    BY <1>1, <1>2, <2>2, <2>3 DEF TreeTypeOK
<1> QED
  BY <1>11, <1>12, <1>15, <1>16 DEF TreeInv

\* A category becomes a top-level one.
LEMMA MakeTopStep == ASSUME TreeInv, NEW c \in CategoryIds, MakeTop(c) PROVE TreeInv'
<1>1. TreeTypeOK /\ HierarchyKept /\ PlacedCalls /\ \A j \in TreeCalls : Checked(j)
  BY DEF TreeInv
<1>2. parent' = [parent EXCEPT ![c] = Top] /\ home' = home /\ edit' = edit /\ scars' = scars
  BY DEF MakeTop
<1>3. parent \in [CategoryIds -> CategoryIds \cup {Top, NoRow}]
  BY <1>1 DEF TreeTypeOK
<1>4. parent'[c] = Top /\ \A d \in CategoryIds \ {c} : parent'[d] = parent[d]
  BY <1>2, <1>3
<1>5. Top \notin CategoryIds /\ NoRow \notin CategoryIds /\ Top # NoRow
  BY CategoriesAssumption DEF Top, NoRow
<1>6. Existing' = Existing \cup {c}
  BY <1>4, <1>5 DEF Existing
<1>7. ASSUME NEW d \in CategoryIds PROVE {x \in CategoryIds : parent'[x] = d} \subseteq Children(d)
  BY <1>4, <1>5 DEF Children
<1>8. TreeTypeOK'
  <2>1. parent' \in [CategoryIds -> CategoryIds \cup {Top, NoRow}]
    BY <1>2, <1>3
  <2>2. \A d \in Existing' : parent'[d] \in Existing' \cup {Top}
    BY <1>1, <1>4, <1>6 DEF TreeTypeOK, Existing
  <2>3. \A q \in Products : home'[q] # NoRow => home'[q] \in Existing'
    BY <1>1, <1>2, <1>6 DEF TreeTypeOK
  <2> QED
    BY <1>1, <1>2, <2>1, <2>2, <2>3 DEF TreeTypeOK
<1>9. PlacedCalls'
  BY <1>1, <1>2 DEF PlacedCalls, Open
<1>10. ASSUME NEW j \in TreeCalls PROVE Checked(j)'
  <2>1. Checked(j) /\ (Open(j) => edit[j].category \in CategoryIds /\ edit[j].to \in CategoryIds)
    BY <1>1 DEF PlacedCalls
  <2>2. ASSUME Open(j)
        PROVE  /\ parent'[edit[j].to] \in {parent[edit[j].to], Top, NoRow}
               /\ ProductsOf(edit[j].to)' \subseteq ProductsOf(edit[j].to)
               /\ Children(edit[j].category)' \subseteq Children(edit[j].category)
               /\ Children(edit[j].to)' \subseteq Children(edit[j].to)
    <3>1. PICK e, t : e = edit[j].category /\ t = edit[j].to
      OBVIOUS
    <3>2. e \in CategoryIds /\ t \in CategoryIds
      BY <2>1, <2>2, <3>1
    <3>3. /\ Children(edit[j].category)' = {d \in CategoryIds : parent'[d] = e}
          /\ Children(edit[j].to)' = {d \in CategoryIds : parent'[d] = t}
          /\ ProductsOf(edit[j].to)' = ProductsOf(edit[j].to)
      BY <1>2, <3>1 DEF Children, ProductsOf
    <3>4. parent'[t] \in {parent[t], Top, NoRow}
      BY <1>4, <3>2
    <3> QED
      BY <1>7, <3>1, <3>2, <3>3, <3>4
  <2> QED
    BY <1>1, <1>2, <2>1, <2>2, StillChecked
<1>11. HierarchyKept'
  <2> SUFFICES ASSUME NEW d \in Existing', d \notin scars
               PROVE  /\ parent'[d] # Top /\ parent'[d] \notin scars => parent'[parent'[d]] = Top
                      /\ ProductsOf(d)' # {} => Children(d)' = {}
    BY <1>2 DEF HierarchyKept
  <2>1. d \in CategoryIds
    BY DEF Existing
  <2>2. ProductsOf(d) # {} => d \in Existing
    BY <1>1, <1>5, <2>1 DEF ProductsOf, TreeTypeOK
  <2>3. ProductsOf(d) # {} => Children(d) = {}
    BY <1>1, <2>2 DEF HierarchyKept
  <2>4. ProductsOf(d)' = ProductsOf(d) /\ Children(d)' = {x \in CategoryIds : parent'[x] = d}
    BY <1>2 DEF ProductsOf, Children
  <2>5. ProductsOf(d)' # {} => Children(d)' = {}
    BY <1>7, <2>1, <2>3, <2>4
  <2>6. ASSUME d # c, parent[d] # Top, parent[d] \notin scars PROVE parent'[parent[d]] = Top
    <3>1. d \in Existing
      BY <1>6, <2>6
    <3>2. parent[d] \in CategoryIds /\ parent[parent[d]] = Top
      BY <1>1, <2>6, <3>1 DEF TreeTypeOK, HierarchyKept, Existing
    <3> QED
      BY <1>4, <3>2
  <2> QED
    BY <1>4, <2>1, <2>5, <2>6
<1> QED
  BY <1>8, <1>9, <1>10, <1>11 DEF TreeInv

\* An empty category goes; what was put under it in time becomes top-level.
LEMMA DeleteCategoryStep == ASSUME TreeInv, NEW k \in TreeCalls, DeleteCategory(k) PROVE TreeInv'
<1>1. TreeTypeOK /\ HierarchyKept /\ PlacedCalls /\ \A j \in TreeCalls : Checked(j)
  BY DEF TreeInv
<1>2. PICK c : c = edit[k].category
  OBVIOUS
<1>3. /\ c \in Existing /\ ProductsOf(c) = {}
      /\ parent' = [d \in CategoryIds |-> IF d = c THEN NoRow ELSE IF parent[d] = c THEN Top ELSE parent[d]]
      /\ edit' = [edit EXCEPT ![k] = Blank("done")] /\ home' = home /\ scars' = scars
  BY <1>2 DEF DeleteCategory, Ends
<1>4. parent \in [CategoryIds -> CategoryIds \cup {Top, NoRow}] /\ c \in CategoryIds
      /\ edit \in [TreeCalls -> EditRecords]
  BY <1>1, <1>3 DEF TreeTypeOK, Existing, EditRecords
<1>5. Top \notin CategoryIds /\ NoRow \notin CategoryIds /\ Top # NoRow
  BY CategoriesAssumption DEF Top, NoRow
<1>6. Existing' = Existing \ {c}
  BY <1>3, <1>5 DEF Existing
<1>7. ASSUME NEW d \in CategoryIds PROVE {x \in CategoryIds : parent'[x] = d} \subseteq Children(d)
  BY <1>3, <1>5 DEF Children
<1>8. edit' \in [TreeCalls -> EditRecords] /\ edit'[k] = Blank("done") /\ \A j \in TreeCalls \ {k} : edit'[j] = edit[j]
  BY <1>1, <1>3, <1>4, BlankEdit
<1>9. TreeTypeOK'
  <2>1. parent' \in [CategoryIds -> CategoryIds \cup {Top, NoRow}]
    BY <1>3, <1>4
  <2>2. \A d \in Existing' : parent'[d] \in Existing' \cup {Top}
    BY <1>1, <1>3, <1>6 DEF TreeTypeOK, Existing
  <2>3. \A q \in Products : home'[q] # NoRow => home'[q] \in Existing'
    BY <1>1, <1>3, <1>6 DEF TreeTypeOK, ProductsOf
  <2>4. home' \in [Products -> CategoryIds \cup {NoRow}] /\ scars' \subseteq CategoryIds
    BY <1>1, <1>3 DEF TreeTypeOK
  <2> QED
    BY <1>8, <2>1, <2>2, <2>3, <2>4 DEF TreeTypeOK, EditRecords
<1>10. ~Open(k)'
  BY <1>8 DEF Open, Blank
<1>11. PlacedCalls'
  BY <1>1, <1>8, <1>10 DEF PlacedCalls, Open
<1>12. ASSUME NEW j \in TreeCalls PROVE Checked(j)'
  <2>1. CASE j = k
    <3>1. edit'[j].step = "done"
      BY <1>8, <2>1 DEF Blank
    <3>2. ~Moves(j)' /\ edit'[j].step \notin {"create", "update"} /\ edit'[j].step \notin {"create product", "move product"}
      BY <3>1 DEF Moves
    <3> QED
      BY <3>2 DEF Checked
  <2>2. CASE j # k
    <3>1. Checked(j) /\ (Open(j) => edit[j].category \in CategoryIds /\ edit[j].to \in CategoryIds)
      BY <1>1 DEF PlacedCalls
    <3>2. edit'[j] = edit[j]
      BY <1>8, <2>2
    <3>3. ASSUME Open(j)
          PROVE  /\ parent'[edit[j].to] \in {parent[edit[j].to], Top, NoRow}
                 /\ ProductsOf(edit[j].to)' \subseteq ProductsOf(edit[j].to)
                 /\ Children(edit[j].category)' \subseteq Children(edit[j].category)
                 /\ Children(edit[j].to)' \subseteq Children(edit[j].to)
      <4>1. PICK e, t : e = edit[j].category /\ t = edit[j].to
        OBVIOUS
      <4>2. e \in CategoryIds /\ t \in CategoryIds
        BY <3>1, <3>3, <4>1
      <4>3. /\ Children(edit[j].category)' = {d \in CategoryIds : parent'[d] = e}
            /\ Children(edit[j].to)' = {d \in CategoryIds : parent'[d] = t}
            /\ ProductsOf(edit[j].to)' = ProductsOf(edit[j].to)
        BY <1>3, <3>2, <4>1 DEF Children, ProductsOf
      <4>4. parent'[t] \in {parent[t], Top, NoRow}
        BY <1>3, <4>2
      <4> QED
        BY <1>7, <4>1, <4>2, <4>3, <4>4
    <3> QED
      BY <1>1, <3>1, <3>2, <3>3, StillChecked
  <2> QED
    BY <2>1, <2>2
<1>13. HierarchyKept'
  <2> SUFFICES ASSUME NEW d \in Existing', d \notin scars
               PROVE  /\ parent'[d] # Top /\ parent'[d] \notin scars => parent'[parent'[d]] = Top
                      /\ ProductsOf(d)' # {} => Children(d)' = {}
    BY <1>3 DEF HierarchyKept
  <2>1. d \in CategoryIds /\ d \in Existing /\ d # c
    BY <1>6 DEF Existing
  <2>2. ProductsOf(d) # {} => Children(d) = {}
    BY <1>1, <2>1 DEF HierarchyKept
  <2>3. ProductsOf(d)' = ProductsOf(d) /\ Children(d)' = {x \in CategoryIds : parent'[x] = d}
    BY <1>3 DEF ProductsOf, Children
  <2>4. ProductsOf(d)' # {} => Children(d)' = {}
    BY <1>7, <2>1, <2>2, <2>3
  <2>5. ASSUME parent'[d] # Top, parent'[d] \notin scars PROVE parent'[parent'[d]] = Top
    <3>1. parent'[d] = parent[d] /\ parent[d] # c /\ parent[d] # Top
      BY <1>3, <2>1, <2>5
    <3>2. parent[d] \in CategoryIds /\ parent[parent[d]] = Top
      BY <1>1, <2>1, <2>5, <3>1 DEF TreeTypeOK, HierarchyKept, Existing
    <3> QED
      BY <1>3, <3>1, <3>2
  <2> QED
    BY <2>4, <2>5
<1> QED
  BY <1>9, <1>11, <1>12, <1>13 DEF TreeInv

\* A product goes to a category, by a call that looked there.
LEMMA FileProductStep == ASSUME TreeInv, NEW k \in TreeCalls, FileProduct(k) PROVE TreeInv'
<1>1. TreeTypeOK /\ HierarchyKept /\ PlacedCalls /\ \A j \in TreeCalls : Checked(j)
  BY DEF TreeInv
<1>2. PICK q, t, c : q = edit[k].product /\ t = edit[k].to /\ c = edit[k].category
  OBVIOUS
<1>3. /\ edit[k].step \in {"create product", "move product"}
      /\ t \in Existing
      /\ home' = [home EXCEPT ![q] = t]
      /\ Written(k)
      /\ parent' = parent
  BY <1>2 DEF FileProduct
<1>4. Open(k)
  BY <1>3 DEF Open
<1>5. t \in CategoryIds /\ q \in Products /\ home \in [Products -> CategoryIds \cup {NoRow}]
  BY <1>1, <1>2, <1>4 DEF PlacedCalls, TreeTypeOK
<1>6. home'[q] = t /\ \A x \in Products \ {q} : home'[x] = home[x]
  BY <1>3, <1>5
<1>7. /\ edit' \in [TreeCalls -> EditRecords]
      /\ edit'[k] = Blank("done")
      /\ \A j \in TreeCalls \ {k} :
           /\ edit'[j].step = edit[j].step /\ edit'[j].category = edit[j].category
           /\ edit'[j].to = edit[j].to
           /\ Open(j)' = Open(j)
           /\ edit[j].stale => edit'[j].stale
           /\ Open(j) /\ ~edit'[j].stale => edit[j].to # t
      /\ scars' = (IF edit[k].stale THEN scars \cup {c, t} ELSE scars)
      /\ scars' \subseteq CategoryIds
  BY <1>1, <1>2, <1>3, <1>4, WrittenMarks
<1>8. Existing' = Existing /\ \A d : Children(d)' = Children(d)
  BY <1>3 DEF Existing, Children
<1>9. \A d : d # t => {x \in Products : home'[x] = d} \subseteq ProductsOf(d)
  BY <1>6 DEF ProductsOf
<1>10. TreeTypeOK'
  <2>1. home' \in [Products -> CategoryIds \cup {NoRow}]
    BY <1>3, <1>5
  <2>2. \A x \in Products : home'[x] # NoRow => home'[x] \in Existing'
    BY <1>1, <1>3, <1>6, <1>8 DEF TreeTypeOK
  <2>3. parent' \in [CategoryIds -> CategoryIds \cup {Top, NoRow}] /\ \A d \in Existing' : parent'[d] \in Existing' \cup {Top}
    BY <1>1, <1>3, <1>8 DEF TreeTypeOK
  <2> QED
    BY <1>7, <2>1, <2>2, <2>3 DEF TreeTypeOK, EditRecords
<1>11. PlacedCalls'
  <2>1. ~Open(k)'
    BY <1>7 DEF Open, Blank
  <2> QED
    BY <1>1, <1>7, <2>1 DEF PlacedCalls
<1>12. ASSUME NEW j \in TreeCalls PROVE Checked(j)'
  <2>1. CASE j = k
    <3>1. edit'[j].step = "done"
      BY <1>7, <2>1 DEF Blank
    <3>2. ~Moves(j)' /\ edit'[j].step \notin {"create", "update"} /\ edit'[j].step \notin {"create product", "move product"}
      BY <3>1 DEF Moves
    <3> QED
      BY <3>2 DEF Checked
  <2>2. CASE j # k
    <3>1. Checked(j) /\ (Open(j) => edit[j].category \in CategoryIds /\ edit[j].to \in CategoryIds)
      BY <1>1 DEF PlacedCalls
    <3>2. ASSUME Open(j), ~edit'[j].stale
          PROVE  /\ parent'[edit[j].to] \in {parent[edit[j].to], Top, NoRow}
                 /\ ProductsOf(edit[j].to)' \subseteq ProductsOf(edit[j].to)
                 /\ Children(edit[j].category)' \subseteq Children(edit[j].category)
                 /\ Children(edit[j].to)' \subseteq Children(edit[j].to)
      <4>1. PICK e, s : e = edit[j].category /\ s = edit[j].to
        OBVIOUS
      <4>2. s # t /\ edit'[j].to = s /\ edit'[j].category = e
        BY <1>7, <2>2, <3>2, <4>1
      <4>3. /\ Children(edit[j].category)' = Children(e) /\ Children(edit[j].to)' = Children(s)
            /\ ProductsOf(edit[j].to)' = {x \in Products : home'[x] = s}
        BY <1>3, <4>2 DEF Children, ProductsOf
      <4>4. parent'[s] = parent[s]
        BY <1>3
      <4> QED
        BY <1>9, <4>1, <4>2, <4>3, <4>4
    <3> QED
      BY <1>1, <1>7, <2>2, <3>1, <3>2, StillChecked
  <2> QED
    BY <2>1, <2>2
<1>13. HierarchyKept'
  <2> SUFFICES ASSUME NEW d \in Existing, d \notin scars'
               PROVE  /\ parent'[d] # Top /\ parent'[d] \notin scars' => parent'[parent'[d]] = Top
                      /\ ProductsOf(d)' # {} => Children(d)' = {}
    BY <1>8 DEF HierarchyKept
  <2>1. scars \subseteq scars' /\ d \notin scars
    BY <1>7
  <2>2. parent'[d] # Top /\ parent'[d] \notin scars' => parent'[parent'[d]] = Top
    BY <1>1, <1>3, <2>1 DEF HierarchyKept
  <2>3. CASE d = t
    <3>1. ~edit[k].stale
      BY <1>7, <2>3
    <3>2. Children(t) = {}
      BY <1>1, <1>2, <1>3, <3>1 DEF Checked
    <3> QED
      BY <1>8, <2>2, <2>3, <3>2
  <2>4. CASE d # t
    <3>1. ProductsOf(d)' = {x \in Products : home'[x] = d}
      BY DEF ProductsOf
    <3>2. ProductsOf(d) # {} => Children(d) = {}
      BY <1>1, <2>1 DEF HierarchyKept
    <3> QED
      BY <1>8, <1>9, <2>2, <2>4, <3>1, <3>2
  <2> QED
    BY <2>3, <2>4
<1> QED
  BY <1>10, <1>11, <1>12, <1>13 DEF TreeInv

\* A product goes.
LEMMA RemoveProductStep == ASSUME TreeInv, NEW q \in Products, RemoveProduct(q) PROVE TreeInv'
<1>1. TreeTypeOK /\ HierarchyKept /\ PlacedCalls /\ \A j \in TreeCalls : Checked(j)
  BY DEF TreeInv
<1>2. home' = [home EXCEPT ![q] = NoRow] /\ parent' = parent /\ edit' = edit /\ scars' = scars
  BY DEF RemoveProduct
<1>3. home \in [Products -> CategoryIds \cup {NoRow}] /\ NoRow \notin CategoryIds
  BY <1>1, CategoriesAssumption DEF TreeTypeOK
<1>4. \A d \in CategoryIds : {x \in Products : home'[x] = d} \subseteq ProductsOf(d)
  BY <1>2, <1>3 DEF ProductsOf
<1>5. TreeTypeOK'
  BY <1>1, <1>2, <1>3 DEF TreeTypeOK, Existing
<1>6. PlacedCalls'
  BY <1>1, <1>2 DEF PlacedCalls, Open
<1>7. ASSUME NEW j \in TreeCalls PROVE Checked(j)'
  <2>1. Checked(j) /\ (Open(j) => edit[j].category \in CategoryIds /\ edit[j].to \in CategoryIds)
    BY <1>1 DEF PlacedCalls
  <2>2. ASSUME Open(j)
        PROVE  /\ parent'[edit[j].to] \in {parent[edit[j].to], Top, NoRow}
               /\ ProductsOf(edit[j].to)' \subseteq ProductsOf(edit[j].to)
               /\ Children(edit[j].category)' \subseteq Children(edit[j].category)
               /\ Children(edit[j].to)' \subseteq Children(edit[j].to)
    <3>1. PICK t : t = edit[j].to
      OBVIOUS
    <3>2. ProductsOf(edit[j].to)' = {x \in Products : home'[x] = t} /\ t \in CategoryIds
      BY <1>2, <2>1, <2>2, <3>1 DEF ProductsOf
    <3>3. Children(edit[j].category)' = Children(edit[j].category) /\ Children(edit[j].to)' = Children(edit[j].to)
      BY <1>2 DEF Children
    <3> QED
      BY <1>2, <1>4, <3>1, <3>2, <3>3
  <2> QED
    BY <1>1, <1>2, <2>1, <2>2, StillChecked
<1>8. HierarchyKept'
  <2> SUFFICES ASSUME NEW d \in Existing, d \notin scars
               PROVE  /\ parent[d] # Top /\ parent[d] \notin scars => parent[parent[d]] = Top
                      /\ ProductsOf(d)' # {} => Children(d) = {}
    BY <1>2 DEF HierarchyKept, Existing, Children
  <2>1. ProductsOf(d)' = {x \in Products : home'[x] = d} /\ d \in CategoryIds
    BY DEF ProductsOf, Existing
  <2> QED
    BY <1>1, <1>4, <2>1 DEF HierarchyKept
<1> QED
  BY <1>5, <1>6, <1>7, <1>8 DEF TreeInv

\* A call reads, or ends without a write.
LEMMA TreeReadStep ==
  ASSUME TreeInv, NEW k \in TreeCalls,
         \/ \E c, p \in CategoryIds : FindParent(k, c, p)
         \/ CountChildren(k)
         \/ \E c \in CategoryIds : FindEmpty(k, c)
         \/ \E c \in CategoryIds, p \in Products : FindLeaf(k, p, c)
         \/ TreeCallFails(k)
  PROVE  TreeInv'
<1>1. TreeTypeOK /\ PlacedCalls /\ Checked(k)
  BY DEF TreeInv
<1>2. edit[k] \in EditRecords
  BY <1>1 DEF TreeTypeOK, EditRecords
<1>3. NoRow \notin CategoryIds /\ Top \notin CategoryIds /\ Top # NoRow
  BY CategoriesAssumption DEF Top, NoRow
<1>4. ASSUME NEW c \in CategoryIds, NEW p \in CategoryIds, FindParent(k, c, p) PROVE TreeInv'
  <2>1. PICK r : r = [edit[k] EXCEPT !.step = IF c \in Existing THEN "count children" ELSE "create",
                                     !.category = c, !.to = p]
    OBVIOUS
  <2>2. r \in EditRecords /\ r.category = c /\ r.to = p /\ r.step = IF c \in Existing THEN "count children" ELSE "create"
    BY <1>2, <2>1 DEF EditRecords, EditSteps
  <2>3. edit' = [edit EXCEPT ![k] = r] /\ UNCHANGED <<treeRows, scars>>
        /\ p # c /\ parent[p] = Top /\ ProductsOf(p) = {}
    BY <2>1, <1>4 DEF FindParent, Receives
  <2>4. c \notin Existing => Children(c) = {}
    BY <1>1, <1>3 DEF Children, TreeTypeOK, Existing
  <2> QED
    BY <2>2, <2>3, <2>4, TreeCallMoves
<1>5. ASSUME CountChildren(k) PROVE TreeInv'
  <2>1. PICK r : r = [edit[k] EXCEPT !.step = "update"]
    OBVIOUS
  <2>2. /\ r \in EditRecords /\ r.category = edit[k].category /\ r.to = edit[k].to
        /\ r.step = "update" /\ r.stale = edit[k].stale
    BY <1>2, <2>1 DEF EditRecords, EditSteps
  <2>3. edit' = [edit EXCEPT ![k] = r] /\ UNCHANGED <<treeRows, scars>>
        /\ edit[k].step = "count children" /\ Children(edit[k].category) = {}
    BY <2>1, <1>5 DEF CountChildren
  <2>4. edit[k].category \in CategoryIds /\ edit[k].to \in CategoryIds
    BY <1>1, <2>3 DEF PlacedCalls, Open
  <2>5. ~edit[k].stale => /\ edit[k].category # edit[k].to /\ parent[edit[k].to] \in {Top, NoRow}
                          /\ ProductsOf(edit[k].to) = {}
    BY <1>1, <2>3 DEF Checked, Moves
  <2> QED
    BY <2>2, <2>3, <2>4, <2>5, TreeCallMoves
<1>6. ASSUME NEW c \in CategoryIds, FindEmpty(k, c) PROVE TreeInv'
  <2>1. PICK r : r = [edit[k] EXCEPT !.step = "delete", !.category = c, !.to = c]
    OBVIOUS
  <2>2. r \in EditRecords /\ r.category = c /\ r.to = c /\ r.step = "delete"
    BY <1>2, <2>1 DEF EditRecords, EditSteps
  <2>3. edit' = [edit EXCEPT ![k] = r] /\ UNCHANGED <<treeRows, scars>>
    BY <2>1, <1>6 DEF FindEmpty
  <2> QED
    BY <2>2, <2>3, TreeCallMoves
<1>7. ASSUME NEW c \in CategoryIds, NEW p \in Products, FindLeaf(k, p, c) PROVE TreeInv'
  <2>1. PICK r : r = [edit[k] EXCEPT !.step = IF home[p] = NoRow THEN "create product" ELSE "move product",
                                     !.product = p, !.category = c, !.to = c]
    OBVIOUS
  <2>2. r \in EditRecords /\ r.category = c /\ r.to = c /\ r.step \in {"create product", "move product"}
    BY <1>2, <2>1 DEF EditRecords, EditSteps
  <2>3. edit' = [edit EXCEPT ![k] = r] /\ UNCHANGED <<treeRows, scars>> /\ Children(c) = {}
    BY <2>1, <1>7 DEF FindLeaf
  <2> QED
    BY <2>2, <2>3, TreeCallMoves
<1>8. ASSUME TreeCallFails(k) PROVE TreeInv'
  <2>1. PICK r : r = Blank("done")
    OBVIOUS
  <2>2. r \in EditRecords /\ r.step = "done"
    BY <1>1, <2>1, BlankEdit DEF Blank
  <2>3. edit' = [edit EXCEPT ![k] = r] /\ UNCHANGED <<treeRows, scars>>
    BY <2>1, <1>8 DEF TreeCallFails, Ends
  <2> QED
    BY <2>2, <2>3, TreeCallMoves
<1> QED
  BY <1>4, <1>5, <1>6, <1>7, <1>8

\* No call had begun at the start.
LEMMA TreeBegins == TreeInit => TreeInv
<1> SUFFICES ASSUME TreeInit PROVE TreeInv
  OBVIOUS
<1>1. NoRow \notin CategoryIds /\ Top \notin CategoryIds /\ Top # NoRow
  BY CategoriesAssumption DEF Top, NoRow
<1>2. PICK a \in CategoryIds : parent = [c \in CategoryIds |-> IF c = a THEN Top ELSE NoRow]
  BY DEF TreeInit
<1>3. home = [p \in Products |-> NoRow] /\ edit = [k \in TreeCalls |-> Blank("idle")] /\ scars = {}
  BY DEF TreeInit
<1>4. Blank("idle") \in EditRecords
  BY CategoriesAssumption DEF Blank, EditRecords, EditSteps
<1>5. Existing = {a} /\ parent[a] = Top
  BY <1>1, <1>2 DEF Existing
<1>6. edit \in [TreeCalls -> EditRecords] /\ \A k \in TreeCalls : edit[k].step = "idle"
  BY <1>3, <1>4 DEF Blank
<1>7. TreeTypeOK
  BY <1>2, <1>3, <1>5, <1>6 DEF TreeTypeOK, EditRecords
<1>8. ProductsOf(a) = {}
  BY <1>1, <1>2, <1>3 DEF ProductsOf
<1>9. HierarchyKept
  BY <1>5, <1>8 DEF HierarchyKept
<1>10. PlacedCalls /\ \A k \in TreeCalls : Checked(k)
  BY <1>6 DEF PlacedCalls, Open, Checked, Moves
<1> QED
  BY <1>7, <1>9, <1>10 DEF TreeInv

\* Every step keeps the invariant.
LEMMA TreeStep == TreeInv /\ [TreeNext]_treeVars => TreeInv'
<1> SUFFICES ASSUME TreeInv, [TreeNext]_treeVars PROVE TreeInv'
  OBVIOUS
<1>1. CASE \E c \in CategoryIds : MakeTop(c)
  BY <1>1, MakeTopStep
<1>2. CASE \E p \in Products : RemoveProduct(p)
  BY <1>2, RemoveProductStep
<1>3. ASSUME NEW k \in TreeCalls,
             \/ \E c, p \in CategoryIds : FindParent(k, c, p)
             \/ \E c \in CategoryIds : FindEmpty(k, c) \/ \E p \in Products : FindLeaf(k, p, c)
             \/ CountChildren(k) \/ WriteParent(k) \/ DeleteCategory(k) \/ FileProduct(k) \/ TreeCallFails(k)
      PROVE  TreeInv'
  BY <1>3, TreeReadStep, WriteParentStep, DeleteCategoryStep, FileProductStep
<1>4. CASE UNCHANGED treeVars
  <2>1. parent' = parent /\ home' = home /\ edit' = edit /\ scars' = scars
    BY <1>4 DEF treeVars, treeRows
  <2>2. TreeTypeOK' = TreeTypeOK /\ PlacedCalls' = PlacedCalls
    BY <2>1 DEF TreeTypeOK, PlacedCalls, Open, Existing
  <2>3. HierarchyKept' = HierarchyKept
    BY <2>1 DEF HierarchyKept, Existing, Children, ProductsOf
  <2>4. \A j \in TreeCalls : Checked(j)' = Checked(j)
    BY <2>1 DEF Checked, Moves, Children, ProductsOf
  <2> QED
    BY <2>2, <2>3, <2>4 DEF TreeInv
<1> QED
  BY <1>1, <1>2, <1>3, <1>4 DEF TreeNext

\* The rows and the calls of the tree have their types.
THEOREM TreeTypeCorrect == TreeSpec => []TreeTypeOK
<1>1. TreeInv => TreeTypeOK
  BY DEF TreeInv
<1> QED
  BY <1>1, TreeBegins, TreeStep, PTL DEF TreeSpec

\* The rules of the tree, for any number of categories, products and calls:
\* two levels, and products in leaves, but where calls overlapped.
THEOREM HierarchyCorrect == TreeSpec => []HierarchyKept
<1>1. TreeInv => HierarchyKept
  BY DEF TreeInv
<1> QED
  BY <1>1, TreeBegins, TreeStep, PTL DEF TreeSpec

-----------------------------------------------------------------------------
(* RateLimit: what a fixed window lets through.                            *)

Admissions == [nr : Nat, time : Nat]
Span(A, from, to) == {a \in A : from <= a.time /\ a.time < to}

\* The next one of a key that let A through.
Admission(A, at) == [nr |-> Cardinality(A) + 1, time |-> at]

\* What is known of a key that let A through and has bucket b: its last window
\* began at s.
WindowAt(A, b, s, at) ==
  /\ s <= at
  /\ \A a \in A : a.time < s + Window
  /\ Cardinality(Span(A, s, s + Window)) <= Limit
  /\ Cardinality(Span(A, s - Window, s)) <= Limit
  /\ at < b.resetAt => /\ b.resetAt = s + Window
                       /\ Cardinality(Span(A, s, s + Window)) = IF b.count < Limit THEN b.count ELSE Limit
  /\ b.resetAt <= at => s + Window <= at

\* The invariant of one key: what it let through is numbered, no two windows
\* overlap, and no span as long as a window meets more than two of them.
KeyInv(A, b, at) ==
  /\ A \subseteq Admissions /\ IsFiniteSet(A)
  /\ \A a \in A : a.nr <= Cardinality(A) /\ a.time <= at
  /\ \E s \in Int : WindowAt(A, b, s, at)
  /\ \A from \in Int : Cardinality(Span(A, from, from + Window)) <= 2 * Limit

RateInv ==
  /\ RateTypeOK
  /\ admitted \in [Keys -> SUBSET Admissions]
  /\ \A k \in Keys : KeyInv(admitted[k], buckets[k], clock)
  /\ RefusedOnlyWhenFull

\* Spans of finite sets are finite, and counted by a natural number.
LEMMA SpanFinite ==
  ASSUME NEW A \in SUBSET Admissions, IsFiniteSet(A), NEW from, NEW to
  PROVE  IsFiniteSet(Span(A, from, to)) /\ Cardinality(Span(A, from, to)) \in Nat
<1>1. Span(A, from, to) \in SUBSET A
  BY DEF Span
<1> QED
  BY <1>1, FS_Subset, FS_CardinalityType

\* A longer span has as much in it, or more.
LEMMA SpanGrows ==
  ASSUME NEW A \in SUBSET Admissions, IsFiniteSet(A),
         NEW from, NEW to, NEW from2, NEW to2,
         \A a \in A : from <= a.time /\ a.time < to => from2 <= a.time /\ a.time < to2
  PROVE  Cardinality(Span(A, from, to)) <= Cardinality(Span(A, from2, to2))
<1>1. Span(A, from, to) \in SUBSET Span(A, from2, to2)
  BY DEF Span
<1> QED
  BY <1>1, SpanFinite, FS_Subset

\* A span cut in two.
LEMMA SpanSplits ==
  ASSUME NEW A \in SUBSET Admissions, IsFiniteSet(A),
         NEW from \in Int, NEW middle \in Int, NEW to \in Int
  PROVE  Cardinality(Span(A, from, to)) <= Cardinality(Span(A, from, middle)) + Cardinality(Span(A, middle, to))
<1>1. Span(A, from, to) \in SUBSET (Span(A, from, middle) \cup Span(A, middle, to))
  BY DEF Span, Admissions
<1>2. /\ IsFiniteSet(Span(A, from, middle)) /\ Cardinality(Span(A, from, middle)) \in Nat
      /\ IsFiniteSet(Span(A, middle, to)) /\ Cardinality(Span(A, middle, to)) \in Nat
      /\ Cardinality(Span(A, from, to)) \in Nat
  BY SpanFinite
<1>3. PICK U : U = Span(A, from, middle) \cup Span(A, middle, to)
  OBVIOUS
<1>4. PICK I : I = Span(A, from, middle) \cap Span(A, middle, to)
  OBVIOUS
<1>5. IsFiniteSet(U) /\ Cardinality(U) = Cardinality(Span(A, from, middle)) + Cardinality(Span(A, middle, to)) - Cardinality(I)
  BY <1>2, <1>3, <1>4, FS_Union
<1>6. Cardinality(I) \in Nat
  BY <1>2, <1>4, FS_Intersection, FS_CardinalityType
<1>7. Cardinality(U) \in Nat /\ Cardinality(Span(A, from, to)) <= Cardinality(U)
  BY <1>1, <1>3, <1>5, FS_Subset, FS_CardinalityType
<1> QED
  BY <1>2, <1>5, <1>6, <1>7

\* One more is let through.
LEMMA SpanAdds ==
  ASSUME NEW A \in SUBSET Admissions, IsFiniteSet(A), NEW e \in Admissions, e \notin A,
         NEW from \in Int, NEW to \in Int
  PROVE  Cardinality(Span(A \cup {e}, from, to)) =
           IF from <= e.time /\ e.time < to THEN Cardinality(Span(A, from, to)) + 1 ELSE Cardinality(Span(A, from, to))
<1>1. CASE from <= e.time /\ e.time < to
  <2>1. Span(A \cup {e}, from, to) = Span(A, from, to) \cup {e} /\ e \notin Span(A, from, to)
    BY <1>1 DEF Span
  <2> QED
    BY <1>1, <2>1, SpanFinite, FS_AddElement
<1>2. CASE ~(from <= e.time /\ e.time < to)
  <2>1. Span(A \cup {e}, from, to) = Span(A, from, to)
    BY <1>2 DEF Span
  <2> QED
    BY <1>2, <2>1
<1> QED
  BY <1>1, <1>2

\* Time passes, and a bucket whose window is over may be swept.
LEMMA KeyKept ==
  ASSUME NEW A, NEW b \in [count : Nat, resetAt : Nat], NEW c \in [count : Nat, resetAt : Nat],
         NEW at \in Nat, NEW later \in Nat, at <= later, KeyInv(A, b, at),
         c = b \/ (b.resetAt <= at /\ c.resetAt <= at)
  PROVE  KeyInv(A, c, later)
<1>1. PICK s \in Int : WindowAt(A, b, s, at)
  BY DEF KeyInv
<1>2. A \subseteq Admissions /\ IsFiniteSet(A) /\ \A a \in A : a.nr <= Cardinality(A) /\ a.time <= later
  BY DEF KeyInv, Admissions
<1>3. WindowAt(A, c, s, later)
  <2>1. later < c.resetAt => c = b /\ at < b.resetAt
    OBVIOUS
  <2>2. c.resetAt <= later => s + Window <= later
    BY <1>1, RateAssumption DEF WindowAt
  <2> QED
    BY <1>1, <2>1, <2>2 DEF WindowAt
<1> QED
  BY <1>2, <1>3 DEF KeyInv

\* A request over the limit finds it let through within the window before it.
LEMMA KeyRefuses ==
  ASSUME NEW A, NEW b \in [count : Nat, resetAt : Nat], NEW c \in [count : Nat, resetAt : Nat],
         NEW at \in Nat, KeyInv(A, b, at), at < b.resetAt, c.resetAt = b.resetAt,
         b.count >= Limit, c.count >= Limit
  PROVE  KeyInv(A, c, at) /\ Cardinality(Span(A, at - Window + 1, at + 1)) >= Limit
<1> USE RateAssumption
<1>1. PICK s \in Int : WindowAt(A, b, s, at)
  BY DEF KeyInv
<1>2. A \in SUBSET Admissions /\ IsFiniteSet(A) /\ \A a \in A : a.nr <= Cardinality(A) /\ a.time <= at
  BY DEF KeyInv
<1>3. b.resetAt = s + Window /\ Cardinality(Span(A, s, s + Window)) = Limit
  BY <1>1 DEF WindowAt
<1>4. WindowAt(A, c, s, at)
  BY <1>1, <1>3 DEF WindowAt
<1>5. \A a \in A : s <= a.time /\ a.time < s + Window => at - Window + 1 <= a.time /\ a.time < at + 1
  BY <1>2, <1>3 DEF Admissions
<1>6. Cardinality(Span(A, s, s + Window)) <= Cardinality(Span(A, at - Window + 1, at + 1))
  BY <1>2, <1>5, SpanGrows
<1>7. Cardinality(Span(A, at - Window + 1, at + 1)) \in Nat
  BY <1>2, SpanFinite
<1> QED
  BY <1>2, <1>3, <1>4, <1>6, <1>7 DEF KeyInv

\* A request that is let through: its number is new.
LEMMA NumberIsNew ==
  ASSUME NEW A, NEW b, NEW at \in Nat, KeyInv(A, b, at), NEW e, e = Admission(A, at)
  PROVE  /\ A \in SUBSET Admissions /\ IsFiniteSet(A) /\ e \in Admissions /\ e \notin A
         /\ A \cup {e} \in SUBSET Admissions /\ IsFiniteSet(A \cup {e})
         /\ \A a \in A \cup {e} : a.nr <= Cardinality(A \cup {e}) /\ a.time <= at
<1>1. A \in SUBSET Admissions /\ IsFiniteSet(A) /\ Cardinality(A) \in Nat
  BY FS_CardinalityType DEF KeyInv
<1>2. e \in Admissions /\ e.nr = Cardinality(A) + 1 /\ e.time = at
  BY <1>1 DEF Admissions, Admission
<1>3. e \notin A
  BY <1>1, <1>2 DEF KeyInv, Admissions
<1>4. IsFiniteSet(A \cup {e}) /\ Cardinality(A \cup {e}) = Cardinality(A) + 1
  BY <1>1, <1>3, FS_AddElement
<1>5. \A a \in A \cup {e} : a.nr <= Cardinality(A) + 1 /\ a.time <= at
  <2>1. \A a \in A : a.nr \in Nat /\ a.nr <= Cardinality(A) /\ a.time <= at
    BY <1>1 DEF KeyInv, Admissions
  <2> QED
    BY <1>1, <1>2, <2>1
<1> QED
  BY <1>1, <1>2, <1>3, <1>4, <1>5

\* If what was let through since s and in the window's length before s are
\* within the limit, no span with a request at the present time has more than two limits.
LEMMA TwoWindows ==
  ASSUME NEW A \in SUBSET Admissions, IsFiniteSet(A), NEW s \in Int, NEW at \in Nat, s <= at,
         \A a \in A : a.time < s + Window,
         Cardinality(Span(A, s, s + Window)) <= Limit, Cardinality(Span(A, s - Window, s)) <= Limit,
         NEW from \in Int, from <= at, at < from + Window
  PROVE  Cardinality(Span(A, from, from + Window)) <= 2 * Limit
<1> USE RateAssumption
<1>1. /\ Cardinality(Span(A, from, from + Window)) \in Nat /\ Cardinality(Span(A, from, s)) \in Nat
      /\ Cardinality(Span(A, s, from + Window)) \in Nat /\ Cardinality(Span(A, s, s + Window)) \in Nat
      /\ Cardinality(Span(A, s - Window, s)) \in Nat
  BY SpanFinite
<1>2. Cardinality(Span(A, from, from + Window)) <= Cardinality(Span(A, from, s)) + Cardinality(Span(A, s, from + Window))
  BY SpanSplits
<1>3. Cardinality(Span(A, s, from + Window)) <= Cardinality(Span(A, s, s + Window))
  BY SpanGrows
<1>4. Cardinality(Span(A, from, s)) <= Cardinality(Span(A, s - Window, s))
  <2>1. \A a \in A : from <= a.time /\ a.time < s => s - Window <= a.time /\ a.time < s
    BY DEF Admissions
  <2> QED
    BY <2>1, SpanGrows
<1> QED
  BY <1>1, <1>2, <1>3, <1>4

\* Whatever lets one more through, within its window, keeps the bound.
LEMMA KeyCounts ==
  ASSUME NEW A, NEW b, NEW at \in Nat, KeyInv(A, b, at),
         NEW e, e = Admission(A, at),
         NEW c \in [count : Nat, resetAt : Nat], NEW s \in Int, s <= at, at < s + Window,
         c.resetAt = s + Window, c.count <= Limit, \A a \in A : a.time < s + Window,
         Cardinality(Span(A, s, s + Window)) + 1 = c.count, Cardinality(Span(A, s - Window, s)) <= Limit
  PROVE  KeyInv(A \cup {e}, c, at)
<1> USE RateAssumption
<1>1. PICK B : B = A \cup {e}
  OBVIOUS
<1>2. /\ A \in SUBSET Admissions /\ IsFiniteSet(A) /\ e \in Admissions /\ e \notin A
      /\ B \in SUBSET Admissions /\ IsFiniteSet(B)
      /\ \A a \in B : a.nr <= Cardinality(B) /\ a.time <= at
  <2>1. /\ A \in SUBSET Admissions /\ IsFiniteSet(A) /\ e \in Admissions /\ e \notin A
        /\ A \cup {e} \in SUBSET Admissions /\ IsFiniteSet(A \cup {e})
        /\ \A a \in A \cup {e} : a.nr <= Cardinality(A \cup {e}) /\ a.time <= at
    BY NumberIsNew
  <2> QED
    BY <1>1, <2>1
<1>3. e.time = at
  BY DEF Admission
<1>4. ASSUME NEW f \in Int, NEW t \in Int
      PROVE  Cardinality(Span(B, f, t)) = IF f <= at /\ at < t THEN Cardinality(Span(A, f, t)) + 1 ELSE Cardinality(Span(A, f, t))
  <2>1. Cardinality(Span(A \cup {e}, f, t)) =
          IF f <= e.time /\ e.time < t THEN Cardinality(Span(A, f, t)) + 1 ELSE Cardinality(Span(A, f, t))
    BY <1>2, SpanAdds
  <2> QED
    BY <1>1, <1>3, <2>1
<1>5. \A a \in B : a.time < s + Window
  BY <1>1, <1>3
<1>6. Cardinality(Span(B, s, s + Window)) = c.count
  BY <1>4
<1>7. Cardinality(Span(B, s - Window, s)) <= Limit
  BY <1>4
<1>8. WindowAt(B, c, s, at)
  BY <1>5, <1>6, <1>7 DEF WindowAt
<1>9. ASSUME NEW from \in Int PROVE Cardinality(Span(B, from, from + Window)) <= 2 * Limit
  <2>1. CASE from <= at /\ at < from + Window
    BY <2>1, <1>2, <1>5, <1>6, <1>7, TwoWindows
  <2>2. CASE ~(from <= at /\ at < from + Window)
    <3>1. Cardinality(Span(B, from, from + Window)) = Cardinality(Span(A, from, from + Window))
      BY <2>2, <1>4
    <3> QED
      BY <3>1 DEF KeyInv
  <2> QED
    BY <2>1, <2>2
<1>10. KeyInv(B, c, at)
  BY <1>2, <1>8, <1>9 DEF KeyInv
<1> QED
  BY <1>1, <1>10

\* A request that finds its window still open.
LEMMA KeyAdmits ==
  ASSUME NEW A, NEW b \in [count : Nat, resetAt : Nat], NEW at \in Nat, KeyInv(A, b, at), at < b.resetAt,
         NEW e, e = Admission(A, at),
         NEW c \in [count : Nat, resetAt : Nat], c.resetAt = b.resetAt, c.count = b.count + 1, c.count <= Limit
  PROVE  KeyInv(A \cup {e}, c, at)
<1> USE RateAssumption
<1>1. PICK s \in Int : WindowAt(A, b, s, at)
  BY DEF KeyInv
<1>2. b.resetAt = s + Window /\ Cardinality(Span(A, s, s + Window)) = b.count
  BY <1>1 DEF WindowAt
<1> QED
  BY <1>1, <1>2, KeyCounts DEF WindowAt

\* A request that opens a window.
LEMMA KeyOpens ==
  ASSUME NEW A, NEW b \in [count : Nat, resetAt : Nat], NEW at \in Nat, KeyInv(A, b, at), b.resetAt <= at,
         NEW e, e = Admission(A, at)
  PROVE  KeyInv(A \cup {e}, [count |-> 1, resetAt |-> at + Window], at)
<1> USE RateAssumption
<1>1. PICK s \in Int : WindowAt(A, b, s, at)
  BY DEF KeyInv
<1>2. s + Window <= at /\ A \in SUBSET Admissions /\ IsFiniteSet(A)
  BY <1>1 DEF WindowAt, KeyInv
<1>3. \A a \in A : a.time < at
  BY <1>1, <1>2 DEF WindowAt, Admissions
<1>4. Span(A, at, at + Window) = {}
  BY <1>2, <1>3 DEF Span, Admissions
<1>5. Cardinality(Span(A, at, at + Window)) = 0
  BY <1>4, FS_EmptySet
<1>6. Cardinality(Span(A, at - Window, at)) <= Cardinality(Span(A, s, s + Window))
  <2>1. \A a \in A : at - Window <= a.time /\ a.time < at => s <= a.time /\ a.time < s + Window
    BY <1>1, <1>2 DEF WindowAt, Admissions
  <2> QED
    BY <1>2, <2>1, SpanGrows
<1>7. Cardinality(Span(A, at - Window, at)) <= Limit
  BY <1>1, <1>2, <1>6, SpanFinite DEF WindowAt
<1>8. PICK c : c = [count |-> 1, resetAt |-> at + Window]
  OBVIOUS
<1>9. c \in [count : Nat, resetAt : Nat] /\ c.count = 1 /\ c.resetAt = at + Window
  BY <1>8
<1>10. KeyInv(A \cup {e}, c, at)
  BY <1>2, <1>3, <1>5, <1>7, <1>9, KeyCounts DEF Admissions
<1> QED
  BY <1>8, <1>10

\* Nothing was let through at the start.
LEMMA RateBegins == RateInit => RateInv
<1> SUFFICES ASSUME RateInit PROVE RateInv
  OBVIOUS
<1> USE RateAssumption
<1>1. /\ clock = SweepEvery /\ clock \in Nat /\ lastSweep \in Nat /\ refused = {}
      /\ buckets = [k \in Keys |-> NoBucket] /\ admitted = [k \in Keys |-> {}]
  BY DEF RateInit
<1>2. NoBucket \in [count : Nat, resetAt : Nat] /\ NoBucket.resetAt = 0
  BY DEF NoBucket
<1>3. \A from, to \in Int : Cardinality(Span({}, from, to)) = 0
  <2>1. \A from, to \in Int : Span({}, from, to) = {}
    BY DEF Span
  <2> QED
    BY <2>1, FS_EmptySet
<1>4. WindowAt({}, NoBucket, clock - Window, clock)
  BY <1>1, <1>2, <1>3 DEF WindowAt
<1>5. KeyInv({}, NoBucket, clock)
  BY <1>1, <1>3, <1>4, FS_EmptySet DEF KeyInv
<1>6. \A k \in Keys : KeyInv(admitted[k], buckets[k], clock)
  BY <1>1, <1>5
<1>7. RateTypeOK
  BY <1>1, <1>2 DEF RateTypeOK
<1> QED
  BY <1>1, <1>6, <1>7 DEF RateInv, RefusedOnlyWhenFull

\* The bucket of a request's key after it, from the bucket before it.
LEMMA BucketCounted ==
  ASSUME RateInv, NEW k \in Keys
  PROVE  /\ BucketsSwept \in [Keys -> [count : Nat, resetAt : Nat]]
         /\ \A j \in Keys : BucketsSwept[j] = buckets[j] \/ (buckets[j].resetAt <= clock /\ BucketsSwept[j].resetAt <= clock)
         /\ Counted(k) \in [count : Nat, resetAt : Nat]
         /\ buckets[k].resetAt <= clock => Counted(k) = [count |-> 1, resetAt |-> clock + Window]
         /\ clock < buckets[k].resetAt => /\ Counted(k).resetAt = buckets[k].resetAt
                                          /\ Counted(k).count = IF buckets[k].count > Limit THEN buckets[k].count ELSE buckets[k].count + 1
<1> USE RateAssumption
<1>1. clock \in Nat /\ buckets \in [Keys -> [count : Nat, resetAt : Nat]]
  BY DEF RateInv, RateTypeOK
<1>2. NoBucket \in [count : Nat, resetAt : Nat] /\ NoBucket.resetAt = 0
  BY DEF NoBucket
<1>3. ASSUME NEW j \in Keys
      PROVE  BucketsSwept[j] = buckets[j] \/ (BucketsSwept[j] = NoBucket /\ buckets[j].resetAt <= clock)
  BY DEF BucketsSwept, Swept
<1>4. BucketsSwept \in [Keys -> [count : Nat, resetAt : Nat]]
  BY <1>1, <1>2, <1>3 DEF BucketsSwept
<1>5. \A j \in Keys : BucketsSwept[j] = buckets[j] \/ (buckets[j].resetAt <= clock /\ BucketsSwept[j].resetAt <= clock)
  BY <1>1, <1>2, <1>3
<1>6. PICK b : b = BucketsSwept[k]
  OBVIOUS
<1>7. b \in [count : Nat, resetAt : Nat]
  BY <1>4, <1>6
<1>8. Counted(k) = IF b.resetAt <= clock THEN [count |-> 1, resetAt |-> clock + Window]
                   ELSE [b EXCEPT !.count = IF @ > Limit THEN @ ELSE @ + 1]
  BY <1>6 DEF Counted, WindowOver
<1>9. CASE b.resetAt <= clock
  <2>1. Counted(k) = [count |-> 1, resetAt |-> clock + Window]
    BY <1>8, <1>9
  <2>2. Counted(k) \in [count : Nat, resetAt : Nat]
    BY <1>1, <2>1
  <2>3. ~ (clock < buckets[k].resetAt)
    BY <1>1, <1>5, <1>6, <1>7, <1>9
  <2> QED
    BY <1>4, <1>5, <2>1, <2>2, <2>3
<1>10. CASE ~ (b.resetAt <= clock)
  <2>1. b = buckets[k]
    BY <1>1, <1>5, <1>6, <1>10
  <2>2. Counted(k) = [b EXCEPT !.count = IF b.count > Limit THEN b.count ELSE b.count + 1]
    BY <1>8, <1>10
  <2>3. Counted(k) \in [count : Nat, resetAt : Nat] /\ Counted(k).resetAt = b.resetAt
        /\ Counted(k).count = IF b.count > Limit THEN b.count ELSE b.count + 1
    BY <1>7, <2>2
  <2> QED
    BY <1>1, <1>4, <1>5, <1>10, <2>1, <2>3
<1> QED
  BY <1>9, <1>10

\* A request keeps the invariant: it is refused, opens a window or is counted in one.
LEMMA RequestStep == ASSUME RateInv, NEW k \in Keys, Request(k) PROVE RateInv'
<1> USE RateAssumption
<1>1. /\ clock \in Nat /\ clock' = clock /\ buckets \in [Keys -> [count : Nat, resetAt : Nat]]
      /\ admitted \in [Keys -> SUBSET Admissions] /\ lastSweep' \in {clock, lastSweep} /\ lastSweep \in Nat
      /\ \A j \in Keys : KeyInv(admitted[j], buckets[j], clock)
  BY DEF RateInv, RateTypeOK, Request
<1>2. PICK c : c = Counted(k)
  OBVIOUS
<1>3. /\ c \in [count : Nat, resetAt : Nat]
      /\ buckets[k].resetAt <= clock => c = [count |-> 1, resetAt |-> clock + Window]
      /\ clock < buckets[k].resetAt => /\ c.resetAt = buckets[k].resetAt
                                       /\ c.count = IF buckets[k].count > Limit THEN buckets[k].count ELSE buckets[k].count + 1
  BY <1>2, BucketCounted
<1>4. buckets' = [BucketsSwept EXCEPT ![k] = c]
  BY <1>2 DEF Request
<1>5. buckets' \in [Keys -> [count : Nat, resetAt : Nat]] /\ buckets'[k] = c
      /\ \A j \in Keys \ {k} : buckets'[j] = BucketsSwept[j]
  BY <1>3, <1>4, BucketCounted
<1>6. ASSUME NEW j \in Keys \ {k}, admitted'[j] = admitted[j] PROVE KeyInv(admitted'[j], buckets'[j], clock')
  <2>1. KeyInv(admitted[j], BucketsSwept[j], clock)
    BY <1>1, BucketCounted, KeyKept
  <2> QED
    BY <1>1, <1>5, <1>6, <2>1
<1>7. CASE c.count > Limit /\ refused' = {k} /\ admitted' = admitted
  <2>1. clock < buckets[k].resetAt
    BY <1>1, <1>3, <1>7
  <2>2. buckets[k].count >= Limit
    BY <1>1, <1>3, <1>7, <2>1
  <2>3. KeyInv(admitted[k], c, clock) /\ Cardinality(Span(admitted[k], clock - Window + 1, clock + 1)) >= Limit
    BY <1>1, <1>3, <1>7, <2>1, <2>2, KeyRefuses
  <2>4. \A j \in Keys : KeyInv(admitted'[j], buckets'[j], clock')
    BY <1>1, <1>5, <1>6, <1>7, <2>3
  <2>5. RefusedOnlyWhenFull'
    BY <1>1, <1>7, <2>3 DEF RefusedOnlyWhenFull, AdmittedIn, Span
  <2>6. RateTypeOK'
    BY <1>1, <1>5, <1>7 DEF RateTypeOK, RateInv
  <2> QED
    BY <1>1, <1>7, <2>4, <2>5, <2>6 DEF RateInv
<1>8. CASE c.count <= Limit /\ refused' = {}
           /\ admitted' = [admitted EXCEPT ![k] = @ \cup {[nr |-> Cardinality(@) + 1, time |-> clock]}]
  <2>1. PICK e : e = Admission(admitted[k], clock)
    OBVIOUS
  <2>2. admitted' = [admitted EXCEPT ![k] = admitted[k] \cup {e}]
        /\ admitted'[k] = admitted[k] \cup {e} /\ \A j \in Keys \ {k} : admitted'[j] = admitted[j]
    BY <1>1, <1>8, <2>1 DEF Admission
  <2>3. KeyInv(admitted[k] \cup {e}, c, clock)
    <3>1. CASE buckets[k].resetAt <= clock
      BY <1>1, <1>3, <2>1, <3>1, KeyOpens
    <3>2. CASE clock < buckets[k].resetAt
      <4>1. c.count = buckets[k].count + 1
        BY <1>1, <1>3, <1>8, <3>2
      <4> QED
        BY <1>1, <1>3, <1>8, <2>1, <3>2, <4>1, KeyAdmits
    <3> QED
      BY <1>1, <3>1, <3>2
  <2>4. \A j \in Keys : KeyInv(admitted'[j], buckets'[j], clock')
    BY <1>1, <1>5, <1>6, <2>2, <2>3
  <2>5. admitted' \in [Keys -> SUBSET Admissions]
    <3>1. admitted[k] \cup {e} \in SUBSET Admissions
      BY <2>3 DEF KeyInv
    <3> QED
      BY <1>1, <2>2, <3>1
  <2>6. RateTypeOK'
    BY <1>1, <1>5, <1>8, <2>5 DEF RateTypeOK, Admissions
  <2>7. RefusedOnlyWhenFull'
    BY <1>8 DEF RefusedOnlyWhenFull
  <2> QED
    BY <2>4, <2>5, <2>6, <2>7 DEF RateInv
<1> QED
  BY <1>2, <1>7, <1>8 DEF Request

\* So does every step.
LEMMA RateStep == RateInv /\ [RateNext]_rateVars => RateInv'
<1> SUFFICES ASSUME RateInv, [RateNext]_rateVars PROVE RateInv'
  OBVIOUS
<1>1. CASE Tick
  <2>1. /\ clock \in Nat /\ clock' = clock + 1 /\ UNCHANGED <<buckets, lastSweep, admitted>> /\ refused' = {}
        /\ buckets \in [Keys -> [count : Nat, resetAt : Nat]]
    BY <1>1 DEF Tick, RateInv, RateTypeOK
  <2>2. ASSUME NEW j \in Keys PROVE KeyInv(admitted'[j], buckets'[j], clock')
    <3>1. KeyInv(admitted[j], buckets[j], clock + 1)
      BY <2>1, KeyKept DEF RateInv
    <3> QED
      BY <2>1, <3>1
  <2>3. RateTypeOK'
    BY <2>1 DEF RateInv, RateTypeOK
  <2> QED
    BY <2>1, <2>2, <2>3 DEF RateInv, RefusedOnlyWhenFull
<1>2. CASE UNCHANGED rateVars
  BY <1>2 DEF rateVars, RateInv, RateTypeOK, RefusedOnlyWhenFull, AdmittedIn
<1> QED
  BY <1>1, <1>2, RequestStep DEF RateNext

\* The buckets and times have their types, for any keys, limit and window.
THEOREM RateTypeCorrect == RateSpec => []RateTypeOK
<1>1. RateInv => RateTypeOK
  BY DEF RateInv
<1> QED
  BY <1>1, RateBegins, RateStep, PTL DEF RateSpec

\* What a fixed window can promise, for any keys, limit, window and interval
\* of the sweep: at most two limits in any span as long as a window, and no
\* refusal before the limit was let through.
THEOREM RateKeptCorrect == RateSpec => []RateKept
<1>1. RateInv => RateKept
  <2> SUFFICES ASSUME RateInv PROVE TwoWindowsBound
    BY DEF RateKept, RateInv
  <2>1. ASSUME NEW k \in Keys, NEW from \in 0 .. MaxClock PROVE AdmittedIn(k, from, from + Window) <= 2 * Limit
    <3>1. Cardinality(Span(admitted[k], from, from + Window)) <= 2 * Limit
      BY RateAssumption DEF RateInv, KeyInv
    <3> QED
      BY <3>1 DEF AdmittedIn, Span
  <2> QED
    BY <2>1 DEF TwoWindowsBound
<1> QED
  BY <1>1, RateBegins, RateStep, PTL DEF RateSpec
=============================================================================
