----------------------------- MODULE StockAlerts -----------------------------
(***************************************************************************)
(* The low-stock and sold-out alerts of one variant.                       *)
(*   apps/server/src/inventory/stock-alerts.service.ts                     *)
(*                                                                         *)
(* Every committed change of stock starts a call of                        *)
(* notifyAfterStockChange that nobody waits for. It reads the row without  *)
(* a lock, then claims or clears the markers of the row in statements of   *)
(* their own, and sends a mail after a claim that matched the row. The     *)
(* variants of one call share no row: each is followed on its own.         *)
(***************************************************************************)
EXTENDS Integers, FiniteSets

CONSTANTS
  AlertCalls,  \* the changes of stock, each with its call
  Threshold,   \* lowStockThreshold
  MaxLeft      \* bound: stockQuantity

ASSUME AlertsAssumption == Threshold \in Nat /\ MaxLeft \in Nat /\ IsFiniteSet(AlertCalls)

VARIABLES
  left,         \* stockQuantity
  tracked,      \* trackInventory
  lowMark,      \* 1 if lowStockNotifiedAt is set, 0 if it is null
  soldMark,     \* and soldOutNotifiedAt
  doing,        \* per call: what it does next
  lowMails,     \* history: mails admin-low-stock handed over, or lost after the claim
  soldMails,    \* history: mails admin-sold-out
  lowCleared,   \* history: how often the low marker was cleared
  soldCleared,  \* history: how often the sold-out marker was cleared
  alone         \* history: the last change found no call running, and its call
                \*   ran to its end before the next one

alertRow == <<left, tracked>>
alertMarks == <<lowMark, soldMark>>
alertHistory == <<lowMails, soldMails, lowCleared, soldCleared, alone>>
alertsVars == <<alertRow, alertMarks, doing, alertHistory>>

LowNow == tracked /\ left <= Threshold

\* The variant as earlier calls may have left it.
AlertsInit ==
  /\ left \in 0 .. MaxLeft
  /\ tracked \in BOOLEAN
  /\ lowMark \in {0, 1}
  /\ soldMark \in 0 .. lowMark
  /\ doing = [k \in AlertCalls |-> "idle"]
  /\ lowMails = lowMark
  /\ soldMails = soldMark
  /\ lowCleared = 0
  /\ soldCleared = 0
  /\ alone = FALSE

AlertsAtRest == \A k \in AlertCalls : doing[k] \in {"idle", "done"}

Turn(k, step) == doing' = [doing EXCEPT ![k] = step]

\* A checkout, a release, or an edit of the variant commits, and starts
\* notifyAfterStockChange.
ChangeStock(k, n, t) ==
  /\ doing[k] = "idle"
  /\ left' = n
  /\ tracked' = t
  /\ Turn(k, "read")
  /\ alone' = AlertsAtRest
  /\ UNCHANGED <<alertMarks, lowMails, soldMails, lowCleared, soldCleared>>

\* findMany, and the way handle takes for the row read. Nothing else of that
\* row is used later.
ReadRow(k) ==
  /\ doing[k] = "read"
  /\ \/ ~LowNow /\ lowMark + soldMark > 0 /\ Turn(k, "clear")
     \/ ~LowNow /\ lowMark + soldMark = 0 /\ Turn(k, "done")
     \/ LowNow /\ left <= 0 /\ Turn(k, "claim sold out")
     \/ LowNow /\ left > 0 /\ soldMark = 1 /\ Turn(k, "clear sold out")
     \/ LowNow /\ left > 0 /\ soldMark = 0 /\ Turn(k, "claim low")
  /\ UNCHANGED <<alertRow, alertMarks, alertHistory>>

\* Not low any more: both markers go.
ClearMarks(k) ==
  /\ doing[k] = "clear"
  /\ lowMark' = 0
  /\ soldMark' = 0
  /\ lowCleared' = lowCleared + lowMark
  /\ soldCleared' = soldCleared + soldMark
  /\ Turn(k, "done")
  /\ UNCHANGED <<alertRow, lowMails, soldMails, alone>>

\* Variant for the checks: the claim matches whatever the marker says.
FreeAlways(mark) == TRUE
\* where: { soldOutNotifiedAt: null }, where: { lowStockNotifiedAt: null }
Free(mark) == mark = 0
\* data: { lowStockNotifiedAt: v.lowStockNotifiedAt ?? now }
LowMarkSet == 1

ClaimSoldOut(k) ==
  /\ doing[k] = "claim sold out"
  /\ \/ Free(soldMark) /\ soldMark' = 1 /\ lowMark' = LowMarkSet /\ Turn(k, "mail sold out")
     \/ ~Free(soldMark) /\ UNCHANGED alertMarks /\ Turn(k, "done")
  /\ UNCHANGED <<alertRow, alertHistory>>

\* Variant for the checks: the sold-out marker stays.
SoldMarkKept == soldMark
\* Back above zero but still low.
SoldMarkCleared == 0

ClearSoldOut(k) ==
  /\ doing[k] = "clear sold out"
  /\ soldMark' = SoldMarkCleared
  /\ soldCleared' = soldCleared + soldMark
  /\ Turn(k, "claim low")
  /\ UNCHANGED <<alertRow, lowMark, lowMails, soldMails, lowCleared, alone>>

ClaimLow(k) ==
  /\ doing[k] = "claim low"
  /\ \/ Free(lowMark) /\ lowMark' = 1 /\ Turn(k, "mail low")
     \/ ~Free(lowMark) /\ UNCHANGED lowMark /\ Turn(k, "done")
  /\ UNCHANGED <<alertRow, soldMark, alertHistory>>

MailSoldOut(k) ==
  /\ doing[k] = "mail sold out"
  /\ soldMails' = soldMails + 1
  /\ Turn(k, "done")
  /\ UNCHANGED <<alertRow, alertMarks, lowMails, lowCleared, soldCleared, alone>>

MailLow(k) ==
  /\ doing[k] = "mail low"
  /\ lowMails' = lowMails + 1
  /\ Turn(k, "done")
  /\ UNCHANGED <<alertRow, alertMarks, soldMails, lowCleared, soldCleared, alone>>

\* A statement fails, or the process dies: the call ends where it is.
AlertFails(k) ==
  /\ doing[k] \notin {"idle", "done"}
  /\ Turn(k, "done")
  /\ alone' = FALSE
  /\ UNCHANGED <<alertRow, alertMarks, lowMails, soldMails, lowCleared, soldCleared>>

AlertsNext ==
  \E k \in AlertCalls :
    \/ \E n \in 0 .. MaxLeft, t \in BOOLEAN : ChangeStock(k, n, t)
    \/ ReadRow(k) \/ ClearMarks(k) \/ ClaimSoldOut(k) \/ ClearSoldOut(k) \/ ClaimLow(k)
    \/ MailSoldOut(k) \/ MailLow(k) \/ AlertFails(k)

AlertsSpec == AlertsInit /\ [][AlertsNext]_alertsVars

-----------------------------------------------------------------------------

\* Types: the row, the markers and the calls.
AlertsTypeOK ==
  /\ left \in Nat
  /\ tracked \in BOOLEAN /\ alone \in BOOLEAN
  /\ lowMark \in {0, 1} /\ soldMark \in {0, 1}
  /\ doing \in [AlertCalls -> {"idle", "read", "clear", "claim sold out", "clear sold out",
                               "claim low", "mail sold out", "mail low", "done"}]
  /\ lowMails \in Nat /\ soldMails \in Nat /\ lowCleared \in Nat /\ soldCleared \in Nat

\* However many calls race on what they read, at most one mail of a kind goes
\* out for each time its marker was taken: as many as it was cleared, and one
\* more if it is set.
MailedOncePerMarker ==
  /\ lowMails <= lowCleared + lowMark
  /\ soldMails <= soldCleared + soldMark

\* A variant marked as sold out is marked as low: back above zero, it is not
\* announced as low again.
SoldOutImpliesLow == soldMark <= lowMark

\* Whatever earlier races, failures or crashes left in the markers, a change
\* of stock whose call runs alone and to its end leaves them saying what the
\* stock is, so the next crossing alerts.
SettledMarkers ==
  alone /\ AlertsAtRest =>
    /\ (lowMark = 1 <=> LowNow)
    /\ (soldMark = 1 <=> LowNow /\ left <= 0)
=============================================================================
