---------------------------- MODULE ShopperProofs ----------------------------
(***************************************************************************)
(* What is seen and kept, for any number of requests, carts, products and  *)
(* prices: the wishlist through sign-ins and sign-outs, the total shown    *)
(* against the total charged, an admin's list, the addresses with their    *)
(* default, the discount shown, and the carts.                             *)
(***************************************************************************)
EXTENDS Wishlist, Totals, AdminList, AddressBook, CouponField, Carts,
        FiniteSetTheorems, TLAPS

-----------------------------------------------------------------------------
(* Wishlist.                                                               *)

WishJobs == {"idle", "add", "remove", "written", "refresh", "sync", "merged"}

\* Types, with the bound on the local list left out: only the runs need it.
WishesTyped ==
  /\ signedIn \in BOOLEAN
  /\ mode \in {"guest", "user"}
  /\ shown \subseteq Wishes /\ local \subseteq Wishes /\ server \subseteq Wishes
  /\ visible \subseteq Wishes /\ owed \subseteq Wishes
  /\ job \in [WishCalls -> WishJobs]
  /\ ids \in [WishCalls -> SUBSET Wishes]
  /\ memo \in [WishCalls -> SUBSET Wishes]

LEMMA WishesTypes == WishesTypeOK <=> WishesTyped
  BY DEF WishesTypeOK, WishesTyped, WishJobs

\* What the answer to a request may do to what is owed: a refresh or a sync
\* writes the list it was sent with, a merge that was made empties the local
\* list, and no removal under way is of an owed product.
Keeps(k) ==
  /\ job[k] \in {"refresh", "sync"} => owed \subseteq ids[k] \cup server
  /\ job[k] = "merged" => owed \subseteq server
  /\ job[k] = "remove" => ids[k] \cap owed = {}

WishInv ==
  /\ WishesTyped /\ WishesKept
  /\ owed \subseteq visible
  /\ \A k \in WishCalls : Keeps(k)

LEMMA WishStep == WishInv /\ [WishesNext]_wishesVars => WishInv'
<1> SUFFICES ASSUME WishInv, [WishesNext]_wishesVars PROVE WishInv'
  OBVIOUS
<1>1. WishesTyped /\ owed \subseteq local \cup server /\ owed \subseteq visible /\ \A k \in WishCalls : Keeps(k)
  BY DEF WishInv, WishesKept
<1> DEFINE Good == WishesTyped' /\ WishesKept' /\ owed' \subseteq visible' /\ \A k \in WishCalls : Keeps(k)'
<1> SUFFICES Good
  BY DEF WishInv
<1>2. ASSUME NEW p \in Wishes, SaveAsGuest(p) PROVE Good
  <2>1. PICK dropped \in SUBSET local :
          /\ local' = (local \ dropped) \cup {p}
          /\ owed' = (owed \ (dropped \ {p})) \cup (IF Contested(p) THEN {} ELSE {p} \cap visible)
    BY <1>2 DEF SaveAsGuest
  <2>2. shown' = shown \cup {p} /\ UNCHANGED <<signedIn, mode, server, visible, job, ids, memo>>
    BY <1>2 DEF SaveAsGuest
  <2>3. owed' \subseteq owed \cup {p} /\ owed' \subseteq local' \cup server' /\ owed' \subseteq visible
    BY <1>1, <2>1, <2>2
  <2>4. WishesTyped'
    BY <1>1, <2>1, <2>2, <2>3 DEF WishesTyped
  <2>5. ASSUME NEW k \in WishCalls PROVE Keeps(k)'
    <3>1. CASE Contested(p)
      <4>1. owed' \subseteq owed
        BY <2>1, <3>1
      <4> QED
        BY <1>1, <2>2, <4>1 DEF Keeps
    <3>2. CASE ~Contested(p)
      <4>1. job[k] \notin {"sync", "merged", "refresh"} /\ (job[k] = "remove" => p \notin ids[k])
        BY <3>2 DEF Contested
      <4> QED
        BY <1>1, <2>2, <2>3, <4>1 DEF Keeps
    <3> QED
      BY <3>1, <3>2
  <2> QED
    BY <2>2, <2>3, <2>4, <2>5 DEF WishesKept
<1>3. ASSUME NEW p \in Wishes, RemoveAsGuest(p) PROVE Good
  BY <1>1, <1>3 DEF RemoveAsGuest, WishesTyped, WishesKept, Keeps
<1>4. ASSUME NEW p \in Wishes, Hide(p) PROVE Good
  BY <1>1, <1>4 DEF Hide, WishesTyped, WishesKept, Keeps
<1>5. ASSUME SignOut PROVE Good
  BY <1>1, <1>5 DEF SignOut, WishesTyped, WishesKept, Keeps
<1>6. ASSUME NEW k \in WishCalls, NEW kind \in WishJobs, NEW products \in SUBSET Wishes, NEW back \in SUBSET Wishes,
             Send(k, kind, products, back), UNCHANGED <<local, server, visible>>,
             owed' \subseteq owed, signedIn' \in BOOLEAN, mode' \in {"guest", "user"}, shown' \subseteq Wishes,
             kind \in {"refresh", "sync"} => owed \subseteq products \cup server,
             kind \notin {"merged", "idle"}, kind = "remove" => products \cap owed' = {}
      PROVE  Good
  <2>1. job' = [job EXCEPT ![k] = kind] /\ ids' = [ids EXCEPT ![k] = products] /\ memo' = [memo EXCEPT ![k] = back]
    BY <1>6 DEF Send, Now
  <2>2. WishesTyped'
    BY <1>1, <1>6, <2>1 DEF WishesTyped
  <2>3. ASSUME NEW j \in WishCalls PROVE Keeps(j)'
    <3>1. CASE j = k
      <4>1. job'[j] = kind /\ ids'[j] = products
        BY <1>1, <2>1, <3>1 DEF WishesTyped
      <4> QED
        BY <1>6, <4>1 DEF Keeps
    <3>2. CASE j # k
      <4>1. job'[j] = job[j] /\ ids'[j] = ids[j]
        BY <1>1, <2>1, <3>2 DEF WishesTyped
      <4> QED
        BY <1>1, <1>6, <4>1 DEF Keeps
    <3> QED
      BY <3>1, <3>2
  <2> QED
    BY <1>1, <1>6, <2>2, <2>3 DEF WishesKept
<1>7. ASSUME NEW k \in WishCalls, NEW p \in Wishes, SaveAsUser(k, p) \/ RemoveAsUser(k, p) PROVE Good
  <2>1. PICK kind \in {"add", "remove"} :
          /\ Send(k, kind, {p}, shown)
          /\ owed' \subseteq owed /\ (kind = "remove" => p \notin owed')
          /\ UNCHANGED <<signedIn, mode, local, server, visible>>
          /\ shown' \subseteq shown \cup {p}
    BY <1>7 DEF SaveAsUser, RemoveAsUser
  <2>2. {p} \in SUBSET Wishes /\ shown \in SUBSET Wishes /\ shown' \subseteq Wishes
    BY <1>1, <2>1 DEF WishesTyped
  <2>3. signedIn' \in BOOLEAN /\ mode' \in {"guest", "user"} /\ kind \in WishJobs
    BY <1>1, <2>1 DEF WishesTyped, WishJobs
  <2>4. kind = "remove" => {p} \cap owed' = {}
    BY <2>1
  <2>5. kind \notin {"refresh", "sync", "merged", "idle"}
    OBVIOUS
  <2> QED
    BY <1>6, <2>1, <2>2, <2>3, <2>4, <2>5
<1>8. ASSUME NEW k \in WishCalls, Refresh(k) \/ SignIn(k) PROVE Good
  <2>1. PICK kind \in {"refresh", "sync"} :
          /\ Send(k, kind, local, {})
          /\ UNCHANGED <<mode, shown, local, server, visible, owed>>
    BY <1>8 DEF Refresh, SignIn
  <2>2. signedIn' \in BOOLEAN
    BY <1>1, <1>8 DEF Refresh, SignIn, WishesTyped
  <2>3. local \in SUBSET Wishes /\ {} \in SUBSET Wishes /\ shown' \subseteq Wishes
    BY <1>1, <2>1 DEF WishesTyped
  <2>4. mode' \in {"guest", "user"} /\ kind \in WishJobs
    BY <1>1, <2>1 DEF WishesTyped, WishJobs
  <2>5. kind \notin {"merged", "idle", "remove"}
    OBVIOUS
  <2>6. owed \subseteq local \cup server /\ owed' \subseteq owed
    BY <1>1, <2>1
  <2> QED
    BY <1>6, <2>1, <2>2, <2>3, <2>4, <2>5, <2>6
<1>9. ASSUME NEW k \in WishCalls, Write(k) PROVE Good
  <2>1. /\ job' = [job EXCEPT ![k] = "written"] /\ ids' = [ids EXCEPT ![k] = {}]
        /\ UNCHANGED <<signedIn, mode, shown, local, visible, memo, owed>>
        /\ \/ server' = server \cup ids[k]
           \/ job[k] = "remove" /\ server' = server \ ids[k]
    BY <1>9 DEF Write, Now
  <2>2. server' \subseteq Wishes /\ server \cap owed \subseteq server'
    BY <1>1, <2>1 DEF WishesTyped, Keeps
  <2>3. WishesTyped'
    BY <1>1, <2>1, <2>2 DEF WishesTyped, WishJobs
  <2>4. ASSUME NEW j \in WishCalls PROVE Keeps(j)'
    <3>1. CASE j = k
      BY <1>1, <2>1, <3>1 DEF Keeps, WishesTyped
    <3>2. CASE j # k
      <4>1. job'[j] = job[j] /\ ids'[j] = ids[j]
        BY <1>1, <2>1, <3>2 DEF WishesTyped
      <4>2. Keeps(j) /\ owed' = owed
        BY <1>1, <2>1
      <4> QED
        BY <2>2, <4>1, <4>2 DEF Keeps
    <3> QED
      BY <3>1, <3>2
  <2> QED
    BY <1>1, <2>1, <2>2, <2>3, <2>4 DEF WishesKept
<1>10. ASSUME NEW k \in WishCalls, Over(k), UNCHANGED <<signedIn, server, visible, owed>>,
              owed \subseteq local' \cup server, mode' \in {"guest", "user"}, local' \subseteq Wishes, shown' \subseteq Wishes
       PROVE  Good
  <2>1. job' = [job EXCEPT ![k] = "idle"] /\ ids' = [ids EXCEPT ![k] = {}] /\ memo' = [memo EXCEPT ![k] = {}]
    BY <1>10 DEF Over, Now
  <2>2. WishesTyped'
    BY <1>1, <1>10, <2>1 DEF WishesTyped, WishJobs
  <2>3. ASSUME NEW j \in WishCalls PROVE Keeps(j)'
    <3>1. job'[j] = "idle" \/ (job'[j] = job[j] /\ ids'[j] = ids[j])
      BY <1>1, <2>1 DEF WishesTyped
    <3> QED
      BY <1>1, <1>10, <3>1 DEF Keeps
  <2> QED
    BY <1>1, <1>10, <2>2, <2>3 DEF WishesKept
<1>11. ASSUME NEW k \in WishCalls, WriteFails(k) \/ WriteAnswered(k) \/ SyncFails(k) PROVE Good
  <2>1. Over(k) /\ UNCHANGED <<signedIn, local, server, visible, owed>> /\ shown' \in {shown, memo[k]}
    BY <1>11 DEF WriteFails, WriteAnswered, SyncFails, LocalKept
  <2>2. mode' \in {mode, "user"}
    BY <1>11 DEF WriteFails, WriteAnswered, SyncFails
  <2>3. memo[k] \subseteq Wishes
    BY <1>1 DEF WishesTyped
  <2> QED
    BY <1>1, <1>10, <2>1, <2>2, <2>3 DEF WishesTyped
<1>12. ASSUME NEW k \in WishCalls, Refreshed(k) PROVE Good
  <2>1. job[k] = "refresh" /\ Over(k) /\ UNCHANGED <<signedIn, mode, server, visible, owed>>
    BY <1>12 DEF Refreshed
  <2>2. \/ shown' = shown /\ local' = local
        \/ shown' = local' /\ \E hidden \in SUBSET (ids[k] \ visible) : local' = ids[k] \ hidden
    BY <1>12 DEF Refreshed
  <2>3. ids[k] \subseteq Wishes /\ owed \subseteq ids[k] \cup server
    BY <1>1, <2>1 DEF WishesTyped, Keeps
  <2>4. owed \subseteq local' \cup server /\ local' \subseteq Wishes /\ shown' \subseteq Wishes
    BY <1>1, <2>2, <2>3 DEF WishesTyped
  <2> QED
    BY <1>1, <1>10, <2>1, <2>4 DEF WishesTyped
<1>13. ASSUME NEW k \in WishCalls, MergeWishes(k) PROVE Good
  <2>1. /\ job[k] = "sync" /\ job' = [job EXCEPT ![k] = "merged"]
        /\ server' = server \cup (ids[k] \cap visible)
        /\ memo' = [memo EXCEPT ![k] = server' \cap visible]
        /\ UNCHANGED <<signedIn, mode, shown, local, visible, ids, owed>>
    BY <1>13 DEF MergeWishes, Now
  <2>2. server' \subseteq Wishes /\ owed \subseteq server'
    BY <1>1, <2>1 DEF WishesTyped, Keeps
  <2>3. WishesTyped'
    BY <1>1, <2>1, <2>2 DEF WishesTyped, WishJobs
  <2>4. ASSUME NEW j \in WishCalls PROVE Keeps(j)'
    <3>1. job'[j] = "merged" \/ job'[j] = job[j]
      BY <1>1, <2>1 DEF WishesTyped
    <3>2. Keeps(j) /\ UNCHANGED <<ids, owed>>
      BY <1>1, <2>1
    <3> QED
      BY <2>2, <3>1, <3>2 DEF Keeps
  <2> QED
    BY <1>1, <2>1, <2>2, <2>3, <2>4 DEF WishesKept
<1>14. ASSUME NEW k \in WishCalls, Synced(k) PROVE Good
  <2>1. job[k] = "merged" /\ Over(k) /\ UNCHANGED <<signedIn, server, visible, owed>>
    BY <1>14 DEF Synced
  <2>2. (local' = {} \/ local' = local) /\ mode' = "user" /\ shown' = memo[k]
    BY <1>14 DEF Synced
  <2>3. owed \subseteq server /\ memo[k] \subseteq Wishes
    BY <1>1, <2>1 DEF WishesTyped, Keeps
  <2>4. local' \subseteq Wishes
    BY <1>1, <2>2 DEF WishesTyped
  <2> QED
    BY <1>10, <2>1, <2>2, <2>3, <2>4
<1>15. ASSUME UNCHANGED wishesVars PROVE Good
  BY <1>1, <1>15 DEF wishesVars, WishesTyped, WishesKept, Keeps
<1> QED
  BY <1>2, <1>3, <1>4, <1>5, <1>7, <1>8, <1>9, <1>11, <1>12, <1>13, <1>14, <1>15 DEF WishesNext

LEMMA WishesInitially == WishesInit => WishInv
  BY DEF WishesInit, WishInv, WishesTyped, WishJobs, WishesKept, Keeps

\* The lists, the requests and the history are well typed.
THEOREM WishesTypeCorrect == WishesSpec => []WishesTypeOK
<1>1. WishInv => WishesTypeOK
  BY WishesTypes DEF WishInv
<1> QED
  BY <1>1, WishesInitially, WishStep, PTL DEF WishesSpec

\* What a guest saved, uncontested, stays in the browser or the account until
\* it is removed or hidden, for any number of requests out at once.
THEOREM WishesKeptCorrect == WishesSpec => []WishesKept
<1>1. WishInv => WishesKept
  BY DEF WishInv
<1> QED
  BY <1>1, WishesInitially, WishStep, PTL DEF WishesSpec

-----------------------------------------------------------------------------
(* Totals.                                                                 *)

OfferOK ==
  /\ InCart \subseteq {1, 2}
  /\ \A i \in InCart : offer.lines[i].base \in Nat /\ offer.lines[i].sale \in Nat /\ offer.lines[i].units \in Nat
  /\ offer.method \in DOMAIN Fee /\ offer.threshold \in Nat /\ offer.least \in Nat
  /\ offer.kind \in {"PERCENTAGE", "FIXED"} /\ offer.value \in Nat

\* Delivery of a cart of s agorot, or of one just short of it.
Shipping(s, short) == IF AtLeast(s, short, offer.threshold) THEN 0 ELSE Fee[offer.method]

\* A product of naturals is one.
LEMMA Product == ASSUME NEW a \in Nat, NEW b \in Nat PROVE a * b \in Nat
  OBVIOUS

LEMMA DiscountBounds ==
  ASSUME OfferOK, NEW s \in Nat PROVE Discount(s) \in Nat /\ Discount(s) <= s * 10000
<1> DEFINE full == IF offer.kind = "PERCENTAGE" THEN s * offer.value ELSE offer.value * 10000
<1>1. s * offer.value \in Nat /\ offer.value * 10000 \in Nat
  BY Product DEF OfferOK
<1>2. full \in Nat
  BY <1>1
<1>3. Discount(s) = IF full < s * 10000 THEN full ELSE s * 10000
  BY DEF Discount
<1> HIDE DEF full
<1> QED
  BY <1>2, <1>3

LEMMA SubtotalIsNat == ASSUME OfferOK, NEW onSale PROVE Subtotal(onSale) \in Nat
<1>1. ASSUME NEW i PROVE LineSum(i, onSale) \in Nat
  <2>1. CASE i \in InCart
    <3>1. Price(i, onSale) \in Nat /\ offer.lines[i].units \in Nat
      BY <2>1 DEF OfferOK, Price
    <3> QED
      BY <2>1, <3>1, Product DEF LineSum
  <2> QED
    BY <2>1 DEF LineSum
<1>2. LineSum(1, onSale) \in Nat /\ LineSum(2, onSale) \in Nat
  BY <1>1
<1> QED
  BY <1>2 DEF Subtotal

LEMMA FeeIsNat == OfferOK => Fee[offer.method] \in Nat
  BY DEF OfferOK, Fee

LEMMA RoundedIsNat == ASSUME NEW x \in Nat, NEW n \in Rounded(x) PROVE n \in Nat
  BY DEF Rounded

LEMMA RoundedIsNear ==
  ASSUME NEW x \in Nat, NEW n \in Rounded(x) PROVE n * 10000 <= x + 5000 /\ x <= n * 10000 + 5000
  BY DEF Rounded

\* Rounding the discount and rounding what is left of the sum differ by one
\* agora at most.
LEMMA RoundingsAgree ==
  ASSUME NEW s \in Nat, NEW h \in Nat, NEW d \in Nat, d <= s * 10000,
         NEW n \in Rounded(AtLeastZero((s + h) * 10000 - d)), NEW r \in Rounded(d)
  PROVE  AtLeastZero(s + h - r) \in Nat /\ AtLeastZero(s + h - r) - n \in -1 .. 1
<1> DEFINE x == (s + h) * 10000 - d
<1>1. x \in Nat
  OBVIOUS
<1>2. AtLeastZero(x) = x
  BY <1>1 DEF AtLeastZero
<1>3. n \in Rounded(x)
  BY <1>2
<1>4. n \in Nat /\ r \in Nat
  <2> HIDE DEF x
  <2> QED
    BY <1>1, <1>3, RoundedIsNat
<1>5. n * 10000 <= x + 5000 /\ x <= n * 10000 + 5000
  <2> HIDE DEF x
  <2> QED
    BY <1>1, <1>3, RoundedIsNear
<1>6. r * 10000 <= d + 5000 /\ d <= r * 10000 + 5000
  BY RoundedIsNear
<1> DEFINE c == s + h - r
<1>7. c >= 0 /\ c \in Int
  BY <1>1, <1>4, <1>6
<1>8. AtLeastZero(c) = c
  BY <1>7 DEF AtLeastZero
<1>9. c - n >= -1 /\ c - n <= 1 /\ c \in Nat
  BY <1>1, <1>4, <1>5, <1>6, <1>7
<1> HIDE DEF c
<1>10. AtLeastZero(c) \in Nat /\ AtLeastZero(c) - n \in -1 .. 1
  BY <1>4, <1>7, <1>8, <1>9
<1> QED
  BY <1>10 DEF c

DiscountShown(s) == IF couponState = "applied" THEN Discount(s) ELSE 0

\* The total shown is the one of the lines on sale then, and of the coupon the
\* page applied; a sum that fell short tells in delivery and coupon alike.
ShownFrom(onSale, short) ==
  /\ short => ~SumIsExact(onSale)
  /\ couponState = "applied" => MinimumMet(Subtotal(onSale), short)
  /\ couponState = "refused" => ~MinimumMet(Subtotal(onSale), short)
  /\ shownTotal \in Rounded(AtLeastZero((Subtotal(onSale) + Shipping(Subtotal(onSale), short)) * 10000
                                          - DiscountShown(Subtotal(onSale))))

ShownOK == shownTotal >= 0 => \E short \in BOOLEAN : ShownFrom(shownOnSale, short)

ChargedOK == charged >= 0 /\ shownOnSale = OnSaleCharged => TotalsAgree

TotalsInv == OfferOK /\ TotalsTypeOK /\ ShownOK /\ ChargedOK

\* The invariant holds of whatever the page shows.
LEMMA ShowKeeps ==
  ASSUME TotalsInv, charged = -1, UNCHANGED <<offer, time, charged>>,
         NEW short \in MayFallShort, NEW discount \in Nat, discount <= SubtotalShown * 10000, Show(short, discount),
         couponState' \in {"none", "applied", "refused"},
         couponState' = "applied" => MinimumMet(SubtotalShown, short) /\ discount = Discount(SubtotalShown),
         couponState' = "refused" => ~MinimumMet(SubtotalShown, short),
         couponState' # "applied" => discount = 0
  PROVE  TotalsInv'
<1> DEFINE s == Subtotal(OnSaleShown)
           sum == (s + Shipping(s, short)) * 10000 - discount
<1>1. OfferOK /\ TotalsTypeOK
  BY DEF TotalsInv
<1>2. SubtotalShown = s /\ ShippingShown(short) = Shipping(s, short)
  BY DEF SubtotalShown, ShippingShown, Shipping
<1>3. shownTotal' \in Rounded(AtLeastZero(sum)) /\ shownOnSale' = OnSaleShown
  BY <1>2 DEF Show
<1>4. s \in Nat /\ Shipping(s, short) \in Nat
  BY <1>1, SubtotalIsNat, FeeIsNat DEF Shipping
<1>5. shownTotal' \in Nat
  <2>1. discount <= s * 10000
    BY <1>2
  <2> HIDE DEF s
  <2>2. sum \in Nat
    BY <1>4, <2>1
  <2>3. AtLeastZero(sum) = sum
    BY <2>2 DEF AtLeastZero
  <2> QED
    BY <1>3, <2>2, <2>3, RoundedIsNat
<1>6. OfferOK' /\ TotalsTypeOK'
  <2>1. OnSaleShown \subseteq InCart /\ InCart' = InCart
    BY DEF OnSaleShown, InCart
  <2> QED
    BY <1>1, <1>3, <1>5, <2>1 DEF OfferOK, TotalsTypeOK
<1>7. ShownOK'
  <2>1. short \in BOOLEAN /\ (short => ~SumIsExact(OnSaleShown))
    <3>1. CASE SumIsExact(OnSaleShown)
      BY <3>1 DEF MayFallShort
    <3>2. CASE ~SumIsExact(OnSaleShown)
      BY <3>2 DEF MayFallShort
    <3> QED
      BY <3>1, <3>2
  <2>2. SumIsExact(shownOnSale)' <=> SumIsExact(OnSaleShown)
    BY <1>3 DEF SumIsExact, Price, InCart
  <2>3. Subtotal(shownOnSale)' = s
    BY <1>3 DEF Subtotal, LineSum, Price, InCart
  <2>4. /\ Discount(Subtotal(shownOnSale))' = Discount(s)
        /\ Shipping(Subtotal(shownOnSale), short)' = Shipping(s, short)
        /\ MinimumMet(Subtotal(shownOnSale), short)' <=> MinimumMet(s, short)
    BY <2>3, <1>3 DEF MinimumMet, AtLeast, Discount, Shipping, OnSaleShown, Subtotal, LineSum, Price, InCart
  <2>5. ShownFrom(shownOnSale, short)'
    BY <1>2, <1>3, <2>1, <2>2, <2>3, <2>4 DEF ShownFrom, DiscountShown
  <2> QED
    BY <2>1, <2>5 DEF ShownOK
<1>8. ChargedOK'
  BY DEF ChargedOK
<1> QED
  BY <1>6, <1>7, <1>8 DEF TotalsInv

LEMMA TotalsStep == TotalsInv /\ [TotalsNext]_totalsVars => TotalsInv'
<1> SUFFICES ASSUME TotalsInv, [TotalsNext]_totalsVars PROVE TotalsInv'
  OBVIOUS
<1>1. OfferOK /\ TotalsTypeOK /\ ShownOK /\ ChargedOK
  BY DEF TotalsInv
<1>2. SubtotalShown \in Nat /\ 0 <= SubtotalShown * 10000
  BY <1>1, SubtotalIsNat DEF SubtotalShown
<1>3. CASE ShowPlain
  BY <1>2, <1>3, ShowKeeps DEF ShowPlain
<1>4. CASE ShowDiscounted
  <2>1. Discount(SubtotalShown) \in Nat /\ Discount(SubtotalShown) <= SubtotalShown * 10000
    BY <1>1, <1>2, DiscountBounds
  <2> QED
    BY <1>4, <2>1, ShowKeeps DEF ShowDiscounted
<1>5. CASE ShowRefused
  BY <1>2, <1>5, ShowKeeps DEF ShowRefused
<1>6. CASE RefuseCoupon
  <2>1. SubtotalCharged = SubtotalShown
    BY DEF SubtotalCharged, SubtotalShown, OnSaleCharged, OnSaleShown, Subtotal, LineSum, Price
  <2>2. ASSUME NEW short \in MayFallShort PROVE ~MinimumMet(SubtotalShown, short)
    BY <1>6, <2>1 DEF RefuseCoupon, MinimumMet, AtLeast
  <2> QED
    BY <1>2, <1>6, <2>2, ShowKeeps DEF RefuseCoupon
<1>7. ASSUME PlaceOrder PROVE TotalsInv'
  <2> DEFINE s == SubtotalCharged
             d == DiscountShown(s)
  <2>1. UNCHANGED <<offer, time, shownTotal, shownOnSale, couponState>> /\ shownTotal >= 0 /\ shownTotal \in Nat
    BY <1>1, <1>7 DEF PlaceOrder, TotalsTypeOK
  <2>2. s \in Nat /\ Discount(s) \in Nat /\ Discount(s) <= s * 10000 /\ Fee[offer.method] \in Nat
    BY <1>1, SubtotalIsNat, DiscountBounds, FeeIsNat DEF SubtotalCharged
  <2>3. d \in Nat /\ d <= s * 10000
    <3> HIDE DEF s
    <3> QED
      BY <2>2 DEF DiscountShown
  <2>4. PICK r \in Rounded(d) : charged' = AtLeastZero(s + ShippingCharged - r)
    <3>1. 0 \in Rounded(0)
      BY DEF Rounded
    <3> QED
      BY <1>7, <3>1 DEF PlaceOrder, DiscountsCharged, DiscountShown
  <2>5. r \in Nat /\ r <= s
    <3> HIDE DEF s
    <3>1. r \in Nat /\ r * 10000 <= d + 5000
      BY <2>3, RoundedIsNat, RoundedIsNear
    <3> QED
      BY <2>2, <2>3, <3>1
  <2>6. ShippingCharged = IF s >= offer.threshold THEN 0 ELSE Fee[offer.method]
    BY DEF ShippingCharged, FreeFrom
  <2>7. charged' = s + ShippingCharged - r /\ charged' \in Nat
    <3> HIDE DEF s
    <3>1. ShippingCharged \in Nat
      BY <2>2, <2>6
    <3> QED
      BY <2>2, <2>4, <2>5, <3>1 DEF AtLeastZero
  <2>8. OfferOK' /\ TotalsTypeOK' /\ ShownOK'
    BY <1>1, <2>1, <2>7 DEF OfferOK, TotalsTypeOK, ShownOK, ShownFrom, DiscountShown, InCart, SumIsExact, MinimumMet, AtLeast,
                            Discount, Shipping, Subtotal, LineSum, Price
  <2>9. ASSUME shownOnSale = OnSaleCharged PROVE TotalsAgree'
    <3>1. PICK short \in BOOLEAN : ShownFrom(OnSaleCharged, short)
      BY <1>1, <2>1, <2>9 DEF ShownOK
    <3>2. shownTotal \in Rounded(AtLeastZero((s + Shipping(s, short)) * 10000 - d))
      BY <3>1 DEF ShownFrom, SubtotalCharged
    <3>3. Shipping(s, short) \in Nat
      BY <2>2 DEF Shipping
    <3> HIDE DEF s, d
    <3>4. AtLeastZero(s + Shipping(s, short) - r) - shownTotal \in -1 .. 1
      BY <2>2, <2>3, <3>2, <3>3, RoundingsAgree
    <3>5. s + Shipping(s, short) - r - shownTotal \in -1 .. 1
      BY <2>1, <2>2, <2>5, <3>3, <3>4 DEF AtLeastZero
    <3>6. CASE Shipping(s, short) = ShippingCharged
      <4>1. charged' - shownTotal' \in -1 .. 1
        BY <2>1, <2>2, <2>5, <2>7, <3>3, <3>5, <3>6
      <4> QED
        BY <4>1 DEF TotalsAgree
    <3>7. CASE Shipping(s, short) # ShippingCharged
      <4>1. s = offer.threshold /\ short /\ Shipping(s, short) = Fee[offer.method] /\ ShippingCharged = 0
        BY <1>1, <2>2, <2>6, <3>7 DEF Shipping, AtLeast, OfferOK
      <4>2. ~SumIsExact(OnSaleCharged)
        BY <3>1, <4>1 DEF ShownFrom
      <4>3. charged' + Fee[offer.method] - shownTotal \in -1 .. 1
        <5>1. charged' = s + 0 - r /\ s + Fee[offer.method] - r - shownTotal \in -1 .. 1
          BY <2>7, <3>5, <4>1, Zenon
        <5> QED
          BY <2>1, <2>2, <2>5, <5>1
      <4>4. SubtotalCharged' = SubtotalCharged /\ (SumIsExact(OnSaleCharged)' <=> SumIsExact(OnSaleCharged))
        BY <2>1 DEF SubtotalCharged, OnSaleCharged, SumIsExact, Subtotal, LineSum, Price, InCart
      <4> QED
        BY <2>1, <4>1, <4>2, <4>3, <4>4 DEF TotalsAgree, s
    <3> QED
      BY <3>6, <3>7
  <2>10. OnSaleCharged' = OnSaleCharged
    BY <2>1 DEF OnSaleCharged, InCart
  <2>11. ChargedOK'
    BY <2>1, <2>9, <2>10 DEF ChargedOK
  <2> QED
    BY <2>8, <2>11 DEF TotalsInv
<1>8. CASE PassTime
  <2>1. UNCHANGED <<offer, shownTotal, shownOnSale, couponState, charged>> /\ charged = -1 /\ time' \in 0 .. MaxTime
    BY <1>1, <1>8, TotalsAssumption DEF PassTime, TotalsTypeOK
  <2> QED
    BY <1>1, <2>1 DEF TotalsInv, OfferOK, TotalsTypeOK, ShownOK, ShownFrom, DiscountShown, ChargedOK, InCart, SumIsExact, MinimumMet,
                      AtLeast, Discount, Shipping, Subtotal, LineSum, Price
<1>9. CASE UNCHANGED totalsVars
  BY <1>1, <1>9 DEF totalsVars, TotalsInv, OfferOK, TotalsTypeOK, ShownOK, ShownFrom, DiscountShown, ChargedOK, InCart, SumIsExact,
                    MinimumMet, AtLeast, Discount, Shipping, Subtotal, LineSum, Price, TotalsAgree, SubtotalCharged,
                    OnSaleCharged
<1> QED
  BY <1>3, <1>4, <1>5, <1>6, <1>7, <1>8, <1>9 DEF TotalsNext

LEMMA TotalsInitially == TotalsInit => TotalsInv
<1> SUFFICES ASSUME TotalsInit PROVE TotalsInv
  OBVIOUS
<1>1. PICK lines \in PricedCarts, method \in DOMAIN Fee, threshold \in Thresholds,
           coupon \in CouponsOffered, least \in {0} \cup Thresholds :
        offer = [lines |-> lines, method |-> method, threshold |-> threshold,
                 kind |-> coupon.kind, value |-> coupon.value, least |-> least]
  BY DEF TotalsInit
<1>2. coupon.kind \in {"PERCENTAGE", "FIXED"} /\ coupon.value \in Nat
  <2>1. CASE coupon \in [kind : {"PERCENTAGE"}, value : Percents]
    BY <2>1, TotalsAssumption
  <2>2. CASE coupon \in [kind : {"FIXED"}, value : Amounts]
    BY <2>2, TotalsAssumption
  <2> QED
    BY <2>1, <2>2 DEF CouponsOffered
<1>3. DOMAIN lines \subseteq {1, 2} /\ \A i \in DOMAIN lines : lines[i] \in PricedLine
  BY DEF PricedCarts
<1>4. OfferOK
  <2>1. threshold \in Nat /\ least \in Nat
    BY TotalsAssumption
  <2>2. ASSUME NEW line \in PricedLine PROVE line.base \in Nat /\ line.sale \in Nat /\ line.units \in Nat
    <3>1. line.base \in BasePrices /\ line.sale \in SalePrices /\ line.units \in 1 .. MaxUnits
      BY DEF PricedLine
    <3>2. line.units \in Nat
      BY <3>1
    <3> QED
      BY <3>1, <3>2, TotalsAssumption
  <2>3. /\ offer.lines = lines /\ offer.threshold = threshold /\ offer.least = least
        /\ offer.method = method /\ offer.kind = coupon.kind /\ offer.value = coupon.value
    BY <1>1
  <2> QED
    BY <1>2, <1>3, <2>1, <2>2, <2>3 DEF OfferOK, InCart
<1>5. time = 0 /\ shownTotal = -1 /\ shownOnSale = {} /\ couponState = "none" /\ charged = -1
  BY DEF TotalsInit
<1>6. TotalsTypeOK
  <2>1. time \in 0 .. MaxTime
    BY <1>5, TotalsAssumption
  <2>2. shownTotal \in Nat \cup {-1} /\ charged \in Nat \cup {-1}
    BY <1>5
  <2>3. shownOnSale \subseteq InCart /\ couponState \in {"none", "applied", "refused"}
    BY <1>5
  <2> QED
    BY <2>1, <2>2, <2>3 DEF TotalsTypeOK
<1>7. ~(shownTotal >= 0) /\ ~(charged >= 0)
  BY <1>5
<1> QED
  BY <1>4, <1>6, <1>7 DEF TotalsInv, ShownOK, ChargedOK

\* The totals are amounts, the time within its bound.
THEOREM TotalsTypeCorrect == TotalsSpec => []TotalsTypeOK
<1>1. TotalsInv => TotalsTypeOK
  BY DEF TotalsInv
<1> QED
  BY <1>1, TotalsInitially, TotalsStep, PTL DEF TotalsSpec

\* For every price, sale, coupon and delivery, and while no sale begins or
\* ends, the order takes the coupon as the page did and is charged what the
\* page showed but for one agora, unless the page's sum fell short of a bound.
THEOREM ShownNearChargedCorrect == TotalsSpec => []ShownNearCharged
<1>1. TotalsInv => ShownNearCharged
  <2> SUFFICES ASSUME TotalsInv, shownTotal >= 0, shownOnSale = OnSaleCharged
               PROVE  CouponsAgree /\ (charged >= 0 => TotalsAgree)
    BY DEF ShownNearCharged
  <2>1. OfferOK /\ ShownOK /\ ChargedOK
    BY DEF TotalsInv
  <2>2. PICK short \in BOOLEAN : ShownFrom(OnSaleCharged, short)
    BY <2>1 DEF ShownOK
  <2>3. SubtotalCharged \in Nat /\ offer.least \in Nat
    BY <2>1, SubtotalIsNat DEF SubtotalCharged, OfferOK
  <2>4. /\ short => ~SumIsExact(OnSaleCharged)
        /\ couponState = "applied" => MinimumMet(SubtotalCharged, short)
        /\ couponState = "refused" => ~MinimumMet(SubtotalCharged, short)
    BY <2>2 DEF ShownFrom, SubtotalCharged
  <2>5. CouponsAgree
    BY <2>3, <2>4 DEF CouponsAgree, MinimumMet, AtLeast
  <2> QED
    BY <2>1, <2>5 DEF ChargedOK
<1> QED
  BY <1>1, TotalsInitially, TotalsStep, PTL DEF TotalsSpec

-----------------------------------------------------------------------------
(* A list page of the admin.                                               *)

\* The request n is the one whose answer the page waits for or shows.
Current(n, p) ==
  /\ requests[n].of = p
  /\ ~requests[n].cancelled
  /\ list.loading = (requests[n].status = "pending")
  /\ requests[n].status = "ok" => list.rows = p

\* The last request is the current one if the effect ran with the query
\* restored; those before it are cancelled.
ListInv ==
  /\ ListTypeOK
  /\ Sent = 1 .. Last
  /\ \A n \in Sent : n < Last => requests[n].cancelled
  /\ \A p \in Params, v \in 0 .. MaxVersion :
       ran = {<<p, v, TRUE>>} => Last \in Sent /\ Current(Last, p)

LEMMA LastIs == ASSUME NEW k \in 0 .. MaxRequests, Sent = 1 .. k PROVE Last = k
<1>1. ASSUME NEW n \in 0 .. MaxRequests, Sent = 1 .. n PROVE n = k
  <2>1. 1 .. n = 1 .. k
    BY <1>1
  <2>2. n \in Nat /\ k \in Nat
    BY ListAssumption
  <2> QED
    BY <2>1, <2>2
<1> QED
  BY <1>1 DEF Last

LEMMA ListInitially == ListInit => ListInv
<1> SUFFICES ASSUME ListInit PROVE ListInv
  OBVIOUS
<1> USE ListAssumption
<1>1. Sent = 1 .. 0 /\ 0 \in 0 .. MaxRequests
  BY DEF ListInit, Sent
<1>2. Last = 0
  BY <1>1, LastIs
<1>3. Sent = {}
  BY <1>1
<1>4. 1 \in Pages
  BY DEF Pages
<1>5. query \in [search : Terms, applied : Terms, filter : Filters, page : Pages]
  BY <1>4 DEF ListInit
<1>6. list \in [rows : Params \cup {NoRows}, loading : BOOLEAN, error : BOOLEAN, loaded : BOOLEAN,
                version : 0 .. MaxVersion]
  BY DEF ListInit
<1>7. ran = {}
  BY DEF ListInit
<1>8. ListTypeOK
  BY <1>1, <1>2, <1>3, <1>5, <1>6 DEF ListInit, ListTypeOK
<1> QED
  BY <1>1, <1>2, <1>3, <1>7, <1>8 DEF ListInv

\* A step that leaves the requests, the rows and the loading alone.
LEMMA ListStays ==
  ASSUME ListInv, ListTypeOK', ran' = ran, requests' = requests,
         list'.loading = list.loading, list'.rows = list.rows
  PROVE  ListInv'
<1>1. Sent' = Sent /\ Last' = Last
  BY DEF Sent, Last
<1>2. ASSUME NEW p \in Params, NEW v \in 0 .. MaxVersion, ran = {<<p, v, TRUE>>}
      PROVE  Last \in Sent /\ Current(Last, p)'
  BY <1>1, <1>2 DEF ListInv, Current
<1>3. \A n \in Sent : n < Last => requests'[n].cancelled
  BY DEF ListInv
<1> QED
  BY <1>1, <1>2, <1>3 DEF ListInv

LEMMA ListTypesStay ==
  ASSUME ListTypeOK, requests' = requests
  PROVE  /\ Last' \in 0 .. MaxRequests
         /\ \A n \in Sent' : requests'[n] \in [of : Params, status : {"pending", "ok", "failed"}, cancelled : BOOLEAN]
<1>1. Sent' = Sent /\ Last' = Last
  BY DEF Sent, Last
<1> QED
  BY <1>1 DEF ListTypeOK

LEMMA ParamsTyped == ASSUME ListTypeOK PROVE ParamsNow \in Params
  BY DEF ListTypeOK, ParamsNow, Params

\* What is known of the requests sent: 1 .. Last, typed.

\* The page caught up: the effect cancels what it sent and asks again.
LEMMA ListRuns == ASSUME ListInv, RunEffect PROVE ListInv'
<1> USE ListAssumption
<1>0. PICK k : k = IF ready THEN Last + 1 ELSE Last
  OBVIOUS
<1>1. ListTypeOK /\ Sent = 1 .. Last /\ Last \in Nat /\ ready \in BOOLEAN
  BY DEF ListInv, ListTypeOK
<1>2. k \in 0 .. MaxRequests
  BY <1>0, <1>1 DEF RunEffect
<1>3. /\ requests' = [n \in 1 .. k |-> IF n > Last THEN [of |-> ParamsNow, status |-> "pending", cancelled |-> FALSE]
                                       ELSE Cancelled(requests[n])]
      /\ ran' = Deps
      /\ list' = IF ready THEN [list EXCEPT !.loading = TRUE] ELSE list
      /\ query' = query /\ typing' = typing /\ ready' = ready
  BY <1>0 DEF RunEffect
<1>4. Sent' = 1 .. k
  BY <1>3 DEF Sent
<1>5. Last' = k
  <2>1. ASSUME NEW n \in 0 .. MaxRequests, Sent' = 1 .. n PROVE n = k
    <3>1. 1 .. n = 1 .. k
      BY <2>1, <1>4
    <3>2. n \in Nat /\ k \in Nat
      BY <1>2
    <3> QED
      BY <3>1, <3>2
  <2> QED
    BY <2>1, <1>2, <1>4 DEF Last
<1>6. ParamsNow \in Params
  BY <1>1, ParamsTyped
<1>7. ASSUME NEW n \in 1 .. k, n <= Last
      PROVE  n \in Sent /\ requests'[n] = Cancelled(requests[n])
  <2>1. n \in Sent
    BY <1>1, <1>2, <1>7
  <2>2. ~(n > Last)
    BY <1>1, <1>2, <1>7
  <2> QED
    BY <2>1, <2>2, <1>3
<1>8. ASSUME NEW n \in 1 .. k, ~(n <= Last)
      PROVE  ready /\ n = Last + 1 /\ requests'[n] = [of |-> ParamsNow, status |-> "pending", cancelled |-> FALSE]
  <2>1. n > Last /\ n \in Nat
    BY <1>1, <1>2, <1>8
  <2>2. requests'[n] = [of |-> ParamsNow, status |-> "pending", cancelled |-> FALSE]
    BY <2>1, <1>3
  <2>3. ready
    BY <2>1, <1>0, <1>1
  <2>4. n = Last + 1
    BY <2>1, <2>3, <1>0, <1>1
  <2> QED
    BY <2>2, <2>3, <2>4
<1>9. ASSUME NEW n \in 1 .. k
      PROVE  requests'[n] \in [of : Params, status : {"pending", "ok", "failed"}, cancelled : BOOLEAN]
  <2>1. CASE n <= Last
    <3>1. requests[n] \in [of : Params, status : {"pending", "ok", "failed"}, cancelled : BOOLEAN]
      BY <2>1, <1>1, <1>7 DEF ListTypeOK
    <3> QED
      BY <2>1, <3>1, <1>7 DEF Cancelled
  <2>2. CASE ~(n <= Last)
    <3>1. requests'[n] = [of |-> ParamsNow, status |-> "pending", cancelled |-> FALSE]
      BY <2>2, <1>8
    <3> QED
      BY <3>1, <1>6
  <2> QED
    BY <2>1, <2>2
<1>10. list' \in [rows : Params \cup {NoRows}, loading : BOOLEAN, error : BOOLEAN, loaded : BOOLEAN,
                  version : 0 .. MaxVersion]
  BY <1>1, <1>3 DEF ListTypeOK
<1>11. ListTypeOK'
  <2>1. (query \in [search : Terms, applied : Terms, filter : Filters, page : Pages]
           /\ typing \in BOOLEAN /\ ready \in BOOLEAN)'
    BY <1>1, <1>3 DEF ListTypeOK
  <2> QED
    BY <2>1, <1>2, <1>4, <1>5, <1>9, <1>10 DEF ListTypeOK
<1>12. \A n \in Sent' : n < k => requests'[n].cancelled
  <2> SUFFICES ASSUME NEW n \in 1 .. k, n < k PROVE requests'[n].cancelled
    BY <1>4
  <2>1. n <= Last
    BY <1>0, <1>1, <1>2
  <2>2. requests[n] \in [of : Params, status : {"pending", "ok", "failed"}, cancelled : BOOLEAN]
    BY <2>1, <1>1, <1>7 DEF ListTypeOK
  <2> QED
    BY <2>1, <2>2, <1>7 DEF Cancelled
<1>13. ASSUME NEW p \in Params, NEW v \in 0 .. MaxVersion, ran' = {<<p, v, TRUE>>}
       PROVE  k \in Sent' /\ Current(k, p)'
  <2>1. <<p, v, TRUE>> = <<ParamsNow, list.version, ready>>
    BY <1>3, <1>13 DEF Deps
  <2>2. p = ParamsNow /\ ready
    BY <2>1
  <2>3. k = Last + 1 /\ k \in 1 .. k /\ ~(k <= Last)
    BY <2>2, <1>0, <1>1
  <2>4. requests'[k] = [of |-> ParamsNow, status |-> "pending", cancelled |-> FALSE]
    BY <2>3, <1>8
  <2>5. list'.loading = TRUE
    <3>1. list' = [list EXCEPT !.loading = TRUE]
      BY <2>2, <1>3
    <3>2. list \in [rows : Params \cup {NoRows}, loading : BOOLEAN, error : BOOLEAN, loaded : BOOLEAN,
                    version : 0 .. MaxVersion]
      BY <1>1 DEF ListTypeOK
    <3> QED
      BY <3>1, <3>2
  <2>6. requests'[k].of = p /\ requests'[k].status = "pending" /\ ~requests'[k].cancelled
    BY <2>2, <2>4
  <2>7. Current(k, p)'
    BY <2>5, <2>6 DEF Current
  <2> QED
    BY <2>3, <2>7, <1>4
<1>14. Last' = k /\ Sent' = 1 .. Last'
  BY <1>4, <1>5
<1>15. \A n \in Sent' : n < Last' => requests'[n].cancelled
  BY <1>12, <1>14
<1>16. ASSUME NEW p \in Params, NEW v \in 0 .. MaxVersion, ran' = {<<p, v, TRUE>>}
       PROVE  Last' \in Sent' /\ Current(Last, p)'
  BY <1>13, <1>14, <1>16 DEF Current
<1> QED
  BY <1>11, <1>14, <1>15, <1>16 DEF ListInv

\* An answer: it is taken if its request is the last, and dropped otherwise.
LEMMA ListAnswered ==
  ASSUME ListInv, NEW n \in Sent, Succeeds(n) \/ Fails(n)
  PROVE  ListInv'
<1> USE ListAssumption
<1>1. ListTypeOK /\ Sent = 1 .. Last /\ Last \in Nat
  BY DEF ListInv, ListTypeOK
<1>2. PICK status \in {"ok", "failed"} : requests' = [requests EXCEPT ![n].status = status]
  BY DEF Succeeds, Fails
<1>3. Sent' = Sent /\ Last' = Last
  BY <1>2 DEF Sent, Last
<1>4. requests[n] \in [of : Params, status : {"pending", "ok", "failed"}, cancelled : BOOLEAN]
  BY <1>1 DEF ListTypeOK
<1>5. requests'[n] = [requests[n] EXCEPT !.status = status]
  BY <1>2 DEF Sent
<1>6. \A j \in Sent : j # n => requests'[j] = requests[j]
  BY <1>2 DEF Sent
<1>7. list \in [rows : Params \cup {NoRows}, loading : BOOLEAN, error : BOOLEAN, loaded : BOOLEAN,
                version : 0 .. MaxVersion]
  BY <1>1 DEF ListTypeOK
<1>8. list' \in [rows : Params \cup {NoRows}, loading : BOOLEAN, error : BOOLEAN, loaded : BOOLEAN,
                 version : 0 .. MaxVersion]
  <2>1. CASE Succeeds(n)
    BY <2>1, <1>4, <1>7 DEF Succeeds
  <2>2. CASE Fails(n)
    BY <2>2, <1>7 DEF Fails
  <2> QED
    BY <2>1, <2>2
<1>9. query' = query /\ typing' = typing /\ ready' = ready /\ ran' = ran
  BY DEF Succeeds, Fails
<1>10. ListTypeOK'
  <2>1. \A j \in Sent : requests'[j] \in [of : Params, status : {"pending", "ok", "failed"}, cancelled : BOOLEAN]
    <3>1. requests'[n] \in [of : Params, status : {"pending", "ok", "failed"}, cancelled : BOOLEAN]
      BY <1>4, <1>5
    <3> QED
      BY <3>1, <1>1, <1>6 DEF ListTypeOK
  <2>2. (query \in [search : Terms, applied : Terms, filter : Filters, page : Pages]
           /\ typing \in BOOLEAN /\ ready \in BOOLEAN)'
    BY <1>1, <1>9 DEF ListTypeOK
  <2>3. Last' \in 0 .. MaxRequests
    BY <1>1, <1>3 DEF ListTypeOK
  <2> QED
    BY <2>1, <2>2, <2>3, <1>3, <1>8 DEF ListTypeOK
<1>11. requests'[n].cancelled = requests[n].cancelled /\ requests'[n].of = requests[n].of
       /\ requests'[n].status = status
  BY <1>4, <1>5
<1>12. \A j \in Sent : j < Last => requests'[j].cancelled
  BY <1>6, <1>11 DEF ListInv
<1>13. ASSUME NEW p \in Params, NEW v \in 0 .. MaxVersion, ran = {<<p, v, TRUE>>}
       PROVE  Last \in Sent /\ Current(Last, p)'
  <2>1. Last \in Sent /\ Current(Last, p)
    BY <1>13 DEF ListInv
  <2>2. CASE n = Last
    <3>1. Taken(n) /\ requests[n].of = p
      BY <2>1, <2>2 DEF Current, Taken
    <3>2. ~list'.loading
      BY <3>1, <1>7 DEF Succeeds, Fails
    <3>3. ASSUME status = "ok" PROVE list'.rows = p
      <4>1. Succeeds(n)
        <5>1. ~Fails(n)
          <6> SUFFICES ASSUME Fails(n) PROVE FALSE
            OBVIOUS
          <6>1. requests'[n] = [requests[n] EXCEPT !.status = "failed"]
            BY DEF Fails, Sent
          <6>2. requests'[n].status = "failed"
            BY <6>1, <1>4
          <6> QED
            BY <6>2, <1>11, <3>3
        <5> QED
          BY <5>1
      <4> QED
        BY <4>1, <3>1, <1>7 DEF Succeeds
    <3>4. requests'[n].of = p /\ ~requests'[n].cancelled /\ requests'[n].status = status
      BY <3>1, <1>11 DEF Taken
    <3>5. status # "pending"
      OBVIOUS
    <3>6. list'.loading \in BOOLEAN
      BY <1>8
    <3>7. list'.loading = (requests'[n].status = "pending")
      BY <3>2, <3>4, <3>5, <3>6
    <3>8. Current(Last, p)'
      BY <2>2, <3>3, <3>4, <3>7, <1>3 DEF Current
    <3> QED
      BY <2>1, <3>8
  <2>3. CASE n # Last
    <3>1. n < Last
      BY <2>3, <1>1
    <3>2. ~Taken(n)
      BY <3>1 DEF ListInv, Taken
    <3>3. list' = list
      BY <3>2 DEF Succeeds, Fails
    <3>4. requests'[Last] = requests[Last]
      BY <2>1, <2>3, <1>6
    <3>5. Current(Last, p)'
      BY <2>1, <3>3, <3>4, <1>3 DEF Current
    <3> QED
      BY <2>1, <3>5
  <2> QED
    BY <2>2, <2>3
<1> QED
  BY <1>1, <1>3, <1>9, <1>10, <1>12, <1>13 DEF ListInv

LEMMA ListStep == ListInv /\ [ListNext]_listVars => ListInv'
<1> SUFFICES ASSUME ListInv, [ListNext]_listVars PROVE ListInv'
  OBVIOUS
<1> USE ListAssumption
<1>1. ListTypeOK
  BY DEF ListInv
<1>2. 1 \in Pages
  BY DEF Pages
<1>3. ASSUME requests' = requests, ran' = ran, list' = list,
             query' \in [search : Terms, applied : Terms, filter : Filters, page : Pages],
             typing' \in BOOLEAN, ready' \in BOOLEAN
      PROVE  ListInv'
  <2>1. ListTypeOK'
    BY <1>1, <1>3, ListTypesStay DEF ListTypeOK
  <2> QED
    BY <1>3, <2>1, ListStays
<1>4. query \in [search : Terms, applied : Terms, filter : Filters, page : Pages]
      /\ typing \in BOOLEAN /\ ready \in BOOLEAN
  BY <1>1 DEF ListTypeOK
<1>5. ASSUME NEW t \in Terms, NEW f \in Filters, NEW p \in Pages, Restore(t, f, p) PROVE ListInv'
  BY <1>3, <1>4, <1>5 DEF Restore
<1>6. ASSUME NEW t \in Terms, Type(t) PROVE ListInv'
  BY <1>3, <1>4, <1>6 DEF Type
<1>7. ASSUME NEW f \in Filters, SetFilter(f) PROVE ListInv'
  BY <1>2, <1>3, <1>4, <1>7 DEF SetFilter
<1>8. ASSUME NEW p \in Pages, SetPage(p) PROVE ListInv'
  BY <1>3, <1>4, <1>8 DEF SetPage
<1>9. CASE ApplySearch
  BY <1>2, <1>3, <1>4, <1>9 DEF ApplySearch
<1>10. CASE DismissError \/ Reload
  <2>1. list \in [rows : Params \cup {NoRows}, loading : BOOLEAN, error : BOOLEAN, loaded : BOOLEAN,
                  version : 0 .. MaxVersion]
    BY <1>1 DEF ListTypeOK
  <2>2. query' = query /\ typing' = typing /\ ready' = ready /\ ran' = ran /\ requests' = requests
    BY <1>10 DEF DismissError, Reload
  <2>3. list'.loading = list.loading /\ list'.rows = list.rows
    BY <1>10, <2>1 DEF DismissError, Reload
  <2>4. list' \in [rows : Params \cup {NoRows}, loading : BOOLEAN, error : BOOLEAN, loaded : BOOLEAN,
                   version : 0 .. MaxVersion]
    <3>1. CASE DismissError
      BY <3>1, <2>1 DEF DismissError
    <3>2. CASE Reload
      <4>1. list.version \in Nat /\ list.version + 1 \in 0 .. MaxVersion
        BY <3>2, <2>1 DEF Reload
      <4> QED
        BY <3>2, <4>1, <2>1 DEF Reload
    <3> QED
      BY <1>10, <3>1, <3>2
  <2>5. ListTypeOK'
    BY <1>1, <1>4, <2>2, <2>4, ListTypesStay DEF ListTypeOK
  <2> QED
    BY <2>2, <2>3, <2>5, ListStays
<1>11. CASE RunEffect
  BY <1>11, ListRuns
<1>12. ASSUME NEW n \in Sent, Succeeds(n) \/ Fails(n) PROVE ListInv'
  BY <1>12, ListAnswered
<1>13. CASE UNCHANGED listVars
  BY <1>3, <1>4, <1>13 DEF listVars
<1> QED
  BY <1>5, <1>6, <1>7, <1>8, <1>9, <1>10, <1>11, <1>12, <1>13 DEF ListNext

\* The query, the rows and the requests have their types.
THEOREM ListTypeCorrect == ListSpec => []ListTypeOK
<1>1. ListInv => ListTypeOK
  BY DEF ListInv
<1> QED
  BY <1>1, ListInitially, ListStep, PTL DEF ListSpec

\* For any number of requests, pages and reloads: a list that caught up with
\* what was asked says it is loading just while its request is out, and then
\* shows the answer to it; a late answer of an older request never shows.
THEOREM ListIsHonestCorrect == ListSpec => []ListIsHonest
<1>1. ListInv => ListIsHonest
  <2> SUFFICES ASSUME ListInv, ran = Deps, ready
               PROVE  /\ list.loading = (requests[Last].status = "pending")
                      /\ requests[Last].status = "ok" => list.rows = ParamsNow
    BY DEF ListIsHonest
  <2>1. ParamsNow \in Params
    BY ParamsTyped DEF ListInv
  <2>2. list.version \in 0 .. MaxVersion
    BY DEF ListInv, ListTypeOK
  <2>3. ready = TRUE
    BY DEF ListInv, ListTypeOK
  <2>4. ran = {<<ParamsNow, list.version, TRUE>>}
    BY <2>3 DEF Deps
  <2>5. Current(Last, ParamsNow)
    BY <2>1, <2>2, <2>4 DEF ListInv
  <2> QED
    BY <2>5 DEF Current
<1> QED
  BY <1>1, ListInitially, ListStep, PTL DEF ListSpec

-----------------------------------------------------------------------------
(* AddressBook: one default.                                               *)

\* Types, with the heirs left out: a removal promotes only what it finds.
Deeds == {"idle", "clear", "lock", "write", "find heir", "promote", "remove", "done"}
BookTyped ==
  /\ book \in [AddressIds -> {"unsaved", "plain", "default", "removed"}]
  /\ deed \in [AddressCalls -> Deeds]
  /\ target \in [AddressCalls -> 0 .. MaxSaved]
  /\ sets \in [AddressCalls -> BOOLEAN]
  /\ unset \in [AddressCalls -> SUBSET AddressIds]
  /\ heir \in [AddressCalls -> 0 .. MaxSaved]
  /\ late \in [AddressCalls -> BOOLEAN]
  /\ torn \in BOOLEAN /\ lateSaves \subseteq AddressIds

\* What a call relies on is so as long as nobody else has committed.
CallHolds(k) ==
  ~late[k] =>
    /\ deed[k] = "idle" => unset[k] = {}
    /\ deed[k] = "clear" => sets[k]
    /\ deed[k] = "lock" => sets[k] /\ unset[k] = Defaults
    /\ deed[k] = "write" /\ sets[k] => unset[k] = Defaults
    /\ deed[k] = "write" /\ ~sets[k] => unset[k] = {} /\ target[k] = 0 /\ Saved # {}
    /\ deed[k] \in {"clear", "lock", "write"} /\ target[k] = 0 => Cardinality(Saved) < MaxAddresses
    /\ deed[k] = "remove" => target[k] \notin Defaults
    /\ deed[k] = "find heir" => target[k] \in Defaults
    /\ deed[k] = "promote" => /\ target[k] \in Defaults
                              /\ IF Saved \ {target[k]} = {} THEN heir[k] = 0 ELSE heir[k] \in Saved \ {target[k]}

\* The rows a call has written are there, and nobody else has written them.
RowsHeld(k) ==
  /\ deed[k] = "idle" => unset[k] = {}
  /\ deed[k] \in {"idle", "find heir", "remove"} => heir[k] = 0
  /\ Uncommitted(k) \subseteq Saved
  /\ \A j \in AddressCalls \ {k} : Uncommitted(j) \cap Uncommitted(k) = {}

HasOne == IF Saved = {} THEN Defaults = {} ELSE \E n \in AddressIds : Defaults = {n}
FewSaved == Cardinality(Saved \ lateSaves) <= MaxAddresses

BookInv ==
  /\ BookTyped
  /\ ~torn => HasOne
  /\ FewSaved
  /\ \A k \in AddressCalls : CallHolds(k) /\ RowsHeld(k)

LEMMA IdsFinite == IsFiniteSet(AddressIds) /\ \A S \in SUBSET AddressIds : IsFiniteSet(S) /\ Cardinality(S) \in Nat
<1>1. IsFiniteSet(AddressIds)
  BY AddressAssumption, FS_Interval DEF AddressIds
<1> QED
  BY <1>1, FS_Subset, FS_CardinalityType

LEMMA BookBegins == BookInit => BookInv
<1> SUFFICES ASSUME BookInit PROVE BookInv
  OBVIOUS
<1>1. PICK count \in 0 .. MaxAddresses :
        book \in {[n \in AddressIds |-> IF n > count THEN "unsaved" ELSE IF n = d THEN "default" ELSE "plain"] :
                   d \in {n \in AddressIds : n <= count}} \cup {[n \in AddressIds |-> "unsaved"]}
  BY DEF BookInit
<1>2. /\ deed = [k \in AddressCalls |-> "idle"] /\ target = [k \in AddressCalls |-> 0]
      /\ sets = [k \in AddressCalls |-> FALSE] /\ unset = [k \in AddressCalls |-> {}]
      /\ heir = [k \in AddressCalls |-> 0] /\ late = [k \in AddressCalls |-> FALSE]
      /\ torn = FALSE /\ lateSaves = {}
  BY DEF BookInit
<1>3. \A k \in AddressCalls : CallHolds(k)
  BY <1>2 DEF CallHolds
<1>4. MaxSaved \in Nat /\ MaxAddresses \in Nat
  BY AddressAssumption
<1>r. \A k \in AddressCalls : RowsHeld(k)
  BY <1>2 DEF RowsHeld, Uncommitted
<1>5. BookTyped
  <2>1. book \in [AddressIds -> {"unsaved", "plain", "default", "removed"}]
    BY <1>1
  <2>2. 0 \in 0 .. MaxSaved
    BY <1>4
  <2>3. deed \in [AddressCalls -> Deeds]
    BY <1>2 DEF Deeds
  <2> QED
    BY <1>2, <2>1, <2>2, <2>3 DEF BookTyped
<1>6. HasOne
  <2>1. CASE book = [n \in AddressIds |-> "unsaved"]
    <3>1. Saved = {} /\ Defaults = {}
      BY <2>1 DEF Saved, Defaults
    <3> QED
      BY <3>1 DEF HasOne
  <2>2. ASSUME NEW d \in AddressIds, d <= count,
               book = [n \in AddressIds |-> IF n > count THEN "unsaved" ELSE IF n = d THEN "default" ELSE "plain"]
        PROVE  HasOne
    <3>1. count \in Nat /\ d \in Nat /\ ~(d > count)
      BY <1>4, <2>2 DEF AddressIds
    <3>2. Defaults = {d} /\ d \in Saved
      BY <2>2, <3>1 DEF Saved, Defaults
    <3> QED
      BY <3>2 DEF HasOne
  <2> QED
    BY <1>1, <2>1, <2>2
<1>7. FewSaved
  <2>1. Saved \subseteq 1 .. count /\ count \in Nat /\ Saved \ lateSaves = Saved
    BY <1>1, <1>2, <1>4 DEF Saved, AddressIds
  <2>2. IsFiniteSet(1 .. count) /\ Cardinality(1 .. count) = count
    BY <2>1, FS_Interval
  <2>3. Cardinality(Saved) <= count
    BY <2>1, <2>2, FS_Subset
  <2>4. Saved \subseteq AddressIds
    BY DEF Saved
  <2> QED
    BY <1>1, <1>4, <2>1, <2>3, <2>4, IdsFinite DEF FewSaved
<1> QED
  BY <1>3, <1>5, <1>6, <1>7, <1>r DEF BookInv

\* A call goes on, and the committed addresses stay.
LEMMA CallGoesOn ==
  ASSUME BookInv, NEW k \in AddressCalls, BookTyped', UNCHANGED <<book, late, bookHistory>>,
         \A j \in AddressCalls \ {k} : /\ deed'[j] = deed[j] /\ target'[j] = target[j] /\ sets'[j] = sets[j]
                                       /\ unset'[j] = unset[j] /\ heir'[j] = heir[j],
         CallHolds(k)', RowsHeld(k)'
  PROVE  BookInv'
<1>1. book' = book /\ late' = late /\ torn' = torn /\ lateSaves' = lateSaves
  BY DEF bookHistory
<1>2. Saved' = Saved /\ Defaults' = Defaults
  BY <1>1 DEF Saved, Defaults
<1>3. (~torn => HasOne)' /\ FewSaved'
  BY <1>1, <1>2 DEF BookInv, HasOne, FewSaved
<1>4. ASSUME NEW j \in AddressCalls \ {k} PROVE CallHolds(j)'
  BY <1>1, <1>2 DEF BookInv, CallHolds
<1>5. \A j \in AddressCalls \ {k} : Uncommitted(j)' = Uncommitted(j)
  BY DEF Uncommitted
<1>6. ASSUME NEW j \in AddressCalls \ {k} PROVE RowsHeld(j)'
  <2>1. RowsHeld(j)
    BY DEF BookInv
  <2>2. deed'[j] = deed[j] /\ unset'[j] = unset[j] /\ heir'[j] = heir[j]
    OBVIOUS
  <2>3. Uncommitted(j)' \subseteq Saved'
    BY <1>2, <1>5, <2>1 DEF RowsHeld
  <2>4. ASSUME NEW i \in AddressCalls \ {j} PROVE Uncommitted(i)' \cap Uncommitted(j)' = {}
    <3>1. CASE i = k
      <4>1. Uncommitted(j)' \cap Uncommitted(k)' = {}
        BY DEF RowsHeld
      <4> QED
        BY <3>1, <4>1
    <3>2. CASE i # k
      <4>1. Uncommitted(i)' = Uncommitted(i) /\ Uncommitted(j)' = Uncommitted(j)
        BY <1>5, <3>2
      <4>2. Uncommitted(i) \cap Uncommitted(j) = {}
        BY <2>1 DEF RowsHeld
      <4> QED
        BY <4>1, <4>2
    <3> QED
      BY <3>1, <3>2
  <2> QED
    BY <2>1, <2>2, <2>3, <2>4 DEF RowsHeld
<1> QED
  BY <1>3, <1>4, <1>6 DEF BookInv

\* A call commits: what the others have read may be old.
LEMMA CallCommits ==
  ASSUME BookInv, NEW k \in AddressCalls, BookTyped',
         Turns(k, "done"), late' = [j \in AddressCalls |-> late[j] \/ deed[j] \notin {"idle", "done"}],
         UNCHANGED callReads, (~torn => HasOne)', FewSaved',
         \A j \in AddressCalls \ {k} : Uncommitted(j) \subseteq Saved'
  PROVE  BookInv'
<1>1. deed \in [AddressCalls -> Deeds]
  BY DEF BookInv, BookTyped
<1>2. deed'[k] = "done" /\ \A j \in AddressCalls \ {k} : deed'[j] = deed[j]
  BY <1>1 DEF Turns
<1>3. unset' = unset
  BY DEF callReads
<1>4. ASSUME NEW j \in AddressCalls PROVE CallHolds(j)'
  <2>1. CASE late'[j]
    BY <2>1 DEF CallHolds
  <2>2. CASE ~late'[j]
    <3>1. deed'[j] \in {"idle", "done"} /\ ~late[j]
      BY <1>2, <2>2
    <3>2. deed'[j] = "idle" => deed[j] = "idle"
      BY <1>2
    <3>3. CallHolds(j)
      BY DEF BookInv
    <3>4. deed'[j] = "idle" => unset'[j] = {}
      BY <1>3, <3>1, <3>2, <3>3 DEF CallHolds
    <3> QED
      BY <3>1, <3>4 DEF CallHolds
  <2> QED
    BY <2>1, <2>2
<1>5. Uncommitted(k)' = {} /\ \A j \in AddressCalls \ {k} : Uncommitted(j)' = Uncommitted(j)
  BY <1>2 DEF Uncommitted, callReads
<1>6. ASSUME NEW j \in AddressCalls PROVE RowsHeld(j)'
  <2>1. RowsHeld(j)
    BY DEF BookInv
  <2>2. deed'[j] = "idle" => deed[j] = "idle"
    BY <1>2
  <2>3. heir' = heir /\ (deed'[j] \in {"idle", "find heir", "remove"} => deed'[j] = deed[j])
    BY <1>2 DEF callReads
  <2> QED
    BY <1>3, <1>5, <2>1, <2>2, <2>3 DEF RowsHeld
<1> QED
  BY <1>4, <1>6 DEF BookInv

\* A call reads, waits for rows it gets hold of, or fails.
LEMMA CallReadsStep ==
  ASSUME BookInv, NEW k \in AddressCalls,
         \/ \E wanted \in BOOLEAN : CountAddresses(k, wanted)
         \/ \E n \in AddressIds : FindToDefault(k, n) \/ FindToRemove(k, n)
         \/ FindDefaults(k) \/ ClearDefaults(k) \/ FindHeir(k) \/ AddressCallFails(k)
  PROVE  BookInv'
<1>1. BookTyped /\ CallHolds(k) /\ MaxSaved \in Nat /\ RowsHeld(k)
  BY AddressAssumption DEF BookInv
<1>2. /\ deed \in [AddressCalls -> Deeds] /\ target \in [AddressCalls -> 0 .. MaxSaved]
      /\ sets \in [AddressCalls -> BOOLEAN] /\ unset \in [AddressCalls -> SUBSET AddressIds]
      /\ heir \in [AddressCalls -> 0 .. MaxSaved]
  BY <1>1 DEF BookTyped
<1>3. AddressIds \subseteq 0 .. MaxSaved /\ 0 \in 0 .. MaxSaved /\ 0 \notin AddressIds
  BY <1>1 DEF AddressIds
<1>4. ASSUME NEW n \in 0 .. MaxSaved, NEW b \in BOOLEAN, NEW next \in Deeds, StartOn(k, n, b, next),
             next = "clear" => b,
             next = "write" => ~b /\ n = 0 /\ Saved # {},
             next \in {"clear", "write"} /\ n = 0 => Cardinality(Saved) < MaxAddresses,
             next = "remove" => n \notin Defaults,
             next = "find heir" => n \in Defaults,
             next \notin {"idle", "lock", "promote"}
      PROVE  BookInv'
  <2>1. /\ deed[k] = "idle"
        /\ target' = [target EXCEPT ![k] = n] /\ sets' = [sets EXCEPT ![k] = b] /\ deed' = [deed EXCEPT ![k] = next]
        /\ book' = book /\ unset' = unset /\ heir' = heir /\ late' = late /\ UNCHANGED bookHistory
    BY <1>4 DEF StartOn, Turns
  <2>2. BookTyped'
    BY <1>1, <1>2, <2>1 DEF BookTyped, bookHistory
  <2>3. Saved' = Saved /\ Defaults' = Defaults
    BY <2>1 DEF Saved, Defaults
  <2>4. ~late[k] => unset[k] = {}
    BY <1>1, <2>1 DEF CallHolds
  <2>5. target'[k] = n /\ sets'[k] = b /\ deed'[k] = next /\ unset'[k] = unset[k] /\ late'[k] = late[k]
    BY <1>2, <2>1
  <2>6. CallHolds(k)'
    BY <1>4, <2>3, <2>4, <2>5 DEF CallHolds
  <2>7. \A j \in AddressCalls \ {k} : /\ deed'[j] = deed[j] /\ target'[j] = target[j] /\ sets'[j] = sets[j]
                                      /\ unset'[j] = unset[j] /\ heir'[j] = heir[j]
    BY <1>2, <2>1
  <2>8. next = "write" => unset[k] = {}
    BY <1>1, <2>1 DEF RowsHeld
  <2>h. heir'[k] = 0
    BY <1>1, <2>1 DEF RowsHeld
  <2>9. RowsHeld(k)'
    BY <1>4, <2>5, <2>8, <2>h DEF RowsHeld, Uncommitted
  <2> QED
    BY <2>1, <2>2, <2>6, <2>7, <2>9, CallGoesOn
<1>5. ASSUME NEW wanted \in BOOLEAN, CountAddresses(k, wanted) PROVE BookInv'
  <2>1. PICK b \in BOOLEAN : b = MakesDefault(Saved = {}, wanted)
    BY DEF MakesDefault
  <2>2. Cardinality(Saved) < MaxAddresses /\ StartOn(k, 0, b, IF b THEN "clear" ELSE "write")
    BY <1>5, <2>1 DEF CountAddresses
  <2>3. Saved = {} => b
    BY <2>1 DEF MakesDefault
  <2>4. CASE b
    <3>1. StartOn(k, 0, TRUE, "clear") /\ "clear" \in Deeds
      BY <2>2, <2>4 DEF Deeds
    <3> QED
      BY <1>3, <1>4, <2>2, <3>1
  <2>5. CASE ~b
    <3>1. StartOn(k, 0, FALSE, "write") /\ "write" \in Deeds
      BY <2>2, <2>5 DEF Deeds
    <3> QED
      BY <1>3, <1>4, <2>2, <2>3, <2>5, <3>1
  <2> QED
    BY <2>4, <2>5
<1>6. ASSUME NEW n \in AddressIds, FindToDefault(k, n) PROVE BookInv'
  <2>1. StartOn(k, n, TRUE, "clear") /\ "clear" \in Deeds /\ n # 0
    BY <1>3, <1>6 DEF FindToDefault, Deeds
  <2> QED
    BY <1>3, <1>4, <2>1
<1>7. ASSUME NEW n \in AddressIds, FindToRemove(k, n) PROVE BookInv'
  <2>1. CASE n \in Defaults
    <3>1. StartOn(k, n, FALSE, "find heir") /\ "find heir" \in Deeds
      BY <1>7, <2>1 DEF FindToRemove, Deeds
    <3> QED
      BY <1>3, <1>4, <2>1, <3>1
  <2>2. CASE n \notin Defaults
    <3>1. StartOn(k, n, FALSE, "remove") /\ "remove" \in Deeds
      BY <1>7, <2>2 DEF FindToRemove, Deeds
    <3> QED
      BY <1>3, <1>4, <2>2, <3>1
  <2> QED
    BY <2>1, <2>2
<1>8. ASSUME FindDefaults(k) PROVE BookInv'
  <2>1. /\ deed[k] = "clear" /\ deed' = [deed EXCEPT ![k] = "lock"] /\ unset' = [unset EXCEPT ![k] = Defaults]
        /\ book' = book /\ target' = target /\ sets' = sets /\ heir' = heir /\ late' = late /\ UNCHANGED bookHistory
    BY <1>8 DEF FindDefaults, Turns
  <2>2. Defaults \subseteq AddressIds
    BY DEF Defaults
  <2>3. BookTyped'
    BY <1>1, <1>2, <2>1, <2>2 DEF BookTyped, bookHistory, Deeds
  <2>4. Saved' = Saved /\ Defaults' = Defaults
    BY <2>1 DEF Saved, Defaults
  <2>5. deed'[k] = "lock" /\ unset'[k] = Defaults
    BY <1>2, <2>1, <2>2
  <2>6. CallHolds(k)'
    BY <1>1, <2>1, <2>4, <2>5 DEF CallHolds
  <2>7. \A j \in AddressCalls \ {k} : deed'[j] = deed[j] /\ unset'[j] = unset[j]
    BY <1>2, <2>1
  <2>8. RowsHeld(k)'
    BY <2>5 DEF RowsHeld, Uncommitted
  <2> QED
    BY <2>1, <2>3, <2>6, <2>7, <2>8, CallGoesOn
<1>9. ASSUME ClearDefaults(k) PROVE BookInv'
  <2>1. /\ deed[k] = "lock" /\ deed' = [deed EXCEPT ![k] = "write"] /\ unset' = [unset EXCEPT ![k] = @ \cap Defaults]
        /\ book' = book /\ target' = target /\ sets' = sets /\ heir' = heir /\ late' = late /\ UNCHANGED bookHistory
    BY <1>9 DEF ClearDefaults, Turns
  <2>2. Defaults \subseteq AddressIds
    BY DEF Defaults
  <2>3. BookTyped'
    BY <1>1, <1>2, <2>1, <2>2 DEF BookTyped, bookHistory, Deeds
  <2>4. Saved' = Saved /\ Defaults' = Defaults
    BY <2>1 DEF Saved, Defaults
  <2>5. deed'[k] = "write" /\ unset'[k] = unset[k] \cap Defaults
    BY <1>2, <2>1
  <2>6. CallHolds(k)'
    BY <1>1, <2>1, <2>4, <2>5 DEF CallHolds
  <2>7. \A j \in AddressCalls \ {k} : deed'[j] = deed[j] /\ unset'[j] = unset[j]
    BY <1>2, <2>1
  <2>8. \A n \in unset[k] \cap Saved : \A j \in AddressCalls \ {k} : n \notin Uncommitted(j)
    BY <1>9 DEF ClearDefaults, Reaches
  <2>9. Defaults \subseteq Saved
    BY DEF Defaults, Saved
  <2>10. Uncommitted(k)' = unset[k] \cap Defaults /\ \A j \in AddressCalls \ {k} : Uncommitted(j)' = Uncommitted(j)
    BY <2>1, <2>5, <2>7 DEF Uncommitted
  <2>11. RowsHeld(k)'
    BY <2>4, <2>5, <2>8, <2>9, <2>10 DEF RowsHeld
  <2> QED
    BY <2>1, <2>3, <2>6, <2>7, <2>11, CallGoesOn
<1>10. ASSUME FindHeir(k) PROVE BookInv'
  <2>1. PICK others : others = Saved \ {target[k]}
    OBVIOUS
  <2>2. PICK n \in IF others = {} THEN {0} ELSE {m \in others : \A o \in others : o <= m} :
          heir' = [heir EXCEPT ![k] = n]
    BY <1>10, <2>1 DEF FindHeir
  <2>3. /\ deed[k] = "find heir" /\ deed' = [deed EXCEPT ![k] = "promote"]
        /\ book' = book /\ target' = target /\ sets' = sets /\ unset' = unset /\ late' = late /\ UNCHANGED bookHistory
    BY <1>10 DEF FindHeir, Turns
  <2>4. Saved \subseteq AddressIds
    BY DEF Saved
  <2>5. n \in 0 .. MaxSaved /\ IF others = {} THEN n = 0 ELSE n \in others
    BY <1>3, <2>1, <2>2, <2>4
  <2>6. BookTyped'
    BY <1>1, <1>2, <2>2, <2>3, <2>5 DEF BookTyped, bookHistory, Deeds
  <2>7. Saved' = Saved /\ Defaults' = Defaults
    BY <2>3 DEF Saved, Defaults
  <2>8. deed'[k] = "promote" /\ heir'[k] = n /\ target'[k] = target[k]
    BY <1>2, <2>2, <2>3
  <2>9. CallHolds(k)'
    BY <1>1, <2>1, <2>3, <2>5, <2>7, <2>8 DEF CallHolds
  <2>10. \A j \in AddressCalls \ {k} : deed'[j] = deed[j] /\ heir'[j] = heir[j]
    BY <1>2, <2>2, <2>3
  <2>11. target[k] \in Saved /\ \A j \in AddressCalls \ {k} : target[k] \notin Uncommitted(j)
    BY <1>10 DEF FindHeir, Reaches
  <2>12. Uncommitted(k)' = {target[k]} /\ \A j \in AddressCalls \ {k} : Uncommitted(j)' = Uncommitted(j)
    BY <2>3, <2>8, <2>10 DEF Uncommitted
  <2>13. RowsHeld(k)'
    BY <2>7, <2>8, <2>11, <2>12 DEF RowsHeld
  <2> QED
    BY <2>3, <2>6, <2>9, <2>10, <2>13, CallGoesOn
<1>11. ASSUME AddressCallFails(k) PROVE BookInv'
  <2>1. /\ deed' = [deed EXCEPT ![k] = "done"]
        /\ book' = book /\ target' = target /\ sets' = sets /\ unset' = unset /\ heir' = heir /\ late' = late
        /\ UNCHANGED bookHistory
    BY <1>11 DEF AddressCallFails, Turns, callReads
  <2>2. BookTyped'
    BY <1>1, <1>2, <2>1 DEF BookTyped, bookHistory, Deeds
  <2>3. deed'[k] = "done" /\ \A j \in AddressCalls \ {k} : deed'[j] = deed[j]
    BY <1>2, <2>1
  <2>4. CallHolds(k)'
    BY <2>3 DEF CallHolds
  <2>5. RowsHeld(k)'
    BY <2>3 DEF RowsHeld, Uncommitted
  <2> QED
    BY <2>1, <2>2, <2>3, <2>4, <2>5, CallGoesOn
<1> QED
  BY <1>5, <1>6, <1>7, <1>8, <1>9, <1>10, <1>11

\* An address is saved.
LEMMA SaveStep == ASSUME BookInv, NEW k \in AddressCalls, SaveAddress(k) PROVE BookInv'
<1>1. BookTyped /\ CallHolds(k) /\ (~torn => HasOne) /\ FewSaved /\ MaxAddresses \in Nat
  BY AddressAssumption DEF BookInv
<1>2. PICK n \in NextAddress : /\ Committed(k, n, IF sets[k] THEN "default" ELSE "plain")
                               /\ lateSaves' = IF late[k] THEN lateSaves \cup {n} ELSE lateSaves
  BY DEF SaveAddress
<1>3. deed[k] = "write" /\ target[k] = 0 /\ n \in AddressIds /\ book[n] = "unsaved"
  BY DEF SaveAddress, NextAddress
<1>4. PICK value : value = IF sets[k] THEN "default" ELSE "plain"
  OBVIOUS
<1>5. /\ book' = [m \in AddressIds |-> IF m = n THEN value ELSE IF m \in unset[k] THEN "plain" ELSE book[m]]
      /\ Turns(k, "done")
      /\ late' = [j \in AddressCalls |-> late[j] \/ deed[j] \notin {"idle", "done"}]
      /\ torn' = (late[k] \/ (torn /\ ~sets[k]))
      /\ UNCHANGED callReads
  BY <1>2, <1>4 DEF Committed
<1>6. BookTyped'
  <2>1. book' \in [AddressIds -> {"unsaved", "plain", "default", "removed"}]
    BY <1>1, <1>4, <1>5 DEF BookTyped
  <2>2. deed' \in [AddressCalls -> Deeds]
    BY <1>1, <1>5 DEF BookTyped, Turns, Deeds
  <2>3. late' \in [AddressCalls -> BOOLEAN]
    BY <1>1, <1>5 DEF BookTyped
  <2>4. torn' \in BOOLEAN /\ lateSaves' \subseteq AddressIds
    BY <1>1, <1>2, <1>3, <1>5 DEF BookTyped
  <2> QED
    BY <1>1, <1>5, <2>1, <2>2, <2>3, <2>4 DEF BookTyped, callReads
<1>7. n \notin Saved /\ n \notin Defaults /\ Defaults \subseteq Saved /\ Saved \subseteq AddressIds
  BY <1>3 DEF Saved, Defaults
<1>8. (~torn => HasOne)'
  <2> SUFFICES ASSUME ~torn' PROVE HasOne'
    OBVIOUS
  <2>1. ~late[k] /\ (torn => sets[k])
    BY <1>1, <1>5 DEF BookTyped
  <2>2. n \in Saved'
    BY <1>3, <1>4, <1>5 DEF Saved
  <2>3. CASE sets[k]
    <3>1. unset[k] = Defaults /\ value = "default"
      BY <1>1, <1>3, <1>4, <2>1, <2>3 DEF CallHolds
    <3>2. Defaults' = {n}
      BY <1>3, <1>5, <3>1 DEF Defaults
    <3> QED
      BY <1>3, <2>2, <3>2 DEF HasOne
  <2>4. CASE ~sets[k]
    <3>1. unset[k] = {} /\ Saved # {} /\ value = "plain" /\ HasOne
      BY <1>1, <1>3, <1>4, <2>1, <2>4 DEF CallHolds
    <3>2. Defaults' = Defaults
      BY <1>3, <1>5, <3>1 DEF Defaults
    <3> QED
      BY <2>2, <3>1, <3>2 DEF HasOne
  <2> QED
    BY <2>3, <2>4
<1>9. Saved' = Saved \cup {n}
  <2>1. unset[k] \subseteq Saved
    BY <1>3 DEF BookInv, RowsHeld, Uncommitted
  <2>2. \A m \in AddressIds : m \in Saved' <=> m = n \/ m \in Saved
    BY <1>4, <1>5, <2>1 DEF Saved
  <2> QED
    BY <1>3, <2>2 DEF Saved
<1>10. FewSaved'
  <2>1. CASE late[k]
    <3>1. Saved' \ lateSaves' = (Saved \ lateSaves) \ {n}
      BY <1>2, <1>9, <2>1
    <3>2. Saved' \ lateSaves' = Saved \ lateSaves
      BY <1>7, <3>1
    <3> QED
      BY <1>1, <3>2 DEF FewSaved
  <2>2. CASE ~late[k]
    <3>1. Cardinality(Saved) < MaxAddresses
      BY <1>1, <1>3, <2>2 DEF CallHolds
    <3>2. IsFiniteSet(Saved) /\ Cardinality(Saved) \in Nat
      BY <1>7, IdsFinite
    <3>3. IsFiniteSet(Saved \cup {n}) /\ Cardinality(Saved \cup {n}) = Cardinality(Saved) + 1
      BY <1>7, <3>2, FS_AddElement
    <3>4. Cardinality(Saved' \ lateSaves') <= Cardinality(Saved) + 1 /\ Cardinality(Saved' \ lateSaves') \in Nat
      BY <1>9, <3>3, FS_Subset, FS_CardinalityType
    <3> QED
      BY <1>1, <3>1, <3>2, <3>4 DEF FewSaved
  <2> QED
    BY <2>1, <2>2
<1>11. \A j \in AddressCalls \ {k} : Uncommitted(j) \subseteq Saved'
  BY <1>9 DEF BookInv, RowsHeld
<1> QED
  BY <1>5, <1>6, <1>8, <1>10, <1>11, CallCommits

\* An address is made the default.
LEMMA SetDefaultStep == ASSUME BookInv, NEW k \in AddressCalls, SetDefault(k) PROVE BookInv'
<1>1. BookTyped /\ CallHolds(k) /\ (~torn => HasOne) /\ FewSaved
  BY DEF BookInv
<1>2. PICK n : n = target[k]
  OBVIOUS
<1>3. /\ deed[k] = "write" /\ n > 0 /\ n \in Saved
      /\ book' = [m \in AddressIds |-> IF m = n THEN "default" ELSE IF m \in unset[k] THEN "plain" ELSE book[m]]
      /\ Turns(k, "done")
      /\ late' = [j \in AddressCalls |-> late[j] \/ deed[j] \notin {"idle", "done"}]
      /\ torn' = (late[k] \/ (torn /\ ~sets[k]))
      /\ UNCHANGED callReads /\ lateSaves' = lateSaves
  BY <1>2 DEF SetDefault, Reaches, Committed
<1>4. BookTyped'
  <2>1. book' \in [AddressIds -> {"unsaved", "plain", "default", "removed"}]
    BY <1>1, <1>3 DEF BookTyped
  <2>2. deed' \in [AddressCalls -> Deeds]
    BY <1>1, <1>3 DEF BookTyped, Turns, Deeds
  <2>3. late' \in [AddressCalls -> BOOLEAN]
    BY <1>1, <1>3 DEF BookTyped
  <2>4. torn' \in BOOLEAN /\ lateSaves' \subseteq AddressIds
    BY <1>1, <1>3 DEF BookTyped
  <2> QED
    BY <1>1, <1>3, <2>1, <2>2, <2>3, <2>4 DEF BookTyped, callReads
<1>5. Saved' = Saved
  <2>1. unset[k] \subseteq Saved
    BY <1>3 DEF BookInv, RowsHeld, Uncommitted
  <2>2. \A m \in AddressIds : m \in Saved' <=> m \in Saved
    BY <1>3, <2>1 DEF Saved
  <2> QED
    BY <2>2 DEF Saved
<1>6. (~torn => HasOne)'
  <2> SUFFICES ASSUME ~torn' PROVE HasOne'
    OBVIOUS
  <2>1. ~late[k]
    BY <1>3
  <2>2. n # 0
    BY <1>3
  <2>3. sets[k]
    BY <1>1, <1>2, <1>3, <2>1, <2>2 DEF CallHolds
  <2>4. unset[k] = Defaults
    BY <1>1, <1>3, <2>1, <2>3 DEF CallHolds
  <2>5. n \in AddressIds
    BY <1>3 DEF Saved
  <2>6. Defaults' = {n}
    BY <1>3, <2>4, <2>5 DEF Defaults
  <2> QED
    BY <1>3, <1>5, <2>5, <2>6 DEF HasOne
<1>7. FewSaved'
  BY <1>1, <1>3, <1>5 DEF FewSaved
<1>8. \A j \in AddressCalls \ {k} : Uncommitted(j) \subseteq Saved'
  BY <1>5 DEF BookInv, RowsHeld
<1> QED
  BY <1>3, <1>4, <1>6, <1>7, <1>8, CallCommits

\* An address is removed, and another one promoted.
LEMMA RemoveAddressStep == ASSUME BookInv, NEW k \in AddressCalls, RemoveAddress(k) PROVE BookInv'
<1>1. BookTyped /\ CallHolds(k) /\ (~torn => HasOne) /\ FewSaved /\ MaxAddresses \in Nat /\ RowsHeld(k)
  BY AddressAssumption DEF BookInv
<1>2. PICK n, e : n = target[k] /\ e = heir[k]
  OBVIOUS
<1>3. /\ \/ deed[k] = "remove" /\ Reaches(k, n)
         \/ deed[k] = "promote" /\ (e = 0 \/ Reaches(k, e))
      /\ book' = [m \in AddressIds |-> IF m = n THEN "removed" ELSE IF m = heir[k] THEN "default" ELSE book[m]]
      /\ Turns(k, "done")
      /\ late' = [j \in AddressCalls |-> late[j] \/ deed[j] \notin {"idle", "done"}]
      /\ torn' = (late[k] \/ torn)
      /\ UNCHANGED callReads /\ lateSaves' = lateSaves
  BY <1>2 DEF RemoveAddress
<1>4. BookTyped'
  <2>1. book' \in [AddressIds -> {"unsaved", "plain", "default", "removed"}]
    BY <1>1, <1>3 DEF BookTyped
  <2>2. deed' \in [AddressCalls -> Deeds]
    BY <1>1, <1>3 DEF BookTyped, Turns, Deeds
  <2>3. late' \in [AddressCalls -> BOOLEAN]
    BY <1>1, <1>3 DEF BookTyped
  <2>4. torn' \in BOOLEAN /\ lateSaves' \subseteq AddressIds
    BY <1>1, <1>3 DEF BookTyped
  <2> QED
    BY <1>1, <1>3, <2>1, <2>2, <2>3, <2>4 DEF BookTyped, callReads
<1>5. n \in Saved /\ \A j \in AddressCalls \ {k} : n \notin Uncommitted(j)
  <2>1. CASE deed[k] = "remove"
    BY <1>3, <2>1 DEF Reaches
  <2>2. CASE deed[k] = "promote"
    <3>1. Uncommitted(k) = {n}
      BY <1>2, <2>2 DEF Uncommitted
    <3> QED
      BY <1>1, <3>1 DEF RowsHeld
  <2> QED
    BY <1>3, <2>1, <2>2
<1>6. e = 0 \/ e \in Saved
  BY <1>1, <1>2, <1>3 DEF RowsHeld, Reaches
<1>7. 0 \notin AddressIds
  BY AddressAssumption DEF AddressIds
<1>8. Saved' = Saved \ {n}
  <2>1. \A m \in AddressIds : m \in Saved' <=> m \in Saved /\ m # n
    BY <1>2, <1>3, <1>6, <1>7 DEF Saved
  <2> QED
    BY <2>1 DEF Saved
<1>9. (~torn => HasOne)'
  <2> SUFFICES ASSUME ~torn' PROVE HasOne'
    OBVIOUS
  <2>1. ~late[k] /\ ~torn /\ HasOne
    BY <1>1, <1>3
  <2>2. PICK d \in AddressIds : Defaults = {d}
    BY <1>5, <2>1 DEF HasOne
  <2>3. CASE deed[k] = "remove"
    <3>1. n # d /\ e = 0
      BY <1>1, <1>2, <2>1, <2>2, <2>3 DEF CallHolds, RowsHeld
    <3>2. Defaults' = Defaults
      <4>1. \A m \in AddressIds : m \in Defaults' <=> m \in Defaults
        BY <1>2, <1>3, <1>7, <2>2, <3>1 DEF Defaults
      <4> QED
        BY <4>1 DEF Defaults
    <3>3. d \in Saved
      BY <2>2 DEF Saved, Defaults
    <3> QED
      BY <1>8, <2>2, <3>1, <3>2, <3>3 DEF HasOne
  <2>4. CASE deed[k] = "promote"
    <3>1. n = d /\ IF Saved \ {n} = {} THEN e = 0 ELSE e \in Saved \ {n}
      BY <1>1, <1>2, <2>1, <2>2, <2>4 DEF CallHolds
    <3>2. Defaults' = {m \in AddressIds : m # n /\ (m = e \/ m \in Defaults)}
      BY <1>2, <1>3 DEF Defaults
    <3>3. CASE Saved \ {n} = {}
      <4>1. Defaults' = {}
        BY <1>7, <2>2, <3>1, <3>2, <3>3
      <4> QED
        BY <1>8, <3>3, <4>1 DEF HasOne
    <3>4. CASE Saved \ {n} # {}
      <4>1. e \in Saved \ {n} /\ e \in AddressIds
        BY <3>1, <3>4 DEF Saved
      <4>2. Defaults' = {e}
        BY <2>2, <3>1, <3>2, <4>1
      <4> QED
        BY <1>8, <4>1, <4>2 DEF HasOne
    <3> QED
      BY <3>3, <3>4
  <2> QED
    BY <1>3, <2>3, <2>4
<1>10. FewSaved'
  <2>1. Saved' \ lateSaves' \subseteq Saved \ lateSaves /\ Saved \ lateSaves \subseteq AddressIds
    BY <1>3, <1>8 DEF Saved
  <2>2. /\ IsFiniteSet(Saved \ lateSaves) /\ Cardinality(Saved \ lateSaves) \in Nat
        /\ Cardinality(Saved' \ lateSaves') \in Nat
    BY <2>1, IdsFinite
  <2>3. Cardinality(Saved' \ lateSaves') <= Cardinality(Saved \ lateSaves)
    BY <2>1, <2>2, FS_Subset
  <2> QED
    BY <1>1, <2>2, <2>3 DEF FewSaved
<1>11. \A j \in AddressCalls \ {k} : Uncommitted(j) \subseteq Saved'
  BY <1>5, <1>8 DEF BookInv, RowsHeld
<1> QED
  BY <1>3, <1>4, <1>9, <1>10, <1>11, CallCommits

LEMMA BookStep == BookInv /\ [BookNext]_bookVars => BookInv'
<1> SUFFICES ASSUME BookInv, [BookNext]_bookVars PROVE BookInv'
  OBVIOUS
<1>1. ASSUME NEW k \in AddressCalls,
             \/ \E wanted \in BOOLEAN : CountAddresses(k, wanted)
             \/ \E n \in AddressIds : FindToDefault(k, n) \/ FindToRemove(k, n)
             \/ FindDefaults(k) \/ ClearDefaults(k) \/ SaveAddress(k) \/ SetDefault(k)
             \/ FindHeir(k) \/ RemoveAddress(k) \/ AddressCallFails(k)
      PROVE  BookInv'
  BY <1>1, CallReadsStep, SaveStep, SetDefaultStep, RemoveAddressStep
<1>2. CASE UNCHANGED bookVars
  <2>1. /\ book' = book /\ deed' = deed /\ target' = target /\ sets' = sets /\ unset' = unset /\ heir' = heir
        /\ late' = late /\ torn' = torn /\ lateSaves' = lateSaves
    BY <1>2 DEF bookVars, callReads, bookHistory
  <2>2. Saved' = Saved /\ Defaults' = Defaults
    BY <2>1 DEF Saved, Defaults
  <2>3. BookTyped' = BookTyped /\ HasOne' = HasOne /\ FewSaved' = FewSaved
    BY <2>1, <2>2 DEF BookTyped, HasOne, FewSaved
  <2>4. \A k \in AddressCalls : Uncommitted(k)' = Uncommitted(k)
    BY <2>1 DEF Uncommitted
  <2>5. \A k \in AddressCalls : CallHolds(k)' = CallHolds(k) /\ RowsHeld(k)' = RowsHeld(k)
    BY <2>1, <2>2, <2>4 DEF CallHolds, RowsHeld
  <2> QED
    BY <2>1, <2>3, <2>5 DEF BookInv
<1> QED
  BY <1>1, <1>2 DEF BookNext

\* Types of the address book, for any number of requests and any maximum.
THEOREM BookTypeCorrect == BookSpec => []BookTypeOK
<1>1. BookInv => BookTypeOK
  BY DEF BookInv, BookTyped, BookTypeOK, Deeds
<1> QED
  BY <1>1, BookBegins, BookStep, PTL DEF BookSpec

\* A user with addresses has one default and at most the maximum of them,
\* but for requests that overlapped.
THEOREM OneDefaultCorrect == BookSpec => []OneDefault
<1>1. BookInv => OneDefault
  <2> SUFFICES ASSUME BookInv PROVE OneDefault
    OBVIOUS
  <2>1. ASSUME ~torn PROVE Cardinality(Defaults) = (IF Saved = {} THEN 0 ELSE 1)
    BY <2>1, FS_EmptySet, FS_Singleton DEF BookInv, HasOne
  <2> QED
    BY <2>1 DEF BookInv, FewSaved, OneDefault
<1> QED
  BY <1>1, BookBegins, BookStep, PTL DEF BookSpec

-----------------------------------------------------------------------------
(* CouponField: the discount shown.                                        *)

CheckRecords == [by : {"apply", "effect"}, code : Codes, subtotal : 0 .. MaxSubtotal,
                 status : {"pending", "valid", "invalid"}, cancelled : BOOLEAN]
Known(n) == n > 0 => n \in Checks /\ checks[n].status = "valid"
Awaited(n) == checks[n].status = "pending" /\ ~checks[n].cancelled

CouponTyped ==
  /\ subtotal \in 0 .. MaxSubtotal
  /\ \E n \in 0 .. MaxChecks : checks \in [1 .. n -> CheckRecords]
  /\ field \in [input : Codes, applied : Nat, checking : BOOLEAN]
  /\ placing \in {"no", "sent", "locked"}
  /\ effect[1] \in Nat

\* The inductive invariant: what was applied, and what the effect ran with, was
\* answered; where the two agree and the cart had moved, an answer is awaited.
CouponInv ==
  /\ CouponTyped
  /\ Known(field.applied) /\ Known(effect[1])
  /\ \A n \in Checks : checks[n].cancelled => checks[n].by = "effect"
  /\ field.applied > 0 /\ effect[1] = field.applied /\ effect[3] = FALSE /\ effect[2] > 0
       /\ checks[field.applied].subtotal # effect[2] => \E n \in Checks : Awaited(n)
  /\ field.checking => \E n \in Checks : checks[n].status = "pending" /\ checks[n].by = "apply"

LEMMA CheckNumbers == ASSUME CouponTyped PROVE LastCheck \in 0 .. MaxChecks /\ Checks = 1 .. LastCheck
                                               /\ checks \in [1 .. LastCheck -> CheckRecords]
<1>1. PICK n \in 0 .. MaxChecks : checks \in [1 .. n -> CheckRecords]
  BY DEF CouponTyped
<1>2. Checks = 1 .. n
  BY <1>1 DEF Checks
<1> QED
  BY <1>1, <1>2 DEF LastCheck

\* The checks stay, and what is applied stays or is dropped.
LEMMA FieldMoves ==
  ASSUME CouponInv, UNCHANGED <<effect, checks>>, subtotal' \in 0 .. MaxSubtotal,
         placing' \in {"no", "sent", "locked"},
         field' \in [input : Codes, applied : Nat, checking : BOOLEAN],
         field'.applied \in {0, field.applied}, field'.checking => field.checking
  PROVE  CouponInv'
<1>1. Checks' = Checks /\ \A n : Awaited(n)' = Awaited(n)
  BY DEF Checks, Awaited
<1>2. CouponTyped'
  BY DEF CouponInv, CouponTyped
<1>3. Known(field.applied)' /\ Known(effect[1])'
  BY <1>1 DEF CouponInv, Known, CouponTyped
<1> QED
  BY <1>1, <1>2, <1>3 DEF CouponInv

LEMMA ApplyStep == ASSUME CouponInv, Apply PROVE CouponInv'
<1>1. LastCheck \in 0 .. MaxChecks /\ Checks = 1 .. LastCheck /\ checks \in [1 .. LastCheck -> CheckRecords]
      /\ LastCheck < MaxChecks /\ MaxChecks \in Nat
  BY CheckNumbers, CouponAssumption DEF CouponInv, Apply
<1>2. field \in [input : Codes, applied : Nat, checking : BOOLEAN]
  BY DEF CouponInv, CouponTyped
<1>3. CASE field.input = NoCode
  <2>1. /\ field' = [field EXCEPT !.applied = 0] /\ checks' = checks /\ effect' = effect
        /\ subtotal' = subtotal /\ placing' = placing
    BY <1>3 DEF Apply
  <2>2. field' \in [input : Codes, applied : Nat, checking : BOOLEAN] /\ field'.applied = 0 /\ field'.checking = field.checking
    BY <1>2, <2>1
  <2> QED
    BY <2>1, <2>2, FieldMoves DEF CouponInv, CouponTyped
<1>4. CASE field.input # NoCode
  <2>1. PICK m : m = LastCheck + 1
    OBVIOUS
  <2>2. /\ field' = [field EXCEPT !.applied = 0, !.checking = TRUE]
        /\ checks' = [n \in 1 .. m |-> IF n > LastCheck THEN Validate("apply") ELSE checks[n]]
        /\ effect' = effect /\ subtotal' = subtotal /\ placing' = placing
    BY <1>4, <2>1 DEF Apply, Append1
  <2>3. Validate("apply") \in CheckRecords
    BY <1>2 DEF Validate, CheckRecords, CouponInv, CouponTyped
  <2>4. m \in 0 .. MaxChecks /\ checks' \in [1 .. m -> CheckRecords]
    BY <1>1, <2>1, <2>2, <2>3
  <2>5. Checks' = 1 .. m /\ m \in Checks' /\ checks'[m] = Validate("apply")
    BY <1>1, <2>1, <2>2, <2>4 DEF Checks
  <2>6. \A n \in Checks : n \in Checks' /\ checks'[n] = checks[n]
    BY <1>1, <2>1, <2>2, <2>5
  <2>7. field' \in [input : Codes, applied : Nat, checking : BOOLEAN] /\ field'.applied = 0
    BY <1>2, <2>2
  <2>8. CouponTyped'
    BY <2>2, <2>4, <2>7 DEF CouponInv, CouponTyped
  <2>9. Known(field.applied)' /\ Known(effect[1])'
    <3>1. effect[1] > 0 => effect[1] \in Checks' /\ checks'[effect[1]].status = "valid"
      BY <2>6 DEF CouponInv, Known
    <3> QED
      BY <2>2, <2>7, <3>1 DEF Known
  <2>10. \A n \in Checks' : checks'[n].cancelled => checks'[n].by = "effect"
    <3>1. \A n \in Checks' : n \in Checks \/ n = m
      BY <1>1, <2>1, <2>5
    <3>2. checks'[m].cancelled = FALSE
      BY <2>5 DEF Validate
    <3> QED
      BY <2>6, <3>1, <3>2 DEF CouponInv
  <2>11. checks'[m].status = "pending" /\ checks'[m].by = "apply"
    BY <2>5 DEF Validate
  <2> QED
    BY <2>5, <2>7, <2>8, <2>9, <2>10, <2>11 DEF CouponInv
<1> QED
  BY <1>3, <1>4

LEMMA EffectStep == ASSUME CouponInv, RunCouponEffect PROVE CouponInv'
<1>1. LastCheck \in 0 .. MaxChecks /\ Checks = 1 .. LastCheck /\ checks \in [1 .. LastCheck -> CheckRecords]
      /\ LastCheck < MaxChecks /\ MaxChecks \in Nat
  BY CheckNumbers, CouponAssumption DEF CouponInv, RunCouponEffect
<1>2. field \in [input : Codes, applied : Nat, checking : BOOLEAN] /\ subtotal \in 0 .. MaxSubtotal
  BY DEF CouponInv, CouponTyped
<1>3. PICK before : before = [n \in Checks |-> IF checks[n].by = "effect" THEN [checks[n] EXCEPT !.cancelled = TRUE] ELSE checks[n]]
  OBVIOUS
<1>4. PICK again : again = [Validate("effect") EXCEPT !.code = checks[field.applied].code]
  OBVIOUS
<1>5. /\ effect' = EffectDeps
      /\ checks' = IF NeedsRevalidation
                   THEN [n \in 1 .. LastCheck + 1 |-> IF n > LastCheck THEN again ELSE before[n]]
                   ELSE before
      /\ field' = field /\ subtotal' = subtotal /\ placing' = placing
  BY <1>3, <1>4 DEF RunCouponEffect
<1>6. ASSUME NEW n \in Checks
      PROVE  /\ before[n] \in CheckRecords
             /\ before[n].by = checks[n].by /\ before[n].status = checks[n].status /\ before[n].subtotal = checks[n].subtotal
             /\ before[n].cancelled => before[n].by = "effect"
  <2>1. checks[n] \in CheckRecords /\ (checks[n].cancelled => checks[n].by = "effect")
    BY <1>1 DEF CouponInv
  <2>2. CASE checks[n].by = "effect"
    <3>1. before[n] = [checks[n] EXCEPT !.cancelled = TRUE]
      BY <1>3, <2>2
    <3> QED
      BY <2>1, <2>2, <3>1 DEF CheckRecords
  <2>3. CASE checks[n].by # "effect"
    BY <1>3, <2>1, <2>3
  <2> QED
    BY <2>2, <2>3
<1>7. before \in [Checks -> CheckRecords]
  BY <1>3, <1>6
<1>8. effect'[1] = field.applied /\ effect'[2] = subtotal /\ effect'[3] = Locked
  BY <1>5 DEF EffectDeps
<1>9. ASSUME NeedsRevalidation
      PROVE  again \in CheckRecords /\ again.status = "pending" /\ again.cancelled = FALSE /\ again.by = "effect"
  <2>1. field.applied \in Checks
    BY <1>9, <1>2 DEF NeedsRevalidation, CouponInv, Known
  <2>2. checks[field.applied].code \in Codes
    BY <1>1, <2>1 DEF CheckRecords
  <2>3. Validate("effect") \in CheckRecords
    BY <1>2 DEF Validate, CheckRecords
  <2> QED
    BY <1>4, <2>2, <2>3 DEF Validate, CheckRecords
<1>10. PICK m : m = LastCheck + 1
  OBVIOUS
<1>11. CASE NeedsRevalidation
  <2>1. checks' = [n \in 1 .. m |-> IF n > LastCheck THEN again ELSE before[n]]
    BY <1>5, <1>10, <1>11
  <2>2. m \in 0 .. MaxChecks /\ checks' \in [1 .. m -> CheckRecords]
    BY <1>1, <1>7, <1>9, <1>10, <1>11, <2>1
  <2>3. Checks' = 1 .. m /\ m \in Checks' /\ checks'[m] = again
    BY <1>1, <1>10, <2>1, <2>2 DEF Checks
  <2>4. \A n \in Checks : n \in Checks' /\ checks'[n] = before[n]
    BY <1>1, <1>10, <2>1, <2>3
  <2>5. \A n \in Checks' : n \in Checks \/ n = m
    BY <1>1, <1>10, <2>3
  <2>6. CouponTyped'
    BY <1>2, <1>5, <1>8, <2>2 DEF CouponInv, CouponTyped
  <2>7. Known(field.applied)' /\ Known(effect[1])'
    <3>1. field.applied > 0 => field.applied \in Checks' /\ checks'[field.applied].status = "valid"
      BY <1>6, <2>4 DEF CouponInv, Known
    <3> QED
      BY <1>5, <1>8, <3>1 DEF Known
  <2>8. \A n \in Checks' : checks'[n].cancelled => checks'[n].by = "effect"
    BY <1>6, <1>9, <1>11, <2>3, <2>4, <2>5
  <2>9. \E n \in Checks' : Awaited(n)'
    <3>1. Awaited(m)'
      BY <1>9, <1>11, <2>3 DEF Awaited
    <3> QED
      BY <2>3, <3>1
  <2>10. field'.checking => \E n \in Checks' : checks'[n].status = "pending" /\ checks'[n].by = "apply"
    <3>1. \A n \in Checks : checks'[n].by = checks[n].by /\ checks'[n].status = checks[n].status
      BY <1>6, <2>4
    <3> QED
      BY <1>5, <2>4, <3>1 DEF CouponInv
  <2> QED
    BY <2>6, <2>7, <2>8, <2>9, <2>10 DEF CouponInv
<1>12. CASE ~NeedsRevalidation
  <2>1. checks' = before /\ Checks' = Checks
    BY <1>5, <1>7, <1>12 DEF Checks
  <2>2. CouponTyped'
    BY <1>1, <1>2, <1>5, <1>7, <1>8, <2>1 DEF CouponInv, CouponTyped
  <2>3. Known(field.applied)' /\ Known(effect[1])'
    <3>1. field.applied > 0 => field.applied \in Checks /\ before[field.applied].status = "valid"
      BY <1>6 DEF CouponInv, Known
    <3> QED
      BY <1>5, <1>8, <2>1, <3>1 DEF Known
  <2>4. \A n \in Checks' : checks'[n].cancelled => checks'[n].by = "effect"
    BY <1>6, <2>1
  <2>5. field'.applied > 0 /\ effect'[3] = FALSE /\ effect'[2] > 0 => checks'[field'.applied].subtotal = effect'[2]
    <3> SUFFICES ASSUME field'.applied > 0, effect'[3] = FALSE, effect'[2] > 0
                 PROVE  checks'[field'.applied].subtotal = effect'[2]
      OBVIOUS
    <3>1. field.applied > 0 /\ ~Locked /\ subtotal > 0 /\ field.applied \in Checks
      BY <1>5, <1>8 DEF CouponInv, Known
    <3>2. ~MovedSince
      BY <1>12, <3>1 DEF NeedsRevalidation
    <3> QED
      BY <1>5, <1>6, <1>8, <2>1, <3>1, <3>2 DEF MovedSince
  <2>6. field'.checking => \E n \in Checks' : checks'[n].status = "pending" /\ checks'[n].by = "apply"
    BY <1>5, <1>6, <2>1 DEF CouponInv
  <2> QED
    BY <2>2, <2>3, <2>4, <2>5, <2>6 DEF CouponInv
<1> QED
  BY <1>11, <1>12

LEMMA AnswerStep == ASSUME CouponInv, NEW n \in Checks, Valid(n) \/ Invalid(n) PROVE CouponInv'
<1>1. LastCheck \in 0 .. MaxChecks /\ Checks = 1 .. LastCheck /\ checks \in [1 .. LastCheck -> CheckRecords]
      /\ MaxChecks \in Nat
  BY CheckNumbers, CouponAssumption DEF CouponInv
<1>2. field \in [input : Codes, applied : Nat, checking : BOOLEAN]
  BY DEF CouponInv, CouponTyped
<1>3. PICK status \in {"valid", "invalid"} : Answer(n, status) /\ (status = "valid" <=> Valid(n))
  BY DEF Valid, Invalid, Answer
<1>4. /\ checks[n].status = "pending"
      /\ checks' = [checks EXCEPT ![n].status = status]
      /\ subtotal' = subtotal /\ effect' = effect /\ placing' = placing
  BY <1>3 DEF Answer
<1>5. checks' \in [1 .. LastCheck -> CheckRecords] /\ Checks' = Checks
  BY <1>1, <1>4 DEF CheckRecords, Checks
<1>6. /\ \A m \in Checks \ {n} : checks'[m] = checks[m]
      /\ checks'[n].status = status /\ checks'[n].by = checks[n].by /\ checks'[n].cancelled = checks[n].cancelled
  BY <1>1, <1>4 DEF CheckRecords
<1>7. field' \in [input : Codes, applied : Nat, checking : BOOLEAN]
  <2>1. n \in Nat
    BY <1>1
  <2>2. field' = field \/ field' = [field EXCEPT !.applied = n, !.checking = FALSE]
        \/ field' = [field EXCEPT !.applied = 0, !.checking = FALSE]
    BY DEF Valid, Invalid, Rejected
  <2>3. CASE field' = field
    BY <1>2, <2>3
  <2>4. CASE field' = [field EXCEPT !.applied = n, !.checking = FALSE]
    BY <1>2, <2>1, <2>4
  <2>5. CASE field' = [field EXCEPT !.applied = 0, !.checking = FALSE]
    BY <1>2, <2>5
  <2> QED
    BY <2>2, <2>3, <2>4, <2>5
<1>8. CouponTyped'
  BY <1>1, <1>4, <1>5, <1>7 DEF CouponInv, CouponTyped
<1>9. effect[1] # n /\ field.applied # n
  BY <1>1, <1>4 DEF CouponInv, Known
<1>10. Known(effect[1])'
  BY <1>4, <1>5, <1>6, <1>9 DEF CouponInv, Known
<1>11. \A m \in Checks' : checks'[m].cancelled => checks'[m].by = "effect"
  BY <1>5, <1>6 DEF CouponInv
<1>12. CASE checks[n].cancelled
  <2>1. field' = field
    BY <1>12 DEF Valid, Invalid
  <2>2. Known(field.applied)'
    BY <1>5, <1>6, <1>9, <2>1 DEF CouponInv, Known
  <2>3. ASSUME NEW m \in Checks, Awaited(m) PROVE m \in Checks' /\ Awaited(m)'
    BY <1>5, <1>6, <1>12, <2>3 DEF Awaited
  <2>4. checks[n].by = "effect"
    BY <1>12 DEF CouponInv
  <2>5. field'.checking => \E m \in Checks' : checks'[m].status = "pending" /\ checks'[m].by = "apply"
    BY <1>5, <1>6, <2>1, <2>4 DEF CouponInv
  <2>6. field'.applied > 0 /\ effect'[1] = field'.applied /\ effect'[3] = FALSE /\ effect'[2] > 0
        /\ checks'[field'.applied].subtotal # effect'[2] => \E m \in Checks' : Awaited(m)'
    <3>1. field.applied > 0 => checks'[field.applied] = checks[field.applied]
      BY <1>6, <1>9 DEF CouponInv, Known
    <3> QED
      BY <1>4, <2>1, <2>3, <3>1 DEF CouponInv
  <2> QED
    BY <1>8, <1>10, <1>11, <2>2, <2>5, <2>6 DEF CouponInv
<1>13. CASE ~checks[n].cancelled
  <2>1. field'.checking = FALSE /\ field'.applied = IF status = "valid" THEN n ELSE 0
    BY <1>2, <1>3, <1>13 DEF Valid, Invalid, Rejected
  <2>2. Known(field.applied)'
    BY <1>5, <1>6, <2>1 DEF Known
  <2>3. effect'[1] # field'.applied \/ field'.applied = 0
    BY <1>4, <1>9, <2>1
  <2> QED
    BY <1>8, <1>10, <1>11, <2>1, <2>2, <2>3 DEF CouponInv
<1> QED
  BY <1>12, <1>13

LEMMA CouponStep == CouponInv /\ [CouponNext]_couponVars => CouponInv'
<1> SUFFICES ASSUME CouponInv, [CouponNext]_couponVars PROVE CouponInv'
  OBVIOUS
<1>1. /\ field \in [input : Codes, applied : Nat, checking : BOOLEAN] /\ subtotal \in 0 .. MaxSubtotal
      /\ placing \in {"no", "sent", "locked"} /\ NoCode \in Codes
  BY CouponAssumption DEF CouponInv, CouponTyped
<1>2. ASSUME NEW s \in 0 .. MaxSubtotal, ChangeCart(s) PROVE CouponInv'
  BY <1>1, <1>2, FieldMoves DEF ChangeCart
<1>3. ASSUME NEW c \in Codes, Edit(c) PROVE CouponInv'
  <2>1. field' = [field EXCEPT !.input = c, !.applied = 0] /\ UNCHANGED <<subtotal, effect, checks, placing>>
    BY <1>3 DEF Edit
  <2>2. field' \in [input : Codes, applied : Nat, checking : BOOLEAN] /\ field'.applied = 0 /\ field'.checking = field.checking
    BY <1>1, <2>1
  <2> QED
    BY <1>1, <2>1, <2>2, FieldMoves
<1>4. CASE Remove
  <2>1. field' = [field EXCEPT !.input = NoCode, !.applied = 0] /\ UNCHANGED <<subtotal, effect, checks, placing>>
    BY <1>4 DEF Remove
  <2>2. field' \in [input : Codes, applied : Nat, checking : BOOLEAN] /\ field'.applied = 0 /\ field'.checking = field.checking
    BY <1>1, <2>1
  <2> QED
    BY <1>1, <2>1, <2>2, FieldMoves
<1>5. CASE Submit \/ OrderCreated
  BY <1>1, <1>5, FieldMoves DEF Submit, OrderCreated
<1>6. CASE OrderRefused
  <2>1. field' \in {field, [field EXCEPT !.applied = 0, !.checking = FALSE]} /\ UNCHANGED <<subtotal, effect, checks>>
        /\ placing' = "no"
    BY <1>6 DEF OrderRefused, Rejected
  <2>2. /\ field' \in [input : Codes, applied : Nat, checking : BOOLEAN]
        /\ field'.applied \in {0, field.applied} /\ (field'.checking => field.checking)
    <3>1. CASE field' = field
      BY <1>1, <3>1
    <3>2. CASE field' = [field EXCEPT !.applied = 0, !.checking = FALSE]
      BY <1>1, <3>2
    <3> QED
      BY <2>1, <3>1, <3>2
  <2> QED
    BY <1>1, <2>1, <2>2, FieldMoves
<1>7. CASE UNCHANGED couponVars
  BY <1>1, <1>7, FieldMoves DEF couponVars
<1> QED
  BY <1>2, <1>3, <1>4, <1>5, <1>6, <1>7, ApplyStep, EffectStep, AnswerStep DEF CouponNext

\* Nothing was applied or validated at the start.
LEMMA CouponBegins == CouponInit => CouponInv
<1> SUFFICES ASSUME CouponInit PROVE CouponInv
  OBVIOUS
<1>1. /\ subtotal \in 0 .. MaxSubtotal /\ field = [input |-> NoCode, applied |-> 0, checking |-> FALSE]
      /\ effect[1] = 0 /\ checks = <<>> /\ placing = "no"
  BY DEF CouponInit
<1>2. checks \in [1 .. 0 -> CheckRecords] /\ 0 \in 0 .. MaxChecks /\ Checks = {}
  BY <1>1, CouponAssumption DEF Checks
<1>3. CouponTyped
  BY <1>1, <1>2, CouponAssumption DEF CouponTyped
<1> QED
  BY <1>1, <1>2, <1>3 DEF CouponInv, Known

\* The field and its validations have their types.
THEOREM CouponTypeCorrect == CouponSpec => []CouponTypeOK
<1>1. CouponInv => CouponTypeOK
  <2> SUFFICES ASSUME CouponInv PROVE CouponTypeOK
    OBVIOUS
  <2>1. LastCheck \in 0 .. MaxChecks /\ Checks = 1 .. LastCheck /\ checks \in [1 .. LastCheck -> CheckRecords]
    BY CheckNumbers DEF CouponInv
  <2>2. field \in [input : Codes, applied : 0 .. LastCheck, checking : BOOLEAN]
    <3>1. field \in [input : Codes, applied : Nat, checking : BOOLEAN] /\ Known(field.applied)
      BY DEF CouponInv, CouponTyped
    <3>2. field.applied \in 0 .. LastCheck
      BY <2>1, <3>1, CouponAssumption DEF Known
    <3> QED
      BY <3>1, <3>2
  <2> QED
    BY <2>1, <2>2 DEF CouponTypeOK, CouponInv, CouponTyped, CheckRecords
<1> QED
  BY <1>1, CouponBegins, CouponStep, PTL DEF CouponSpec

\* The discount shown is the one for the cart shown once the page has caught
\* up, for any carts, codes and order of answers.
THEOREM DiscountFitsCorrect == CouponSpec => []DiscountFitsCart
<1>1. CouponInv => DiscountFitsCart
  <2> SUFFICES ASSUME CouponInv, effect = EffectDeps, \A n \in Checks : checks[n].status = "pending" => checks[n].cancelled
               PROVE  /\ field.applied > 0 => checks[field.applied].subtotal = subtotal \/ Locked \/ subtotal = 0
                      /\ ~field.checking
    BY DEF DiscountFitsCart
  <2>1. effect[1] = field.applied /\ effect[2] = subtotal /\ effect[3] = Locked
    BY DEF EffectDeps
  <2>2. subtotal \in Nat /\ Locked \in BOOLEAN
    BY CouponAssumption DEF CouponInv, CouponTyped, Locked
  <2>3. ~ \E n \in Checks : Awaited(n)
    BY DEF Awaited
  <2>4. field.applied > 0 => checks[field.applied].subtotal = subtotal \/ Locked \/ subtotal = 0
    BY <2>1, <2>2, <2>3 DEF CouponInv
  <2>5. ~field.checking
    BY DEF CouponInv
  <2> QED
    BY <2>4, <2>5
<1> QED
  BY CouponBegins, <1>1, CouponStep, PTL DEF CouponSpec

-----------------------------------------------------------------------------
(* The carts of a customer: a cart, with what was ordered from it, holds   *)
(* what its owner asked for and what was ordered while a merge held it.    *)
(* First, lines of a table.                                                *)

\* A line of a table of rows is written.
LEMMA PutLine ==
  ASSUME NEW C, NEW V, NEW S, NEW f \in [C -> [V -> S]], NEW c \in C, NEW v \in V, NEW n \in S
  PROVE  /\ [f EXCEPT ![c][v] = n] \in [C -> [V -> S]]
         /\ \A d \in C, w \in V : [f EXCEPT ![c][v] = n][d][w] = IF d = c /\ w = v THEN n ELSE f[d][w]
  OBVIOUS

\* A row of a table is replaced.
LEMMA PutRow ==
  ASSUME NEW C, NEW V, NEW S, NEW f \in [C -> [V -> S]], NEW c \in C, NEW r \in [V -> S]
  PROVE  /\ [f EXCEPT ![c] = r] \in [C -> [V -> S]]
         /\ \A d \in C, w \in V : [f EXCEPT ![c] = r][d][w] = IF d = c THEN r[w] ELSE f[d][w]
  OBVIOUS

\* Two rows of a table are replaced.
LEMMA PutRows ==
  ASSUME NEW C, NEW V, NEW S, NEW f \in [C -> [V -> S]], NEW c \in C, NEW e \in C, c # e,
         NEW r \in [V -> S], NEW q \in [V -> S]
  PROVE  /\ [f EXCEPT ![c] = r, ![e] = q] \in [C -> [V -> S]]
         /\ \A d \in C, w \in V :
              [f EXCEPT ![c] = r, ![e] = q][d][w] = IF d = e THEN q[w] ELSE IF d = c THEN r[w] ELSE f[d][w]
  OBVIOUS

LEMMA LeastOfThree ==
  ASSUME NEW a \in Nat, NEW b \in Nat, NEW c \in Nat
  PROVE  LET n == Least({a, b, c}) IN n \in Nat /\ n <= a /\ n <= b /\ n <= c
<1>1. \E n \in {a, b, c} : \A m \in {a, b, c} : n <= m
  <2>1. CASE a <= b /\ a <= c
    BY <2>1
  <2>2. CASE b <= a /\ b <= c
    BY <2>2
  <2>3. CASE c <= a /\ c <= b
    BY <2>3
  <2> QED
    BY <2>1, <2>2, <2>3
<1> DEFINE n == Least({a, b, c})
<1>2. n \in {a, b, c} /\ \A m \in {a, b, c} : n <= m
  BY <1>1 DEF Least
<1> HIDE DEF n
<1>3. n \in Nat /\ n <= a /\ n <= b /\ n <= c
  BY <1>2
<1> QED
  BY <1>3 DEF n

-----------------------------------------------------------------------------
(* The invariant.                                                          *)

RowsTyped ==
  /\ owner \in [CartIds -> {"unborn", "guest", "user", "gone"}]
  /\ qty \in [CartIds -> [CartVariants -> 0 .. MaxLine]]
  /\ gen \in [CartIds -> [CartVariants -> Nat]]
HistoryTyped ==
  /\ asked \in [CartIds -> [CartVariants -> Nat]]
  /\ ordered \in [CartIds -> [CartVariants -> Nat]]
  /\ resold \in [CartIds -> [CartVariants -> Nat]]
ReadsTyped ==
  /\ at \in [CartCalls -> CartSteps]
  /\ cart \in [CartCalls -> 0 .. MaxCarts] /\ into \in [CartCalls -> 0 .. MaxCarts]
  /\ item \in [CartCalls -> CartVariants] /\ amount \in [CartCalls -> 0 .. MaxAsk]
  /\ seen \in [CartCalls -> Units] /\ seenGen \in [CartCalls -> Units] /\ base \in [CartCalls -> Units]

LEMMA CartsTyped == CartsTypeOK <=> RowsTyped /\ HistoryTyped /\ ReadsTyped
  BY DEF CartsTypeOK, RowsTyped, HistoryTyped, ReadsTyped, Units

\* What a line may still hold.
Slack(c, v) == asked[c][v] + resold[c][v] - ordered[c][v]
Accounted == \A c \in CartIds, v \in CartVariants : qty[c][v] <= Slack(c, v)

\* The quantity a request raises, while the line it read stands.
RaiseOK(k) ==
  /\ seen[k][item[k]] + amount[k] <= MaxLine
  /\ seenGen[k][item[k]] <= gen[cart[k]][item[k]]
  /\ LineStands(k, item[k]) => seen[k][item[k]] <= Slack(cart[k], item[k])

\* The guest cart a merge read, while it is there.
MergeOK(k) ==
  /\ owner[cart[k]] # "unborn"
  /\ owner[cart[k]] = "guest" => \A v \in CartVariants : seen[k][v] <= Slack(cart[k], v)

\* The user cart it read, which stays.
CommitOK(k) ==
  /\ into[k] = 0 => base[k] = NoLines
  /\ into[k] # 0 => /\ owner[into[k]] = "user"
                    /\ \A v \in CartVariants : base[k][v] <= Slack(into[k], v)

Active == {"insert", "raise", "set", "remove", "clear", "delete", "merge", "commit", "claim"}

Holds(k) ==
  /\ at[k] \in Active => cart[k] \in CartIds
  /\ at[k] \notin {"commit", "done"} => into[k] = 0 /\ base[k] = NoLines
  /\ at[k] = "raise" => RaiseOK(k)
  /\ at[k] \in {"merge", "commit"} => MergeOK(k)
  /\ at[k] = "commit" => CommitOK(k)

CartsInv == RowsTyped /\ HistoryTyped /\ ReadsTyped /\ Accounted /\ \A k \in CartCalls : Holds(k)

-----------------------------------------------------------------------------
(* What every step does to the rows, as the other requests see it.         *)

OwnersMove ==
  \A c \in CartIds : /\ owner[c] # "unborn" => owner'[c] # "unborn"
                     /\ owner[c] = "user" => owner'[c] = "user"
                     /\ owner'[c] = "guest" => owner[c] \in {"unborn", "guest"}
LinesMove ==
  \A c \in CartIds, v \in CartVariants :
    /\ gen[c][v] <= gen'[c][v]
    /\ qty'[c][v] > 0 /\ gen'[c][v] = gen[c][v] => qty[c][v] > 0 /\ Slack(c, v) <= Slack(c, v)'
    /\ HeldByMerge(c) /\ owner'[c] \in Owners => Slack(c, v) <= Slack(c, v)'
SameRequest(j) ==
  /\ at'[j] = at[j] /\ cart'[j] = cart[j] /\ into'[j] = into[j] /\ item'[j] = item[j] /\ amount'[j] = amount[j]
  /\ seen'[j] = seen[j] /\ seenGen'[j] = seenGen[j] /\ base'[j] = base[j]

LEMMA SlackType ==
  ASSUME HistoryTyped, NEW c \in CartIds, NEW v \in CartVariants PROVE Slack(c, v) \in Int
<1>1. asked[c][v] \in Nat /\ resold[c][v] \in Nat /\ ordered[c][v] \in Nat
  BY DEF HistoryTyped
<1> QED
  BY <1>1 DEF Slack

LEMMA OthersHold ==
  ASSUME RowsTyped, HistoryTyped, ReadsTyped, RowsTyped', HistoryTyped',
         NEW j \in CartCalls, Holds(j), SameRequest(j), OwnersMove, LinesMove
  PROVE  Holds(j)'
<1>1. /\ at[j] \in Active => cart[j] \in CartIds
      /\ at[j] \notin {"commit", "done"} => into[j] = 0 /\ base[j] = NoLines
      /\ at[j] = "raise" => RaiseOK(j)
      /\ at[j] \in {"merge", "commit"} => MergeOK(j)
      /\ at[j] = "commit" => CommitOK(j)
  BY DEF Holds
<1>2. SameRequest(j)
  OBVIOUS
<1>3. ASSUME at[j] = "raise" PROVE RaiseOK(j)'
  <2>0. cart[j] \in CartIds /\ item[j] \in CartVariants
    BY <1>1, <1>3 DEF Active, ReadsTyped
  <2>1. PICK c \in CartIds, v \in CartVariants : c = cart[j] /\ v = item[j] /\ RaiseOK(j)
    BY <1>1, <1>3, <2>0
  <2>2. cart'[j] = c /\ item'[j] = v /\ seen'[j] = seen[j] /\ seenGen'[j] = seenGen[j] /\ amount'[j] = amount[j]
    BY <1>2, <2>1 DEF SameRequest
  <2>3. /\ seen[j][v] + amount[j] <= MaxLine /\ seenGen[j][v] <= gen[c][v]
        /\ qty[c][v] > 0 /\ gen[c][v] = seenGen[j][v] => seen[j][v] <= Slack(c, v)
    BY <2>1 DEF RaiseOK, LineStands
  <2>4. seenGen[j][v] \in Nat /\ seen[j][v] \in Nat
    BY <2>1 DEF ReadsTyped, Units
  <2>5. gen[c][v] \in Nat /\ gen'[c][v] \in Nat
    BY <2>1 DEF RowsTyped
  <2>6. Slack(c, v) \in Int /\ Slack(c, v)' \in Int
    <3>1. HistoryTyped' => Slack(c, v)' \in Int
      BY <2>1 DEF HistoryTyped, Slack
    <3> QED
      BY <2>1, <3>1, SlackType
  <2>7. /\ gen[c][v] <= gen'[c][v]
        /\ qty'[c][v] > 0 /\ gen'[c][v] = gen[c][v] => qty[c][v] > 0 /\ Slack(c, v) <= Slack(c, v)'
    BY <2>1 DEF LinesMove
  <2>8. ASSUME qty'[c][v] > 0, gen'[c][v] = seenGen[j][v] PROVE seen[j][v] <= Slack(c, v)'
    BY <2>3, <2>4, <2>5, <2>6, <2>7, <2>8
  <2>9. seenGen[j][v] <= gen'[c][v]
    BY <2>3, <2>4, <2>5, <2>7
  <2>10. Slack(cart[j], item[j])' = Slack(c, v)'
    BY <2>2 DEF Slack
  <2> QED
    BY <2>2, <2>3, <2>8, <2>9, <2>10 DEF RaiseOK, LineStands, Slack
<1>4. ASSUME at[j] \in {"merge", "commit"} PROVE MergeOK(j)'
  <2>0. cart[j] \in CartIds
    BY <1>1, <1>4 DEF Active
  <2>1. PICK c \in CartIds : c = cart[j] /\ MergeOK(j) /\ HeldByMerge(c)
    BY <1>1, <1>4, <2>0 DEF HeldByMerge
  <2>2. cart'[j] = c /\ seen'[j] = seen[j]
    BY <1>2, <2>1 DEF SameRequest
  <2>3. owner'[c] # "unborn" /\ (owner'[c] = "guest" => owner[c] = "guest")
    BY <2>1 DEF MergeOK, OwnersMove
  <2>4. ASSUME owner'[c] = "guest", NEW v \in CartVariants PROVE seen[j][v] <= Slack(c, v)'
    <3>1. seen[j][v] <= Slack(c, v)
      BY <2>1, <2>3, <2>4 DEF MergeOK
    <3>2. Slack(c, v) <= Slack(c, v)'
      BY <2>1, <2>4 DEF LinesMove, Owners
    <3>3. Slack(c, v) \in Int /\ seen[j][v] \in Nat
      BY <2>1, SlackType DEF ReadsTyped, Units
    <3>4. Slack(c, v)' \in Int
      BY <2>1 DEF HistoryTyped, Slack
    <3> QED
      BY <3>1, <3>2, <3>3, <3>4
  <2>5. \A v \in CartVariants : Slack(cart[j], v)' = Slack(c, v)'
    BY <2>2 DEF Slack
  <2> QED
    BY <2>2, <2>3, <2>4, <2>5 DEF MergeOK, Slack
<1>5. ASSUME at[j] = "commit" PROVE CommitOK(j)'
  <2>0. PICK c : c = into[j]
    OBVIOUS
  <2>1. c = into[j] /\ into'[j] = c /\ base'[j] = base[j] /\ CommitOK(j)
    BY <1>1, <1>2, <1>5, <2>0 DEF SameRequest
  <2>2. ASSUME c # 0 PROVE owner'[c] = "user" /\ \A v \in CartVariants : base[j][v] <= Slack(c, v)'
    <3>1. c \in CartIds /\ HeldByMerge(c)
      BY <1>5, <2>1, <2>2, CartsAssumption DEF ReadsTyped, CartIds, HeldByMerge
    <3>2. owner'[c] = "user"
      BY <2>1, <2>2, <3>1 DEF CommitOK, OwnersMove
    <3>3. ASSUME NEW v \in CartVariants PROVE base[j][v] <= Slack(c, v)'
      <4>1. base[j][v] <= Slack(c, v)
        BY <2>1, <2>2 DEF CommitOK
      <4>2. Slack(c, v) <= Slack(c, v)'
        BY <3>1, <3>2 DEF LinesMove, Owners
      <4>3. Slack(c, v) \in Int /\ base[j][v] \in Nat
        BY <3>1, SlackType DEF ReadsTyped, Units
      <4>4. Slack(c, v)' \in Int
        BY <3>1 DEF HistoryTyped, Slack
      <4> QED
        BY <4>1, <4>2, <4>3, <4>4
    <3> QED
      BY <3>2, <3>3
  <2>3. c = 0 => base'[j] = NoLines
    BY <2>1 DEF CommitOK
  <2> QED
    BY <2>1, <2>2, <2>3 DEF CommitOK, Slack, NoLines
<1> QED
  BY <1>1, <1>2, <1>3, <1>4, <1>5 DEF Holds, SameRequest, NoLines

\* A step of request k keeps the invariant if the rows move as the others
\* expect and k itself holds what it needs.
LEMMA StepKeeps ==
  ASSUME CartsInv, NEW k \in CartCalls, RowsTyped', HistoryTyped', ReadsTyped', Accounted',
         OwnersMove, LinesMove, \A j \in CartCalls \ {k} : SameRequest(j), Holds(k)'
  PROVE  CartsInv'
<1>1. ASSUME NEW j \in CartCalls PROVE Holds(j)'
  <2>1. CASE j = k
    BY <2>1
  <2>2. CASE j # k
    BY <2>2, OthersHold DEF CartsInv
  <2> QED
    BY <2>1, <2>2
<1> QED
  BY <1>1 DEF CartsInv

\* What a request reads into its own variables.
Takes(k, next, c, v, n, s, g, u, b) ==
  /\ at' = [at EXCEPT ![k] = next]
  /\ cart' = [cart EXCEPT ![k] = c] /\ item' = [item EXCEPT ![k] = v] /\ amount' = [amount EXCEPT ![k] = n]
  /\ seen' = [seen EXCEPT ![k] = s] /\ seenGen' = [seenGen EXCEPT ![k] = g]
  /\ into' = [into EXCEPT ![k] = u] /\ base' = [base EXCEPT ![k] = b]

LEMMA TakesTyped ==
  ASSUME ReadsTyped, NEW k \in CartCalls,
         NEW next \in CartSteps, NEW c \in 0 .. MaxCarts, NEW v \in CartVariants, NEW n \in 0 .. MaxAsk,
         NEW s \in Units, NEW g \in Units, NEW u \in 0 .. MaxCarts, NEW b \in Units,
         Takes(k, next, c, v, n, s, g, u, b)
  PROVE  /\ ReadsTyped'
         /\ \A j \in CartCalls \ {k} : SameRequest(j)
         /\ at'[k] = next /\ cart'[k] = c /\ item'[k] = v /\ amount'[k] = n
         /\ seen'[k] = s /\ seenGen'[k] = g /\ into'[k] = u /\ base'[k] = b
<1>1. at' \in [CartCalls -> CartSteps] /\ cart' \in [CartCalls -> 0 .. MaxCarts]
  BY DEF Takes, ReadsTyped
<1>2. item' \in [CartCalls -> CartVariants] /\ amount' \in [CartCalls -> 0 .. MaxAsk]
  BY DEF Takes, ReadsTyped
<1>3. seen' \in [CartCalls -> Units] /\ seenGen' \in [CartCalls -> Units]
  BY DEF Takes, ReadsTyped
<1>4. into' \in [CartCalls -> 0 .. MaxCarts] /\ base' \in [CartCalls -> Units]
  BY DEF Takes, ReadsTyped
<1>5. \A j \in CartCalls \ {k} : SameRequest(j)
  BY DEF Takes, ReadsTyped, SameRequest
<1>6. at'[k] = next /\ cart'[k] = c /\ item'[k] = v /\ amount'[k] = n
  BY DEF Takes, ReadsTyped
<1>7. seen'[k] = s /\ seenGen'[k] = g /\ into'[k] = u /\ base'[k] = b
  BY DEF Takes, ReadsTyped
<1> QED
  BY <1>1, <1>2, <1>3, <1>4, <1>5, <1>6, <1>7 DEF ReadsTyped

LEMMA RowsKept ==
  ASSUME CartsInv, UNCHANGED <<cartRows, cartHistory>>
  PROVE  RowsTyped' /\ HistoryTyped' /\ Accounted' /\ OwnersMove /\ LinesMove
<1>1. RowsTyped /\ HistoryTyped /\ Accounted
  BY DEF CartsInv
<1>2. UNCHANGED <<owner, qty, gen, asked, ordered, resold>>
  BY DEF cartRows, cartHistory
<1>3. \A c, v : Slack(c, v)' = Slack(c, v)
  BY <1>2 DEF Slack
<1>4. RowsTyped' /\ HistoryTyped' /\ Accounted' /\ OwnersMove
  BY <1>1, <1>2, <1>3 DEF RowsTyped, HistoryTyped, Accounted, OwnersMove
<1>5. ASSUME NEW c \in CartIds, NEW v \in CartVariants PROVE Slack(c, v) \in Int /\ gen[c][v] \in Nat
  BY <1>1, SlackType DEF RowsTyped
<1>6. LinesMove
  BY <1>2, <1>3, <1>5 DEF LinesMove
<1> QED
  BY <1>4, <1>6

\* A request that only reads goes on to a step for which it holds what it
\* read; the values it leaves alone are its own.
LEMMA ReadKeeps ==
  ASSUME CartsInv, NEW k \in CartCalls, UNCHANGED <<cartRows, cartHistory>>,
         NEW next \in CartSteps, NEW c \in 0 .. MaxCarts, NEW v \in CartVariants, NEW n \in 0 .. MaxAsk,
         NEW s \in Units, NEW g \in Units, NEW u \in 0 .. MaxCarts, NEW b \in Units,
         Takes(k, next, c, v, n, s, g, u, b),
         next \in Active => c \in CartIds,
         next \notin {"commit", "done"} => u = 0 /\ b = NoLines,
         next = "raise" => /\ s[v] + n <= MaxLine
                           /\ g[v] <= gen[c][v]
                           /\ s[v] <= Slack(c, v),
         next \in {"merge", "commit"} =>
           owner[c] # "unborn" /\ (owner[c] = "guest" => \A w \in CartVariants : s[w] <= Slack(c, w)),
         next = "commit" =>
           /\ u = 0 => b = NoLines
           /\ u # 0 => owner[u] = "user" /\ \A w \in CartVariants : b[w] <= Slack(u, w)
  PROVE  CartsInv'
<1>1. RowsTyped' /\ HistoryTyped' /\ Accounted' /\ OwnersMove /\ LinesMove
  BY RowsKept
<1>2. ReadsTyped
  BY DEF CartsInv
<1>3. ReadsTyped' /\ \A j \in CartCalls \ {k} : SameRequest(j)
  BY <1>2, TakesTyped
<1>4. /\ at'[k] = next /\ cart'[k] = c /\ item'[k] = v /\ amount'[k] = n
      /\ seen'[k] = s /\ seenGen'[k] = g /\ into'[k] = u /\ base'[k] = b
  BY <1>2, TakesTyped
<1>5. UNCHANGED <<owner, qty, gen, asked, ordered, resold>>
  BY DEF cartRows, cartHistory
<1>6. next = "raise" => RaiseOK(k)'
  BY <1>4, <1>5 DEF RaiseOK, Slack
<1>7. next \in {"merge", "commit"} => MergeOK(k)'
  BY <1>4, <1>5 DEF MergeOK, Slack
<1>8. next = "commit" => CommitOK(k)'
  BY <1>4, <1>5 DEF CommitOK, Slack, NoLines
<1>9. Holds(k)'
  BY <1>4, <1>6, <1>7, <1>8 DEF Holds, NoLines
<1> QED
  BY <1>1, <1>3, <1>9, StepKeeps

\* Of what a request leaves alone.
LEMMA Itself ==
  ASSUME NEW C, NEW S, NEW f \in [C -> S], NEW k \in C PROVE f = [f EXCEPT ![k] = f[k]]
  OBVIOUS

LEMMA OwnReads ==
  ASSUME CartsInv, NEW k \in CartCalls
  PROVE  /\ cart[k] \in 0 .. MaxCarts /\ into[k] \in 0 .. MaxCarts /\ item[k] \in CartVariants
         /\ amount[k] \in 0 .. MaxAsk /\ seen[k] \in Units /\ seenGen[k] \in Units /\ base[k] \in Units
         /\ cart = [cart EXCEPT ![k] = cart[k]] /\ item = [item EXCEPT ![k] = item[k]]
         /\ amount = [amount EXCEPT ![k] = amount[k]] /\ seen = [seen EXCEPT ![k] = seen[k]]
         /\ seenGen = [seenGen EXCEPT ![k] = seenGen[k]] /\ into = [into EXCEPT ![k] = into[k]]
         /\ base = [base EXCEPT ![k] = base[k]]
<1>1. ReadsTyped
  BY DEF CartsInv
<1>2. /\ cart[k] \in 0 .. MaxCarts /\ into[k] \in 0 .. MaxCarts /\ item[k] \in CartVariants
      /\ amount[k] \in 0 .. MaxAsk /\ seen[k] \in Units /\ seenGen[k] \in Units /\ base[k] \in Units
  BY <1>1 DEF ReadsTyped
<1>3. cart = [cart EXCEPT ![k] = cart[k]] /\ item = [item EXCEPT ![k] = item[k]]
  BY <1>1, Itself DEF ReadsTyped
<1>4. amount = [amount EXCEPT ![k] = amount[k]] /\ seen = [seen EXCEPT ![k] = seen[k]]
  BY <1>1, Itself DEF ReadsTyped
<1>5. seenGen = [seenGen EXCEPT ![k] = seenGen[k]] /\ into = [into EXCEPT ![k] = into[k]]
  BY <1>1, Itself DEF ReadsTyped
<1>6. base = [base EXCEPT ![k] = base[k]]
  BY <1>1, Itself DEF ReadsTyped
<1> QED
  BY <1>2, <1>3, <1>4, <1>5, <1>6

LEMMA CartFacts ==
  ASSUME CartsInv, NEW o, NEW c \in Carts(o)
  PROVE  /\ c \in CartIds /\ c \in 0 .. MaxCarts /\ owner[c] = o
         /\ qty[c] \in Units /\ gen[c] \in Units
         /\ \A w \in CartVariants : qty[c][w] <= Slack(c, w)
<1>1. c \in CartIds /\ owner[c] = o
  BY DEF Carts
<1>2. c \in 0 .. MaxCarts
  BY <1>1, CartsAssumption DEF CartIds
<1>3. RowsTyped /\ Accounted
  BY DEF CartsInv
<1>4. qty[c] \in [CartVariants -> 0 .. MaxLine] /\ gen[c] \in Units
  BY <1>1, <1>3 DEF RowsTyped, Units
<1>5. 0 .. MaxLine \subseteq Nat
  BY CartsAssumption
<1>6. qty[c] \in Units
  BY <1>4, <1>5 DEF Units
<1> QED
  BY <1>1, <1>2, <1>3, <1>4, <1>6 DEF Accounted

LEMMA Before ==
  ASSUME CartsInv, NEW k \in CartCalls, at[k] \notin {"commit", "done"} PROVE into[k] = 0 /\ base[k] = NoLines
  BY DEF CartsInv, Holds

-----------------------------------------------------------------------------
(* The steps that read.                                                    *)

LEMMA FindForAddKeeps ==
  ASSUME CartsInv, NEW k \in CartCalls, NEW o \in Owners, NEW v \in CartVariants, NEW n \in 1 .. MaxAsk,
         FindForAdd(k, o, v, n)
  PROVE  CartsInv'
<1>1. at[k] = "idle" /\ UNCHANGED <<cartRows, cartHistory>>
      /\ item' = [item EXCEPT ![k] = v] /\ amount' = [amount EXCEPT ![k] = n]
  BY DEF FindForAdd
<1>2. into[k] = 0 /\ base[k] = NoLines
  BY <1>1, Before
<1>3. n \in 0 .. MaxAsk
  BY CartsAssumption
<1>4. ASSUME NEW c \in Carts(o), ReadCart(k, c), qty[c][v] + n <= MaxLine,
             Goto(k, IF qty[c][v] > 0 THEN "raise" ELSE "insert")
      PROVE  CartsInv'
  <2>1. PICK next \in {"raise", "insert"} : Goto(k, next)
    BY <1>4
  <2>2. Takes(k, next, c, v, n, qty[c], gen[c], into[k], base[k])
    BY <1>1, <1>4, <2>1, OwnReads DEF Takes, Goto, ReadCart
  <2>3. next \in CartSteps /\ next \notin {"commit", "done", "merge"}
    BY DEF CartSteps
  <2>4. /\ c \in CartIds /\ c \in 0 .. MaxCarts /\ qty[c] \in Units /\ gen[c] \in Units
        /\ qty[c][v] <= Slack(c, v)
    BY CartFacts
  <2>5. gen[c][v] <= gen[c][v]
    BY <2>4 DEF Units
  <2>6. into[k] \in 0 .. MaxCarts /\ base[k] \in Units
    BY OwnReads
  <2> QED
    BY <1>1, <1>2, <1>3, <1>4, <2>2, <2>3, <2>4, <2>5, <2>6, ReadKeeps
<1>5. ASSUME Goto(k, CreateStep[o]), UNCHANGED <<cart, seen, seenGen, into, base>> PROVE CartsInv'
  <2>1. PICK next \in {"create guest", "create user"} : Goto(k, next)
    <3>1. CreateStep["guest"] = "create guest" /\ CreateStep["user"] = "create user"
      BY DEF CreateStep
    <3>2. o = "guest" \/ o = "user"
      BY DEF Owners
    <3>3. CreateStep[o] \in {"create guest", "create user"}
      BY <3>1, <3>2
    <3> QED
      BY <1>5, <3>3
  <2>2. Takes(k, next, cart[k], v, n, seen[k], seenGen[k], into[k], base[k])
    BY <1>1, <1>5, <2>1, OwnReads DEF Takes, Goto
  <2>3. next \in CartSteps /\ next \notin Active \cup {"commit", "done", "merge", "raise"}
    BY DEF CartSteps, Active
  <2>4. /\ cart[k] \in 0 .. MaxCarts /\ into[k] \in 0 .. MaxCarts
        /\ seen[k] \in Units /\ seenGen[k] \in Units /\ base[k] \in Units
    BY OwnReads
  <2> QED
    BY <1>1, <1>2, <1>3, <2>2, <2>3, <2>4, ReadKeeps
<1> QED
  BY <1>4, <1>5 DEF FindForAdd

LEMMA FindOwnItemKeeps ==
  ASSUME CartsInv, NEW k \in CartCalls, NEW o \in Owners, NEW v \in CartVariants, NEW n \in 0 .. MaxAsk,
         FindOwnItem(k, o, v, n)
  PROVE  CartsInv'
<1>1. at[k] = "idle" /\ UNCHANGED <<cartRows, cartHistory>>
      /\ item' = [item EXCEPT ![k] = v] /\ amount' = [amount EXCEPT ![k] = n]
  BY DEF FindOwnItem
<1>2. into[k] = 0 /\ base[k] = NoLines
  BY <1>1, Before
<1>3. PICK c \in Carts(o) : ReadCart(k, c)
  BY DEF FindOwnItem
<1>4. PICK next \in {"set", "remove"} : Goto(k, next)
  BY DEF FindOwnItem
<1>5. Takes(k, next, c, v, n, qty[c], gen[c], into[k], base[k])
  BY <1>1, <1>3, <1>4, OwnReads DEF Takes, Goto, ReadCart
<1>6. next \in CartSteps /\ next \notin {"commit", "done", "merge", "raise"}
  BY DEF CartSteps
<1>7. c \in CartIds /\ c \in 0 .. MaxCarts /\ qty[c] \in Units /\ gen[c] \in Units
  BY CartFacts
<1>8. into[k] \in 0 .. MaxCarts /\ base[k] \in Units
  BY OwnReads
<1> QED
  BY <1>1, <1>2, <1>5, <1>6, <1>7, <1>8, ReadKeeps

\* clearCart, createOrder and the first read of a merge.
LEMMA FindCartKeeps ==
  ASSUME CartsInv, NEW k \in CartCalls, NEW o \in Owners, NEW c \in Carts(o),
         NEW next \in {"clear", "claim", "delete", "merge"}, next = "merge" => o = "guest",
         at[k] = "idle", ReadCart(k, c), Goto(k, next), UNCHANGED <<cartRows, item, amount, cartHistory>>
  PROVE  CartsInv'
<1>1. into[k] = 0 /\ base[k] = NoLines
  BY Before
<1>2. Takes(k, next, c, item[k], amount[k], qty[c], gen[c], into[k], base[k])
  BY OwnReads DEF Takes, Goto, ReadCart
<1>3. next \in CartSteps /\ next \notin {"commit", "done", "raise"}
  BY DEF CartSteps
<1>4. /\ c \in CartIds /\ c \in 0 .. MaxCarts /\ owner[c] = o /\ qty[c] \in Units /\ gen[c] \in Units
      /\ \A w \in CartVariants : qty[c][w] <= Slack(c, w)
  BY CartFacts
<1>5. into[k] \in 0 .. MaxCarts /\ base[k] \in Units /\ item[k] \in CartVariants /\ amount[k] \in 0 .. MaxAsk
  BY OwnReads
<1>6. owner[c] # "unborn"
  BY <1>4 DEF Owners
<1> QED
  BY <1>1, <1>2, <1>3, <1>4, <1>5, <1>6, ReadKeeps

LEMMA ReadUserCartKeeps ==
  ASSUME CartsInv, NEW k \in CartCalls, ReadUserCart(k) PROVE CartsInv'
<1>1. at[k] = "merge" /\ Goto(k, "commit")
      /\ UNCHANGED <<cartRows, cart, item, amount, seen, seenGen, cartHistory>>
  BY DEF ReadUserCart
<1>2. into[k] = 0 /\ base[k] = NoLines
  BY <1>1, Before
<1>3. cart[k] \in CartIds /\ MergeOK(k)
  BY <1>1 DEF CartsInv, Holds, Active
<1>4. /\ cart[k] \in 0 .. MaxCarts /\ into[k] \in 0 .. MaxCarts /\ item[k] \in CartVariants
      /\ amount[k] \in 0 .. MaxAsk /\ seen[k] \in Units /\ seenGen[k] \in Units /\ base[k] \in Units
  BY OwnReads
<1>5. "commit" \in CartSteps
  BY DEF CartSteps
<1>6. ASSUME NEW u \in Carts("user"), into' = [into EXCEPT ![k] = u], base' = [base EXCEPT ![k] = qty[u]]
      PROVE  CartsInv'
  <2>1. Takes(k, "commit", cart[k], item[k], amount[k], seen[k], seenGen[k], u, qty[u])
    BY <1>1, <1>6, OwnReads DEF Takes, Goto
  <2>2. /\ u \in CartIds /\ u \in 0 .. MaxCarts /\ owner[u] = "user" /\ qty[u] \in Units
        /\ \A w \in CartVariants : qty[u][w] <= Slack(u, w)
    BY CartFacts
  <2>3. u # 0
    BY <2>2, CartsAssumption DEF CartIds
  <2> QED
    BY <1>1, <1>3, <1>4, <1>5, <2>1, <2>2, <2>3, ReadKeeps DEF MergeOK
<1>7. ASSUME UNCHANGED <<into, base>> PROVE CartsInv'
  <2>1. Takes(k, "commit", cart[k], item[k], amount[k], seen[k], seenGen[k], into[k], base[k])
    BY <1>1, <1>7, OwnReads DEF Takes, Goto
  <2> QED
    BY <1>1, <1>2, <1>3, <1>4, <1>5, <2>1, ReadKeeps DEF MergeOK
<1> QED
  BY <1>6, <1>7 DEF ReadUserCart

LEMMA GiveUpKeeps ==
  ASSUME CartsInv, NEW k \in CartCalls, GiveUp(k) PROVE CartsInv'
<1>1. Goto(k, "done") /\ UNCHANGED <<cartRows, cartReads, cartHistory>>
  BY DEF GiveUp
<1>2. Takes(k, "done", cart[k], item[k], amount[k], seen[k], seenGen[k], into[k], base[k])
  BY <1>1, OwnReads DEF Takes, Goto, cartReads
<1>3. "done" \in CartSteps /\ "done" \notin Active
  BY DEF CartSteps, Active
<1> QED
  BY <1>1, <1>2, <1>3, OwnReads, ReadKeeps

-----------------------------------------------------------------------------
(* The steps that write.                                                   *)

LEMMA WriteKeeps ==
  ASSUME CartsInv, NEW k \in CartCalls, Goto(k, "done"), UNCHANGED cartReads,
         RowsTyped', HistoryTyped', Accounted', OwnersMove, LinesMove
  PROVE  CartsInv'
<1>1. Takes(k, "done", cart[k], item[k], amount[k], seen[k], seenGen[k], into[k], base[k])
  BY OwnReads DEF Takes, Goto, cartReads
<1>2. "done" \in CartSteps /\ "done" \notin Active \cup {"raise", "merge", "commit"} /\ ReadsTyped
  BY DEF CartSteps, Active, CartsInv
<1>3. ReadsTyped' /\ (\A j \in CartCalls \ {k} : SameRequest(j)) /\ at'[k] = "done"
  BY <1>1, <1>2, OwnReads, TakesTyped
<1>4. Holds(k)'
  BY <1>2, <1>3 DEF Holds
<1> QED
  BY <1>3, <1>4, StepKeeps

LEMMA LineTypes ==
  ASSUME CartsInv, NEW c \in CartIds, NEW v \in CartVariants
  PROVE  /\ qty[c][v] \in 0 .. MaxLine /\ qty[c][v] \in Nat /\ gen[c][v] \in Nat
         /\ asked[c][v] \in Nat /\ resold[c][v] \in Nat /\ ordered[c][v] \in Nat
         /\ Slack(c, v) \in Int /\ qty[c][v] <= Slack(c, v)
<1>1. RowsTyped /\ HistoryTyped /\ Accounted
  BY DEF CartsInv
<1>2. qty[c][v] \in 0 .. MaxLine /\ gen[c][v] \in Nat
  BY <1>1 DEF RowsTyped
<1>3. qty[c][v] \in Nat
  BY <1>2, CartsAssumption
<1>4. asked[c][v] \in Nat /\ resold[c][v] \in Nat /\ ordered[c][v] \in Nat
  BY <1>1 DEF HistoryTyped
<1>5. Slack(c, v) \in Int /\ qty[c][v] <= Slack(c, v)
  BY <1>1, SlackType DEF Accounted
<1> QED
  BY <1>2, <1>3, <1>4, <1>5

\* Lines go.
LEMMA LinesDropped ==
  ASSUME CartsInv, UNCHANGED <<gen, cartHistory>>, OwnersMove,
         owner' \in [CartIds -> {"unborn", "guest", "user", "gone"}],
         qty' \in [CartIds -> [CartVariants -> 0 .. MaxLine]],
         \A c \in CartIds, v \in CartVariants : qty'[c][v] = 0 \/ qty'[c][v] = qty[c][v]
  PROVE  RowsTyped' /\ HistoryTyped' /\ Accounted' /\ LinesMove
<1>1. UNCHANGED <<gen, asked, ordered, resold>>
  BY DEF cartHistory
<1>2. RowsTyped' /\ HistoryTyped'
  BY <1>1 DEF CartsInv, RowsTyped, HistoryTyped
<1>3. \A c, v : Slack(c, v)' = Slack(c, v)
  BY <1>1 DEF Slack
<1>4. ASSUME NEW c \in CartIds, NEW v \in CartVariants
      PROVE  /\ qty'[c][v] <= Slack(c, v)
             /\ gen[c][v] <= gen'[c][v]
             /\ qty'[c][v] > 0 => qty[c][v] > 0 /\ Slack(c, v) <= Slack(c, v)
             /\ Slack(c, v) <= Slack(c, v)
  BY <1>1, LineTypes
<1> QED
  BY <1>2, <1>3, <1>4 DEF Accounted, LinesMove

\* A line is written, with what was asked for it.
LEMMA LineWritten ==
  ASSUME CartsInv, NEW c \in CartIds, NEW v \in CartVariants, NEW n \in 0 .. MaxLine, NEW a \in Nat,
         qty' = [qty EXCEPT ![c][v] = n],
         (gen' = gen /\ qty[c][v] > 0) \/ gen' = [gen EXCEPT ![c][v] = gen[c][v] + 1],
         asked' = [asked EXCEPT ![c][v] = asked[c][v] + a],
         UNCHANGED <<owner, ordered, resold>>, n <= Slack(c, v) + a
  PROVE  RowsTyped' /\ HistoryTyped' /\ Accounted' /\ OwnersMove /\ LinesMove
<1>1. RowsTyped /\ HistoryTyped
  BY DEF CartsInv
<1>2. gen[c][v] + 1 \in Nat /\ asked[c][v] + a \in Nat
  BY LineTypes
<1>3. /\ qty' \in [CartIds -> [CartVariants -> 0 .. MaxLine]]
      /\ \A d \in CartIds, w \in CartVariants : qty'[d][w] = IF d = c /\ w = v THEN n ELSE qty[d][w]
  BY <1>1, PutLine DEF RowsTyped
<1>4. /\ asked' \in [CartIds -> [CartVariants -> Nat]]
      /\ \A d \in CartIds, w \in CartVariants :
            asked'[d][w] = IF d = c /\ w = v THEN asked[c][v] + a ELSE asked[d][w]
  <2>1. PICK m \in Nat : m = asked[c][v] + a
    BY <1>2
  <2>2. asked \in [CartIds -> [CartVariants -> Nat]] /\ asked' = [asked EXCEPT ![c][v] = m]
    BY <1>1, <2>1 DEF HistoryTyped
  <2>3. /\ asked' \in [CartIds -> [CartVariants -> Nat]]
        /\ \A d \in CartIds, w \in CartVariants : asked'[d][w] = IF d = c /\ w = v THEN m ELSE asked[d][w]
    BY <2>2, PutLine
  <2> QED
    BY <2>1, <2>3
<1>5. /\ gen' \in [CartIds -> [CartVariants -> Nat]]
      /\ \A d \in CartIds, w \in CartVariants :
            IF d = c /\ w = v THEN (gen'[d][w] = gen[c][v] /\ qty[c][v] > 0) \/ gen'[d][w] = gen[c][v] + 1
            ELSE gen'[d][w] = gen[d][w]
  <2>1. CASE gen' = gen /\ qty[c][v] > 0
    BY <1>1, <2>1 DEF RowsTyped
  <2>2. CASE gen' = [gen EXCEPT ![c][v] = gen[c][v] + 1]
    <3>1. PICK m \in Nat : m = gen[c][v] + 1
      BY <1>2
    <3>2. gen \in [CartIds -> [CartVariants -> Nat]] /\ gen' = [gen EXCEPT ![c][v] = m]
      BY <1>1, <2>2, <3>1 DEF RowsTyped
    <3>3. /\ gen' \in [CartIds -> [CartVariants -> Nat]]
          /\ \A d \in CartIds, w \in CartVariants : gen'[d][w] = IF d = c /\ w = v THEN m ELSE gen[d][w]
      BY <3>2, PutLine
    <3> QED
      BY <3>1, <3>3
  <2> QED
    BY <2>1, <2>2
<1>6. RowsTyped' /\ HistoryTyped' /\ OwnersMove
  BY <1>1, <1>3, <1>4, <1>5 DEF RowsTyped, HistoryTyped, OwnersMove
<1>7. ASSUME NEW d \in CartIds, NEW w \in CartVariants
      PROVE  /\ qty'[d][w] <= Slack(d, w)'
             /\ gen[d][w] <= gen'[d][w]
             /\ qty'[d][w] > 0 /\ gen'[d][w] = gen[d][w] => qty[d][w] > 0
             /\ Slack(d, w) <= Slack(d, w)'
  <2>1. Slack(d, w)' = asked'[d][w] + resold[d][w] - ordered[d][w]
    BY DEF Slack
  <2>2. /\ qty[d][w] \in Nat /\ gen[d][w] \in Nat /\ asked[d][w] \in Nat /\ resold[d][w] \in Nat
        /\ ordered[d][w] \in Nat /\ qty[d][w] <= Slack(d, w) /\ Slack(d, w) \in Int
    BY LineTypes
  <2>3. CASE d = c /\ w = v
    <3>1. Slack(d, w)' = Slack(d, w) + a
      BY <1>4, <2>1, <2>2, <2>3 DEF Slack
    <3>2. qty'[d][w] = n
      BY <1>3, <2>3
    <3>3. (gen'[d][w] = gen[d][w] /\ qty[d][w] > 0) \/ gen'[d][w] = gen[d][w] + 1
      BY <1>5, <2>3
    <3> QED
      BY <2>2, <2>3, <3>1, <3>2, <3>3
  <2>4. CASE ~(d = c /\ w = v)
    <3>1. Slack(d, w)' = Slack(d, w) /\ qty'[d][w] = qty[d][w] /\ gen'[d][w] = gen[d][w]
      BY <1>3, <1>4, <1>5, <2>1, <2>4 DEF Slack
    <3> QED
      BY <2>2, <3>1
  <2> QED
    BY <2>3, <2>4
<1> QED
  BY <1>6, <1>7 DEF Accounted, LinesMove

LEMMA InsertLineKeeps ==
  ASSUME CartsInv, NEW k \in CartCalls, InsertLine(k) PROVE CartsInv'
<1>1. PICK c, v, n : c = cart[k] /\ v = item[k] /\ n = amount[k]
  OBVIOUS
<1>2. c \in CartIds /\ v \in CartVariants /\ n \in 0 .. MaxAsk
  BY <1>1, OwnReads DEF InsertLine, CartsInv, Holds, Active
<1>3. n \in 0 .. MaxLine /\ n \in Nat
  BY <1>2, CartsAssumption
<1>4. /\ qty[c][v] = 0 /\ qty' = [qty EXCEPT ![c][v] = n] /\ gen' = [gen EXCEPT ![c][v] = gen[c][v] + 1]
      /\ asked' = [asked EXCEPT ![c][v] = asked[c][v] + n]
      /\ Goto(k, "done") /\ UNCHANGED <<owner, cartReads, ordered, resold>>
  BY <1>1 DEF InsertLine
<1>5. n <= Slack(c, v) + n
  BY <1>2, <1>3, <1>4, LineTypes
<1>6. RowsTyped' /\ HistoryTyped' /\ Accounted' /\ OwnersMove /\ LinesMove
  BY <1>2, <1>3, <1>4, <1>5, LineWritten
<1> QED
  BY <1>4, <1>6, WriteKeeps

LEMMA WriteLineKeeps ==
  ASSUME CartsInv, NEW k \in CartCalls, WriteLine(k) PROVE CartsInv'
<1>1. PICK c, v, a : c = cart[k] /\ v = item[k] /\ a = amount[k]
  OBVIOUS
<1>2. c \in CartIds /\ v \in CartVariants /\ a \in 0 .. MaxAsk /\ seen[k] \in Units
  BY <1>1, OwnReads DEF WriteLine, CartsInv, Holds, Active
<1>3. a \in Nat /\ a <= MaxLine /\ seen[k][v] \in Nat
  BY <1>2, CartsAssumption DEF Units
<1>4. PICK n : n = IF at[k] = "raise" THEN seen[k][v] + a ELSE a
  OBVIOUS
<1>5. /\ LineStands(k, v) /\ qty' = [qty EXCEPT ![c][v] = n] /\ gen' = gen
      /\ asked' = [asked EXCEPT ![c][v] = asked[c][v] + a]
      /\ Goto(k, "done") /\ UNCHANGED <<owner, cartReads, ordered, resold>>
  BY <1>1, <1>4 DEF WriteLine
<1>6. qty[c][v] > 0 /\ Slack(c, v) \in Int /\ qty[c][v] <= Slack(c, v) /\ qty[c][v] \in Nat
  BY <1>1, <1>2, <1>5, LineTypes DEF LineStands
<1>7. n \in 0 .. MaxLine /\ n <= Slack(c, v) + a
  <2>1. CASE at[k] = "raise"
    <3>1. RaiseOK(k)
      BY <2>1 DEF CartsInv, Holds
    <3>2. seen[k][v] + a <= MaxLine /\ seen[k][v] <= Slack(c, v)
      BY <1>1, <1>5, <3>1 DEF RaiseOK
    <3> QED
      BY <1>3, <1>4, <1>6, <2>1, <3>2, CartsAssumption
  <2>2. CASE at[k] # "raise"
    BY <1>3, <1>4, <1>6, <2>2, CartsAssumption
  <2> QED
    BY <2>1, <2>2
<1>8. RowsTyped' /\ HistoryTyped' /\ Accounted' /\ OwnersMove /\ LinesMove
  BY <1>2, <1>3, <1>5, <1>6, <1>7, LineWritten
<1> QED
  BY <1>5, <1>8, WriteKeeps

LEMMA NoLinesType == NoLines \in [CartVariants -> 0 .. MaxLine] /\ NoLines \in Units
<1>1. 0 \in 0 .. MaxLine
  BY CartsAssumption
<1> QED
  BY <1>1 DEF NoLines, Units

LEMMA RemoveLineKeeps ==
  ASSUME CartsInv, NEW k \in CartCalls, RemoveLine(k) PROVE CartsInv'
<1>1. PICK c, v : c = cart[k] /\ v = item[k]
  OBVIOUS
<1>2. c \in CartIds /\ v \in CartVariants /\ 0 \in 0 .. MaxLine
  BY <1>1, OwnReads, CartsAssumption DEF RemoveLine, CartsInv, Holds, Active
<1>3. qty' = [qty EXCEPT ![c][v] = 0] /\ Goto(k, "done") /\ UNCHANGED <<owner, gen, cartReads, cartHistory>>
  BY <1>1 DEF RemoveLine
<1>4. RowsTyped
  BY DEF CartsInv
<1>5. /\ qty' \in [CartIds -> [CartVariants -> 0 .. MaxLine]]
      /\ \A d \in CartIds, w \in CartVariants : qty'[d][w] = IF d = c /\ w = v THEN 0 ELSE qty[d][w]
  BY <1>2, <1>3, <1>4, PutLine DEF RowsTyped
<1>6. OwnersMove /\ owner' \in [CartIds -> {"unborn", "guest", "user", "gone"}]
  BY <1>3, <1>4 DEF OwnersMove, RowsTyped
<1>7. RowsTyped' /\ HistoryTyped' /\ Accounted' /\ LinesMove
  BY <1>3, <1>5, <1>6, LinesDropped
<1> QED
  BY <1>3, <1>6, <1>7, WriteKeeps

LEMMA ClearLinesKeeps ==
  ASSUME CartsInv, NEW k \in CartCalls, ClearLines(k) PROVE CartsInv'
<1>1. PICK c : c = cart[k]
  OBVIOUS
<1>2. c \in CartIds
  BY <1>1 DEF ClearLines, CartsInv, Holds, Active
<1>3. qty' = [qty EXCEPT ![c] = NoLines] /\ Goto(k, "done") /\ UNCHANGED <<owner, gen, cartReads, cartHistory>>
  BY <1>1 DEF ClearLines
<1>4. RowsTyped
  BY DEF CartsInv
<1>5. /\ qty' \in [CartIds -> [CartVariants -> 0 .. MaxLine]]
      /\ \A d \in CartIds, w \in CartVariants : qty'[d][w] = IF d = c THEN NoLines[w] ELSE qty[d][w]
  BY <1>2, <1>3, <1>4, NoLinesType, PutRow DEF RowsTyped
<1>6. \A d \in CartIds, w \in CartVariants : qty'[d][w] = 0 \/ qty'[d][w] = qty[d][w]
  BY <1>5 DEF NoLines
<1>7. OwnersMove /\ owner' \in [CartIds -> {"unborn", "guest", "user", "gone"}]
  BY <1>3, <1>4 DEF OwnersMove, RowsTyped
<1>8. RowsTyped' /\ HistoryTyped' /\ Accounted' /\ LinesMove
  BY <1>3, <1>5, <1>6, <1>7, LinesDropped
<1> QED
  BY <1>3, <1>7, <1>8, WriteKeeps

LEMMA DeleteEmptyKeeps ==
  ASSUME CartsInv, NEW k \in CartCalls, DeleteEmpty(k) PROVE CartsInv'
<1>1. PICK c : c = cart[k]
  OBVIOUS
<1>2. c \in CartIds
  BY <1>1 DEF DeleteEmpty, CartsInv, Holds, Active
<1>3. /\ owner[c] = "guest" /\ owner' = [owner EXCEPT ![c] = "gone"]
      /\ qty' = [qty EXCEPT ![c] = NoLines] /\ Goto(k, "done") /\ UNCHANGED <<gen, cartReads, cartHistory>>
  BY <1>1 DEF DeleteEmpty, StillGuest
<1>4. RowsTyped
  BY DEF CartsInv
<1>5. /\ qty' \in [CartIds -> [CartVariants -> 0 .. MaxLine]]
      /\ \A d \in CartIds, w \in CartVariants : qty'[d][w] = IF d = c THEN NoLines[w] ELSE qty[d][w]
  BY <1>2, <1>3, <1>4, NoLinesType, PutRow DEF RowsTyped
<1>6. \A d \in CartIds, w \in CartVariants : qty'[d][w] = 0 \/ qty'[d][w] = qty[d][w]
  BY <1>5 DEF NoLines
<1>7. OwnersMove /\ owner' \in [CartIds -> {"unborn", "guest", "user", "gone"}]
  BY <1>2, <1>3, <1>4 DEF OwnersMove, RowsTyped
<1>8. RowsTyped' /\ HistoryTyped' /\ Accounted' /\ LinesMove
  BY <1>3, <1>5, <1>6, <1>7, LinesDropped
<1> QED
  BY <1>3, <1>7, <1>8, WriteKeeps

LEMMA CreateCartKeeps ==
  ASSUME CartsInv, NEW k \in CartCalls, NEW o \in Owners, CreateCart(k, o) PROVE CartsInv'
<1>1. PICK c \in Fresh : owner' = [owner EXCEPT ![c] = o] /\ cart' = [cart EXCEPT ![k] = c]
  BY DEF CreateCart
<1>2. Goto(k, "insert") /\ UNCHANGED <<qty, gen, item, amount, seen, seenGen, into, base, cartHistory>>
  BY DEF CreateCart
<1>3. c \in CartIds /\ owner[c] = "unborn" /\ c \in 0 .. MaxCarts
  BY CartsAssumption DEF Fresh, Carts, CartIds
<1>4. RowsTyped /\ ReadsTyped
  BY DEF CartsInv
<1>5. OwnersMove /\ owner' \in [CartIds -> {"unborn", "guest", "user", "gone"}]
  BY <1>1, <1>3, <1>4 DEF OwnersMove, RowsTyped, Owners
<1>6. RowsTyped' /\ HistoryTyped' /\ Accounted' /\ LinesMove
  BY <1>2, <1>4, <1>5, LinesDropped DEF RowsTyped
<1>7. at[k] \notin {"commit", "done"}
  <2>1. CreateStep["guest"] = "create guest" /\ CreateStep["user"] = "create user"
    BY DEF CreateStep
  <2>2. o = "guest" \/ o = "user"
    BY DEF Owners
  <2> QED
    BY <2>1, <2>2 DEF CreateCart
<1>8. into[k] = 0 /\ base[k] = NoLines
  BY <1>7, Before
<1>9. Takes(k, "insert", c, item[k], amount[k], seen[k], seenGen[k], into[k], base[k])
  BY <1>1, <1>2, OwnReads DEF Takes, Goto
<1>10. "insert" \in CartSteps /\ "insert" \notin {"commit", "done", "raise", "merge"}
  BY DEF CartSteps
<1>11. ReadsTyped' /\ (\A j \in CartCalls \ {k} : SameRequest(j))
       /\ at'[k] = "insert" /\ cart'[k] = c /\ into'[k] = into[k] /\ base'[k] = base[k]
  BY <1>3, <1>4, <1>9, <1>10, OwnReads, TakesTyped
<1>12. Holds(k)'
  BY <1>3, <1>8, <1>10, <1>11 DEF Holds, NoLines
<1> QED
  BY <1>5, <1>6, <1>11, <1>12, StepKeeps

LEMMA ClaimLinesKeeps ==
  ASSUME CartsInv, NEW k \in CartCalls, ClaimLines(k) PROVE CartsInv'
<1>1. PICK c : c = cart[k]
  OBVIOUS
<1>2. c \in CartIds /\ seen[k] \in Units
  BY <1>1, OwnReads DEF ClaimLines, CartsInv, Holds, Active
<1>3. PICK lines : lines = {v \in CartVariants : seen[k][v] > 0}
  OBVIOUS
<1> DEFINE left == [v \in CartVariants |-> IF v \in lines THEN 0 ELSE qty[c][v]]
           sold == [v \in CartVariants |-> ordered[c][v] + seen[k][v]]
           twice == [v \in CartVariants |-> resold[c][v] + seen[k][v]]
<1>4. /\ \A v \in lines : qty[c][v] > 0 /\ qty[c][v] = seen[k][v]
      /\ qty' = [qty EXCEPT ![c] = left] /\ ordered' = [ordered EXCEPT ![c] = sold]
      /\ resold' = (IF HeldByMerge(c) THEN [resold EXCEPT ![c] = twice] ELSE resold)
      /\ Goto(k, "done") /\ UNCHANGED <<owner, gen, cartReads, asked>>
  BY <1>1, <1>3 DEF ClaimLines, AsRead, LineStands
<1>5. RowsTyped /\ HistoryTyped
  BY DEF CartsInv
<1>6. \A v \in CartVariants : seen[k][v] \in Nat
  BY <1>2 DEF Units
<1>7. left \in [CartVariants -> 0 .. MaxLine]
  BY <1>2, LineTypes, CartsAssumption
<1>8. sold \in [CartVariants -> Nat] /\ twice \in [CartVariants -> Nat]
  BY <1>2, <1>6, LineTypes
<1>9. \A v \in CartVariants : left[v] = IF v \in lines THEN 0 ELSE qty[c][v]
  OBVIOUS
<1>9s. \A v \in CartVariants : sold[v] = ordered[c][v] + seen[k][v]
  OBVIOUS
<1>9t. \A v \in CartVariants : twice[v] = resold[c][v] + seen[k][v]
  OBVIOUS
<1> HIDE DEF left, sold, twice
<1>10. /\ qty' \in [CartIds -> [CartVariants -> 0 .. MaxLine]]
       /\ \A d \in CartIds, w \in CartVariants : qty'[d][w] = IF d = c THEN left[w] ELSE qty[d][w]
  BY <1>2, <1>4, <1>5, <1>7, PutRow DEF RowsTyped
<1>11. /\ ordered' \in [CartIds -> [CartVariants -> Nat]]
       /\ \A d \in CartIds, w \in CartVariants : ordered'[d][w] = IF d = c THEN sold[w] ELSE ordered[d][w]
  BY <1>2, <1>4, <1>5, <1>8, PutRow DEF HistoryTyped
<1>12. /\ resold' \in [CartIds -> [CartVariants -> Nat]]
       /\ \A d \in CartIds, w \in CartVariants :
             resold'[d][w] = IF d = c /\ HeldByMerge(c) THEN twice[w] ELSE resold[d][w]
  <2>1. CASE HeldByMerge(c)
    <3>1. /\ resold' \in [CartIds -> [CartVariants -> Nat]]
          /\ \A d \in CartIds, w \in CartVariants : resold'[d][w] = IF d = c THEN twice[w] ELSE resold[d][w]
      BY <1>2, <1>4, <1>5, <1>8, <2>1, PutRow DEF HistoryTyped
    <3> QED
      BY <2>1, <3>1
  <2>2. CASE ~HeldByMerge(c)
    BY <1>4, <1>5, <2>2 DEF HistoryTyped
  <2> QED
    BY <2>1, <2>2
<1>13. RowsTyped' /\ HistoryTyped' /\ OwnersMove
  BY <1>4, <1>5, <1>10, <1>11, <1>12 DEF RowsTyped, HistoryTyped, OwnersMove
<1>14. ASSUME NEW d \in CartIds, NEW w \in CartVariants
       PROVE  /\ qty'[d][w] <= Slack(d, w)'
              /\ gen[d][w] <= gen'[d][w]
              /\ qty'[d][w] > 0 => qty[d][w] > 0 /\ Slack(d, w) <= Slack(d, w)'
              /\ HeldByMerge(d) => Slack(d, w) <= Slack(d, w)'
  <2>1. Slack(d, w)' = asked[d][w] + resold'[d][w] - ordered'[d][w] /\ gen' = gen
    BY <1>4 DEF Slack
  <2>2. /\ qty[d][w] \in Nat /\ gen[d][w] \in Nat /\ asked[d][w] \in Nat /\ resold[d][w] \in Nat
        /\ ordered[d][w] \in Nat /\ qty[d][w] <= Slack(d, w) /\ Slack(d, w) \in Int
    BY LineTypes
  <2>3. CASE d = c /\ w \in lines
    <3>1. qty'[d][w] = 0 /\ qty[d][w] = seen[k][w] /\ seen[k][w] \in Nat
      BY <1>4, <1>6, <1>9, <1>10, <2>3
    <3>2. ordered'[d][w] = ordered[d][w] + seen[k][w]
      <4>1. ordered'[d][w] = sold[w] /\ sold[w] = ordered[c][w] + seen[k][w]
        BY <1>11, <1>9s, <2>3
      <4> QED
        BY <2>3, <4>1
    <3>3. ASSUME HeldByMerge(d) PROVE Slack(d, w)' = Slack(d, w)
      <4>1. resold'[d][w] = twice[w] /\ twice[w] = resold[c][w] + seen[k][w]
        BY <1>12, <1>9t, <2>3, <3>3
      <4>2. resold'[d][w] = resold[d][w] + seen[k][w]
        BY <2>3, <4>1
      <4> QED
        BY <2>1, <2>2, <3>1, <3>2, <4>2 DEF Slack
    <3>4. ASSUME ~HeldByMerge(d) PROVE Slack(d, w)' = Slack(d, w) - seen[k][w]
      <4>1. resold'[d][w] = resold[d][w]
        BY <1>12, <2>3, <3>4
      <4> QED
        BY <2>1, <2>2, <3>1, <3>2, <4>1 DEF Slack
    <3>5. qty'[d][w] <= Slack(d, w)' /\ (HeldByMerge(d) => Slack(d, w) <= Slack(d, w)')
      BY <2>2, <3>1, <3>3, <3>4
    <3>6. ~(qty'[d][w] > 0) /\ gen[d][w] <= gen'[d][w]
      BY <2>1, <2>2, <3>1
    <3> QED
      BY <3>5, <3>6
  <2>4. CASE d = c /\ w \notin lines
    <3>1. seen[k][w] = 0
      BY <1>3, <1>6, <2>4
    <3>2. qty'[d][w] = qty[d][w] /\ ordered'[d][w] = ordered[d][w] /\ resold'[d][w] = resold[d][w]
      <4>1. qty'[d][w] = qty[d][w]
        BY <1>9, <1>10, <2>4
      <4>2. ordered'[d][w] = ordered[d][w] + 0
        <5>1. ordered'[d][w] = sold[w] /\ sold[w] = ordered[c][w] + seen[k][w]
          BY <1>11, <1>9s, <2>4
        <5> QED
          BY <2>4, <3>1, <5>1
      <4>3. resold'[d][w] = resold[d][w] \/ resold'[d][w] = resold[d][w] + 0
        <5>1. resold'[d][w] = resold[d][w] \/ resold'[d][w] = twice[w]
          BY <1>12
        <5>2. twice[w] = resold[d][w] + 0
          BY <1>9t, <2>4, <3>1
        <5> QED
          BY <5>1, <5>2
      <4> QED
        BY <2>2, <4>1, <4>2, <4>3
    <3> QED
      BY <2>1, <2>2, <3>2 DEF Slack
  <2>5. CASE d # c
    <3>1. qty'[d][w] = qty[d][w] /\ ordered'[d][w] = ordered[d][w] /\ resold'[d][w] = resold[d][w]
      BY <1>10, <1>11, <1>12, <2>5
    <3> QED
      BY <2>1, <2>2, <3>1 DEF Slack
  <2> QED
    BY <2>3, <2>4, <2>5
<1>15. Accounted' /\ LinesMove
  BY <1>14 DEF Accounted, LinesMove
<1> QED
  BY <1>4, <1>13, <1>15, WriteKeeps

\* The carts of a merge that commits.
LEMMA MergedCarts ==
  ASSUME CartsInv, NEW k \in CartCalls, NEW u \in CartIds, NEW available \in [CartVariants -> 0 .. MaxLine + 1],
         CommitMerge(k, u, available)
  PROVE  /\ cart[k] \in CartIds /\ owner[cart[k]] = "guest" /\ u # cart[k]
         /\ owner[u] \in {"unborn", "user"}
         /\ \A v \in CartVariants : seen[k][v] <= Slack(cart[k], v) /\ base[k][v] <= Slack(u, v)
<1>1. at[k] = "commit" /\ owner[cart[k]] = "guest" /\ u \in (IF into[k] > 0 THEN {into[k]} ELSE Fresh)
  BY DEF CommitMerge, StillGuest
<1>2. cart[k] \in CartIds /\ MergeOK(k) /\ CommitOK(k)
  BY <1>1 DEF CartsInv, Holds, Active
<1>3. into[k] \in Nat
  BY OwnReads, CartsAssumption
<1>4. CASE into[k] > 0
  <2>1. u = into[k] /\ into[k] # 0
    BY <1>1, <1>3, <1>4
  <2>2. owner[u] = "user" /\ \A v \in CartVariants : base[k][v] <= Slack(u, v)
    BY <1>2, <2>1 DEF CommitOK
  <2>3. \A v \in CartVariants : seen[k][v] <= Slack(cart[k], v)
    BY <1>1, <1>2 DEF MergeOK
  <2> QED
    BY <1>1, <1>2, <2>2, <2>3
<1>5. CASE ~(into[k] > 0)
  <2>1. into[k] = 0 /\ u \in Fresh
    BY <1>1, <1>3, <1>5
  <2>2. owner[u] = "unborn" /\ base[k] = NoLines
    BY <1>2, <2>1 DEF CommitOK, Fresh, Carts
  <2>3. ASSUME NEW v \in CartVariants PROVE base[k][v] <= Slack(u, v)
    <3>1. base[k][v] = 0
      BY <2>2 DEF NoLines
    <3> QED
      BY <3>1, LineTypes
  <2>4. \A v \in CartVariants : seen[k][v] <= Slack(cart[k], v)
    BY <1>1, <1>2 DEF MergeOK
  <2> QED
    BY <1>1, <1>2, <2>2, <2>3, <2>4
<1> QED
  BY <1>4, <1>5

LEMMA CommitMergeKeeps ==
  ASSUME CartsInv, NEW k \in CartCalls, NEW u \in CartIds, NEW available \in [CartVariants -> 0 .. MaxLine + 1],
         CommitMerge(k, u, available)
  PROVE  CartsInv'
<1>1. PICK g \in CartIds :
        /\ g = cart[k] /\ owner[g] = "guest" /\ u # g /\ owner[u] \in {"unborn", "user"}
        /\ \A v \in CartVariants : seen[k][v] <= Slack(g, v) /\ base[k][v] <= Slack(u, v)
  BY MergedCarts
<1>2. PICK moved \in SUBSET CartVariants : moved = {v \in CartVariants : seen[k][v] > 0 /\ available[v] > 0}
  OBVIOUS
<1> DEFINE line == [v \in CartVariants |-> IF v \in moved THEN Merged(k, v, available[v]) ELSE qty[u][v]]
           born == [v \in CartVariants |-> IF v \in moved /\ qty[u][v] = 0 THEN gen[u][v] + 1 ELSE gen[u][v]]
           ask  == [v \in CartVariants |-> asked[u][v] + asked[g][v]]
           ord  == [v \in CartVariants |-> ordered[u][v] + ordered[g][v]]
           again == [v \in CartVariants |-> resold[u][v] + resold[g][v]]
<1>3. /\ owner' = [owner EXCEPT ![u] = "user", ![g] = "gone"]
      /\ qty' = [qty EXCEPT ![u] = line, ![g] = NoLines] /\ gen' = [gen EXCEPT ![u] = born]
  BY <1>1, <1>2 DEF CommitMerge
<1>4. /\ asked' = [asked EXCEPT ![u] = ask, ![g] = NoLines] /\ ordered' = [ordered EXCEPT ![u] = ord, ![g] = NoLines]
      /\ resold' = [resold EXCEPT ![u] = again, ![g] = NoLines]
  BY <1>1 DEF CommitMerge
<1>5. Goto(k, "done") /\ UNCHANGED cartReads
  BY DEF CommitMerge
<1>6. RowsTyped /\ HistoryTyped /\ seen[k] \in Units /\ base[k] \in Units
  BY OwnReads DEF CartsInv
<1>7. ASSUME NEW v \in CartVariants
      PROVE  /\ Merged(k, v, available[v]) \in 0 .. MaxLine
             /\ Merged(k, v, available[v]) <= base[k][v] + seen[k][v]
  <2>1. base[k][v] + seen[k][v] \in Nat /\ MaxLine \in Nat
    BY <1>6, CartsAssumption DEF Units
  <2>2. available[v] \in Nat
    BY CartsAssumption
  <2>3. PICK total \in Nat : total = base[k][v] + seen[k][v]
    BY <2>1
  <2>4. Merged(k, v, available[v]) = Least({total, available[v], MaxLine})
    BY <2>3 DEF Merged
  <2>5. LET n == Least({total, available[v], MaxLine}) IN n \in Nat /\ n <= total /\ n <= available[v] /\ n <= MaxLine
    BY <2>1, <2>2, LeastOfThree
  <2> QED
    BY <2>1, <2>3, <2>4, <2>5
<1>8. line \in [CartVariants -> 0 .. MaxLine]
  BY <1>7, LineTypes
<1>9. born \in [CartVariants -> Nat] /\ ask \in [CartVariants -> Nat]
  BY <1>1, LineTypes
<1>10. ord \in [CartVariants -> Nat] /\ again \in [CartVariants -> Nat]
  BY <1>1, LineTypes
<1>11. \A v \in CartVariants : line[v] = IF v \in moved THEN Merged(k, v, available[v]) ELSE qty[u][v]
  OBVIOUS
<1>12. \A v \in CartVariants : born[v] = IF v \in moved /\ qty[u][v] = 0 THEN gen[u][v] + 1 ELSE gen[u][v]
  OBVIOUS
<1>13. \A v \in CartVariants : ask[v] = asked[u][v] + asked[g][v]
  OBVIOUS
<1>14. \A v \in CartVariants : ord[v] = ordered[u][v] + ordered[g][v]
  OBVIOUS
<1>15. \A v \in CartVariants : again[v] = resold[u][v] + resold[g][v]
  OBVIOUS
<1> HIDE DEF line, born, ask, ord, again
<1>16. /\ qty' \in [CartIds -> [CartVariants -> 0 .. MaxLine]]
       /\ \A d \in CartIds, w \in CartVariants :
             qty'[d][w] = IF d = g THEN NoLines[w] ELSE IF d = u THEN line[w] ELSE qty[d][w]
  BY <1>1, <1>3, <1>6, <1>8, NoLinesType, PutRows DEF RowsTyped
<1>17. /\ gen' \in [CartIds -> [CartVariants -> Nat]]
       /\ \A d \in CartIds, w \in CartVariants : gen'[d][w] = IF d = u THEN born[w] ELSE gen[d][w]
  BY <1>3, <1>6, <1>9, PutRow DEF RowsTyped
<1>18. /\ asked' \in [CartIds -> [CartVariants -> Nat]]
       /\ \A d \in CartIds, w \in CartVariants :
             asked'[d][w] = IF d = g THEN NoLines[w] ELSE IF d = u THEN ask[w] ELSE asked[d][w]
  <2>1. asked \in [CartIds -> [CartVariants -> Nat]] /\ NoLines \in [CartVariants -> Nat]
    BY <1>6, NoLinesType DEF HistoryTyped, Units
  <2> QED
    BY <1>1, <1>4, <1>9, <2>1, PutRows
<1>19. /\ ordered' \in [CartIds -> [CartVariants -> Nat]]
       /\ \A d \in CartIds, w \in CartVariants :
             ordered'[d][w] = IF d = g THEN NoLines[w] ELSE IF d = u THEN ord[w] ELSE ordered[d][w]
  <2>1. ordered \in [CartIds -> [CartVariants -> Nat]] /\ NoLines \in [CartVariants -> Nat]
    BY <1>6, NoLinesType DEF HistoryTyped, Units
  <2> QED
    BY <1>1, <1>4, <1>10, <2>1, PutRows
<1>20. /\ resold' \in [CartIds -> [CartVariants -> Nat]]
       /\ \A d \in CartIds, w \in CartVariants :
             resold'[d][w] = IF d = g THEN NoLines[w] ELSE IF d = u THEN again[w] ELSE resold[d][w]
  <2>1. resold \in [CartIds -> [CartVariants -> Nat]] /\ NoLines \in [CartVariants -> Nat]
    BY <1>6, NoLinesType DEF HistoryTyped, Units
  <2> QED
    BY <1>1, <1>4, <1>10, <2>1, PutRows
<1>21. /\ owner' \in [CartIds -> {"unborn", "guest", "user", "gone"}]
       /\ \A d \in CartIds : owner'[d] = IF d = g THEN "gone" ELSE IF d = u THEN "user" ELSE owner[d]
  BY <1>3, <1>6 DEF RowsTyped
<1>22. RowsTyped' /\ HistoryTyped'
  BY <1>16, <1>17, <1>18, <1>19, <1>20, <1>21 DEF RowsTyped, HistoryTyped
<1>23. OwnersMove
  BY <1>1, <1>21 DEF OwnersMove
<1>24. ASSUME NEW d \in CartIds, NEW w \in CartVariants
       PROVE  /\ qty'[d][w] <= Slack(d, w)'
              /\ gen[d][w] <= gen'[d][w]
              /\ qty'[d][w] > 0 /\ gen'[d][w] = gen[d][w] => qty[d][w] > 0 /\ Slack(d, w) <= Slack(d, w)'
              /\ owner'[d] \in Owners => Slack(d, w) <= Slack(d, w)'
  <2>1. Slack(d, w)' = asked'[d][w] + resold'[d][w] - ordered'[d][w]
    BY DEF Slack
  <2>2. /\ qty[d][w] \in Nat /\ gen[d][w] \in Nat /\ asked[d][w] \in Nat /\ resold[d][w] \in Nat
        /\ ordered[d][w] \in Nat /\ qty[d][w] <= Slack(d, w) /\ Slack(d, w) \in Int
    BY LineTypes
  <2>3. CASE d = g
    <3>1. qty'[d][w] = 0 /\ asked'[d][w] = 0 /\ resold'[d][w] = 0 /\ ordered'[d][w] = 0
      BY <1>16, <1>18, <1>19, <1>20, <2>3 DEF NoLines
    <3>2. gen'[d][w] = gen[d][w] /\ owner'[d] = "gone"
      BY <1>1, <1>17, <1>21, <2>3
    <3> QED
      BY <2>1, <2>2, <3>1, <3>2 DEF Owners
  <2>4. CASE d = u
    <3>1. /\ qty[g][w] \in Nat /\ asked[g][w] \in Nat /\ resold[g][w] \in Nat /\ ordered[g][w] \in Nat
          /\ qty[g][w] <= Slack(g, w)
      BY LineTypes
    <3>2. asked'[d][w] = asked[d][w] + asked[g][w]
      <4>1. asked'[d][w] = ask[w] /\ ask[w] = asked[u][w] + asked[g][w]
        BY <1>1, <1>13, <1>18, <2>4
      <4> QED
        BY <2>4, <4>1
    <3>3. ordered'[d][w] = ordered[d][w] + ordered[g][w]
      <4>1. ordered'[d][w] = ord[w] /\ ord[w] = ordered[u][w] + ordered[g][w]
        BY <1>1, <1>14, <1>19, <2>4
      <4> QED
        BY <2>4, <4>1
    <3>4. resold'[d][w] = resold[d][w] + resold[g][w]
      <4>1. resold'[d][w] = again[w] /\ again[w] = resold[u][w] + resold[g][w]
        BY <1>1, <1>15, <1>20, <2>4
      <4> QED
        BY <2>4, <4>1
    <3>5. Slack(d, w)' = Slack(d, w) + Slack(g, w) /\ Slack(g, w) \in Nat
      BY <2>1, <2>2, <3>1, <3>2, <3>3, <3>4 DEF Slack
    <3>6. qty'[d][w] = line[w] /\ gen'[d][w] = born[w]
      BY <1>1, <1>16, <1>17, <2>4
    <3>7. CASE w \in moved
      <4>1. line[w] \in Nat /\ line[w] <= base[k][w] + seen[k][w]
        BY <1>7, <1>11, <3>7, CartsAssumption
      <4>2. base[k][w] <= Slack(d, w) /\ seen[k][w] <= Slack(g, w) /\ base[k][w] \in Nat /\ seen[k][w] \in Nat
        BY <1>1, <1>6, <2>4 DEF Units
      <4>3. (qty[d][w] = 0 /\ born[w] = gen[d][w] + 1) \/ (qty[d][w] # 0 /\ born[w] = gen[d][w])
        BY <1>12, <2>4, <3>7
      <4>4. qty'[d][w] <= Slack(d, w)' /\ Slack(d, w) <= Slack(d, w)'
        BY <2>2, <3>5, <3>6, <4>1, <4>2
      <4>5. gen[d][w] <= gen'[d][w] /\ (gen'[d][w] = gen[d][w] => qty[d][w] > 0)
        BY <2>2, <3>6, <4>3
      <4> QED
        BY <4>4, <4>5
    <3>8. CASE w \notin moved
      <4>1. line[w] = qty[d][w] /\ born[w] = gen[d][w]
        BY <1>11, <1>12, <2>4, <3>8
      <4> QED
        BY <2>2, <3>5, <3>6, <4>1
    <3> QED
      BY <3>7, <3>8
  <2>5. CASE d # g /\ d # u
    <3>1. qty'[d][w] = qty[d][w] /\ gen'[d][w] = gen[d][w]
      BY <1>16, <1>17, <2>5
    <3>2. asked'[d][w] = asked[d][w] /\ resold'[d][w] = resold[d][w] /\ ordered'[d][w] = ordered[d][w]
      BY <1>18, <1>19, <1>20, <2>5
    <3>3. Slack(d, w)' = Slack(d, w)
      BY <2>1, <3>2 DEF Slack
    <3> QED
      BY <2>2, <3>1, <3>3
  <2> QED
    BY <2>3, <2>4, <2>5
<1>25. Accounted' /\ LinesMove
  BY <1>24 DEF Accounted, LinesMove
<1> QED
  BY <1>5, <1>22, <1>23, <1>25, WriteKeeps

-----------------------------------------------------------------------------

LEMMA CartsStep == CartsInv /\ [CartsNext]_cartsVars => CartsInv'
<1> SUFFICES ASSUME CartsInv, [CartsNext]_cartsVars PROVE CartsInv'
  OBVIOUS
<1>1. ASSUME NEW k \in CartCalls, NEW o \in Owners,
             \/ \E v \in CartVariants, n \in 1 .. MaxAsk : FindForAdd(k, o, v, n)
             \/ \E v \in CartVariants, n \in 0 .. MaxAsk : FindOwnItem(k, o, v, n)
             \/ CreateCart(k, o)
      PROVE  CartsInv'
  BY <1>1, FindForAddKeeps, FindOwnItemKeeps, CreateCartKeeps
<1>2. ASSUME NEW k \in CartCalls, NEW o \in Owners, FindForClear(k, o) PROVE CartsInv'
  <2>1. PICK c \in Carts(o) : ReadCart(k, c)
    BY <1>2 DEF FindForClear
  <2> QED
    BY <1>2, <2>1, FindCartKeeps DEF FindForClear
<1>3. ASSUME NEW k \in CartCalls, NEW o \in Owners, ReadForOrder(k, o) PROVE CartsInv'
  <2>1. PICK c \in Carts(o) : ReadCart(k, c)
    BY <1>3 DEF ReadForOrder
  <2> QED
    BY <1>3, <2>1, FindCartKeeps DEF ReadForOrder
<1>4. ASSUME NEW k \in CartCalls, ReadGuestCart(k) PROVE CartsInv'
  <2>1. PICK c \in Carts("guest") : ReadCart(k, c) /\ Goto(k, IF qty[c] = NoLines THEN "delete" ELSE "merge")
    BY <1>4 DEF ReadGuestCart
  <2>2. PICK next \in {"clear", "claim", "delete", "merge"} : Goto(k, next)
    BY <2>1
  <2>3. "guest" \in Owners
    BY DEF Owners
  <2> QED
    BY <1>4, <2>1, <2>2, <2>3, FindCartKeeps DEF ReadGuestCart
<1>5. ASSUME NEW k \in CartCalls,
             \/ InsertLine(k) \/ WriteLine(k) \/ RemoveLine(k) \/ ClearLines(k)
             \/ ReadUserCart(k) \/ DeleteEmpty(k) \/ ClaimLines(k) \/ GiveUp(k)
      PROVE  CartsInv'
  BY <1>5, InsertLineKeeps, WriteLineKeeps, RemoveLineKeeps, ClearLinesKeeps, ReadUserCartKeeps, DeleteEmptyKeeps,
     ClaimLinesKeeps, GiveUpKeeps
<1>6. ASSUME UNCHANGED cartsVars PROVE CartsInv'
  <2>1. UNCHANGED <<cartRows, cartHistory>> /\ \A j \in CartCalls : SameRequest(j)
    BY <1>6 DEF cartsVars, cartReads, SameRequest
  <2>2. RowsTyped' /\ HistoryTyped' /\ Accounted' /\ OwnersMove /\ LinesMove
    BY <2>1, RowsKept
  <2>3. ReadsTyped'
    BY <1>6 DEF cartsVars, cartReads, CartsInv, ReadsTyped
  <2>4. \A j \in CartCalls : Holds(j)'
    BY <2>1, <2>2, OthersHold DEF CartsInv
  <2> QED
    BY <2>2, <2>3, <2>4 DEF CartsInv
<1> QED
  BY <1>1, <1>2, <1>3, <1>4, <1>5, <1>6, CommitMergeKeeps DEF CartsNext

LEMMA CartsInitially == CartsInit => CartsInv
<1> SUFFICES ASSUME CartsInit PROVE CartsInv
  OBVIOUS
<1>1. owner \in [CartIds -> {"unborn", "guest", "user", "gone"}]
  BY DEF CartsInit
<1>2. NoLines \in [CartVariants -> 0 .. MaxLine] /\ [v \in CartVariants |-> 1] \in [CartVariants -> 0 .. MaxLine]
  BY CartsAssumption, NoLinesType
<1>3. qty \in [CartIds -> [CartVariants -> 0 .. MaxLine]]
  BY <1>2 DEF CartsInit
<1>4. 0 .. MaxLine \subseteq Nat
  BY CartsAssumption
<1>5. qty \in [CartIds -> [CartVariants -> Nat]] /\ gen = qty /\ asked = qty
  BY <1>3, <1>4 DEF CartsInit
<1>6. /\ ordered \in [CartIds -> [CartVariants -> Nat]] /\ resold \in [CartIds -> [CartVariants -> Nat]]
      /\ \A c \in CartIds, v \in CartVariants : ordered[c][v] = 0 /\ resold[c][v] = 0
  BY NoLinesType DEF CartsInit, NoLines, Units
<1>7. RowsTyped /\ HistoryTyped
  BY <1>1, <1>3, <1>5, <1>6 DEF RowsTyped, HistoryTyped
<1>8. Accounted
  <2> SUFFICES ASSUME NEW c \in CartIds, NEW v \in CartVariants PROVE qty[c][v] <= Slack(c, v)
    BY DEF Accounted
  <2>1. qty[c][v] \in Nat /\ asked[c][v] = qty[c][v] /\ ordered[c][v] = 0 /\ resold[c][v] = 0
    BY <1>5, <1>6
  <2> QED
    BY <2>1 DEF Slack
<1>9. ReadsTyped
  <2>1. (CHOOSE v \in CartVariants : TRUE) \in CartVariants
    BY CartsAssumption
  <2>2. item \in [CartCalls -> CartVariants]
    BY <2>1 DEF CartsInit
  <2>3. 0 \in 0 .. MaxCarts /\ 0 \in 0 .. MaxAsk
    BY CartsAssumption
  <2>4. cart \in [CartCalls -> 0 .. MaxCarts] /\ into \in [CartCalls -> 0 .. MaxCarts]
    BY <2>3 DEF CartsInit
  <2>5. amount \in [CartCalls -> 0 .. MaxAsk]
    BY <2>3 DEF CartsInit
  <2>6. at \in [CartCalls -> CartSteps]
    BY DEF CartsInit, CartSteps
  <2>7. seen \in [CartCalls -> Units] /\ seenGen \in [CartCalls -> Units] /\ base \in [CartCalls -> Units]
    BY NoLinesType DEF CartsInit
  <2> QED
    BY <2>2, <2>4, <2>5, <2>6, <2>7 DEF ReadsTyped
<1>10. ASSUME NEW k \in CartCalls PROVE Holds(k)
  <2>1. at[k] = "idle" /\ into[k] = 0 /\ base[k] = NoLines
    BY DEF CartsInit
  <2> QED
    BY <2>1 DEF Holds, Active
<1> QED
  BY <1>7, <1>8, <1>9, <1>10 DEF CartsInv

\* The rows and the requests are well typed: no line outgrows its maximum.
THEOREM CartsTypeCorrect == CartsSpec => []CartsTypeOK
<1>1. CartsInv => CartsTypeOK
  BY CartsTyped DEF CartsInv
<1> QED
  BY <1>1, CartsInitially, CartsStep, PTL DEF CartsSpec

\* A cart, with what was ordered from it, never holds more than its owner
\* asked for, but for what was ordered while a merge held it.
THEOREM LinesWereAskedCorrect == CartsSpec => []LinesWereAsked
<1>1. ASSUME CartsInv PROVE LinesWereAsked
  <2> SUFFICES ASSUME NEW c \in CartIds, NEW v \in CartVariants
               PROVE  qty[c][v] + ordered[c][v] <= asked[c][v] + resold[c][v]
    BY DEF LinesWereAsked
  <2>1. /\ qty[c][v] \in Nat /\ asked[c][v] \in Nat /\ resold[c][v] \in Nat /\ ordered[c][v] \in Nat
        /\ qty[c][v] <= Slack(c, v)
    BY <1>1, LineTypes
  <2> QED
    BY <2>1 DEF Slack
<1> QED
  BY <1>1, CartsInitially, CartsStep, PTL DEF CartsSpec
=============================================================================
