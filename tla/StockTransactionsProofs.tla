----------------------- MODULE StockTransactionsProofs -----------------------
(***************************************************************************)
(* Proofs about StockTransactions, for any number of calls and variants.   *)
(***************************************************************************)
EXTENDS StockTransactions, TLAPS, FiniteSetTheorems, SequenceTheorems, WellFoundedInduction

-----------------------------------------------------------------------------
(* The plans.                                                              *)

\* The order in which rows are locked by whoever sorts them.
Rank(row) == IF row \in Variants THEN row ELSE IF row = Coupon THEN MaxVariant + 1 ELSE 0

Rises(s) == \A i, j \in 1 .. Len(s) : i < j => Rank(s[i]) < Rank(s[j])

Covers(s, vs) == \A v \in vs : \E i \in 1 .. Len(s) : s[i] = v

LEMMA LinesFacts ==
  ASSUME NEW vs \in SUBSET Variants, NEW s \in Lines(vs)
  PROVE  /\ s \in Seq(vs) /\ s \in Seq(Rows) /\ Covers(s, vs)
         /\ s \in Sorted(vs) => Rises(s)
<1>1. Cardinality(vs) \in Nat
  <2>1. IsFiniteSet(Variants)
    BY FS_Interval, BoundsAssumption DEF Variants
  <2> QED
    BY <2>1, FS_Subset, FS_CardinalityType
<1>2. s \in [1 .. Cardinality(vs) -> vs] /\ \A v \in vs : \E i \in DOMAIN s : s[i] = v
  BY DEF Lines
<1>3. s \in Seq(vs) /\ Len(s) = Cardinality(vs)
  BY <1>1, <1>2
<1>4. s \in Seq(Rows)
  BY <1>3, vs \subseteq Rows DEF Rows
<1>5. Covers(s, vs)
  BY <1>1, <1>2, <1>3 DEF Covers
<1>6. s \in Sorted(vs) => Rises(s)
  BY <1>1, <1>2, <1>3 DEF Sorted, Rises, Rank
<1> QED
  BY <1>3, <1>4, <1>5, <1>6

LEMMA CouponPlan ==
  ASSUME NEW coupon \in {<<>>, <<Coupon>>}
  PROVE  coupon \in Seq({Coupon}) /\ coupon \in Seq(Rows)
<1>1. Coupon \in Rows
  BY DEF Rows
<1>2. CASE coupon = <<>>
  BY <1>2
<1>3. CASE coupon = <<Coupon>>
  BY <1>1, <1>3
<1> QED
  BY <1>2, <1>3

\* A plan that sorts its lines and has the coupon last rises.
LEMMA CheckoutPlan ==
  ASSUME NEW vs \in SUBSET Variants, NEW s \in Sorted(vs), NEW coupon \in {<<>>, <<Coupon>>}
  PROVE  /\ s \o coupon \in Seq(Rows) /\ Rises(s \o coupon) /\ Covers(s \o coupon, vs)
         /\ \A i \in 1 .. Len(s \o coupon) : (s \o coupon)[i] \in Variants \cup {Coupon}
<1>1. s \in Seq(vs) /\ s \in Seq(Rows) /\ Covers(s, vs) /\ Rises(s)
  BY LinesFacts DEF Sorted
<1>2. coupon \in Seq({Coupon}) /\ coupon \in Seq(Rows)
  BY CouponPlan
<1>3. /\ s \o coupon \in Seq(Rows) /\ Len(s \o coupon) = Len(s) + Len(coupon)
      /\ \A i \in 1 .. Len(s) : (s \o coupon)[i] = s[i]
      /\ \A i \in 1 .. Len(s \o coupon) : i > Len(s) => (s \o coupon)[i] = Coupon
  <2>1. \A i \in 1 .. Len(coupon) : coupon[i] = Coupon
    BY <1>2
  <2>2. Len(s) \in Nat /\ Len(coupon) \in Nat
    BY <1>1, <1>2
  <2>3. /\ s \o coupon \in Seq(Rows) /\ Len(s \o coupon) = Len(s) + Len(coupon)
        /\ \A i \in 1 .. Len(s) + Len(coupon) : (s \o coupon)[i] =
              IF i <= Len(s) THEN s[i] ELSE coupon[i - Len(s)]
    BY <1>1, <1>2, ConcatProperties
  <2>4. ASSUME NEW i \in 1 .. Len(s \o coupon), i > Len(s) PROVE (s \o coupon)[i] = Coupon
    BY <2>1, <2>2, <2>3, <2>4, i - Len(s) \in 1 .. Len(coupon)
  <2> QED
    BY <2>2, <2>3, <2>4
<1>4. Len(s) \in Nat /\ Len(coupon) \in 0 .. 1
  <2>1. Len(<<>>) = 0 /\ Len(<<Coupon>>) = 1
    OBVIOUS
  <2> QED
    BY <1>1, <2>1
<1>5. \A i \in 1 .. Len(s) : s[i] \in Variants /\ Rank(s[i]) < MaxVariant + 1
  <2>1. \A i \in 1 .. Len(s) : s[i] \in Variants
    BY <1>1
  <2> QED
    BY <2>1, BoundsAssumption DEF Rank, Variants
<1>6. Rank(Coupon) = MaxVariant + 1
  BY RowsAssumption DEF Rank
<1>7. Rises(s \o coupon)
  BY <1>1, <1>3, <1>4, <1>5, <1>6 DEF Rises
<1>8. Covers(s \o coupon, vs)
  <2>1. 1 .. Len(s) \subseteq 1 .. Len(s \o coupon)
    BY <1>3, <1>4
  <2> QED
    BY <1>1, <1>3, <2>1 DEF Covers
<1> QED
  BY <1>3, <1>4, <1>5, <1>7, <1>8

LEMMA PrefixPlan ==
  ASSUME NEW row \in Rows, Rank(row) = 0, NEW s \in Seq(Rows), NEW vs \in SUBSET Variants
  PROVE  /\ <<row>> \o s \in Seq(Rows) /\ Len(<<row>> \o s) >= 1 /\ (<<row>> \o s)[1] = row
         /\ Covers(s, vs) => Covers(<<row>> \o s, vs)
         /\ Rises(s) /\ (\A i \in 1 .. Len(s) : Rank(s[i]) > 0) => Rises(<<row>> \o s)
         /\ \A i \in 1 .. Len(<<row>> \o s) : i > 1 => \E j \in 1 .. Len(s) : (<<row>> \o s)[i] = s[j]
<1>1. <<row>> \in Seq(Rows) /\ Len(<<row>>) = 1 /\ Len(s) \in Nat
  OBVIOUS
<1>2. /\ <<row>> \o s \in Seq(Rows) /\ Len(<<row>> \o s) = 1 + Len(s)
      /\ (<<row>> \o s)[1] = row
      /\ \A i \in 1 .. Len(<<row>> \o s) : i > 1 => (<<row>> \o s)[i] = s[i - 1]
  BY <1>1, ConcatProperties
<1>3. ASSUME Covers(s, vs) PROVE Covers(<<row>> \o s, vs)
  <2> SUFFICES ASSUME NEW v \in vs PROVE \E i \in 1 .. Len(<<row>> \o s) : (<<row>> \o s)[i] = v
    BY DEF Covers
  <2>1. PICK i \in 1 .. Len(s) : s[i] = v
    BY <1>3 DEF Covers
  <2>2. i + 1 \in 1 .. Len(<<row>> \o s) /\ (<<row>> \o s)[i + 1] = s[i]
    BY <1>1, <1>2
  <2> QED
    BY <2>1, <2>2
<1>4. ASSUME Rises(s), \A i \in 1 .. Len(s) : Rank(s[i]) > 0 PROVE Rises(<<row>> \o s)
  BY <1>1, <1>2, <1>4 DEF Rises
<1>5. ASSUME NEW i \in 1 .. Len(<<row>> \o s), i > 1
      PROVE  \E j \in 1 .. Len(s) : (<<row>> \o s)[i] = s[j]
  BY <1>1, <1>2, <1>5, i - 1 \in 1 .. Len(s)
<1> QED
  BY <1>1, <1>2, <1>3, <1>4, <1>5

-----------------------------------------------------------------------------
(* Type correctness.                                                       *)

LEMMA BeginTypes ==
  ASSUME TypeOK, NEW t \in Calls, NEW rows \in Seq(Rows), NEW amounts \in [Variants -> Int],
         Begin(t, rows, amounts)
  PROVE  TypeOK'
  BY DEF TypeOK, Begin

LEMMA EndTypes ==
  ASSUME TypeOK, NEW t \in Calls, NEW how \in {"done", "failed"}, End(t, how)
  PROVE  /\ pc' \in [Calls -> {"new", "run", "done", "failed"}]
         /\ plan' \in [Calls -> Seq(Rows)]
         /\ change' \in [Calls -> [Variants -> Int]]
         /\ next' \in [Calls -> Nat \ {0}]
         /\ retried' \in [Calls -> BOOLEAN]
<1>1. <<>> \in Seq(Rows) /\ NoUnits \in [Variants -> Int]
  BY DEF NoUnits
<1> QED
  BY <1>1 DEF TypeOK, End

\* What each kind of call opens its transaction with.
LEMMA CheckoutBegins ==
  ASSUME TypeOK, NEW t \in Checkouts, BeginCheckout(t)
  PROVE  \E rows \in Seq(Rows), amounts \in [Variants -> Int] :
           /\ Begin(t, rows, amounts)
           /\ Rises(rows)
           /\ Covers(rows, {v \in Variants : amounts[v] # 0})
           /\ \A v \in Variants : amounts[v] <= 0
           /\ \A i \in 1 .. Len(rows) : rows[i] \in Variants \cup {Coupon}
<1>1. PICK units \in [Variants -> 0 .. MaxUnits], coupon \in {<<>>, <<Coupon>>} :
        \E lines \in Sorted({v \in Variants : units[v] > 0}) :
          Begin(t, lines \o coupon, [v \in Variants |-> -units[v]])
  BY DEF BeginCheckout
<1> DEFINE vs == {v \in Variants : units[v] > 0}
           amounts == [v \in Variants |-> -units[v]]
<1>2. PICK lines \in Sorted(vs) : Begin(t, lines \o coupon, amounts)
  BY <1>1
<1>3. /\ amounts \in [Variants -> Int] /\ \A v \in Variants : amounts[v] <= 0
      /\ vs = {v \in Variants : amounts[v] # 0}
  BY BoundsAssumption
<1>4. /\ lines \o coupon \in Seq(Rows) /\ Rises(lines \o coupon) /\ Covers(lines \o coupon, vs)
      /\ \A i \in 1 .. Len(lines \o coupon) : (lines \o coupon)[i] \in Variants \cup {Coupon}
  BY CheckoutPlan, vs \in SUBSET Variants
<1> HIDE DEF vs, amounts
<1> QED
  BY <1>2, <1>3, <1>4

LEMMA ReleaseBegins ==
  ASSUME TypeOK, NEW t \in Releases, BeginRelease(t)
  PROVE  \E o \in Orders, rows \in Seq(Rows) :
           /\ Begin(t, rows, orders[o].units) /\ orders[o].phase = "open"
           /\ Rises(rows)
           /\ Covers(rows, {v \in Variants : orders[o].units[v] # 0})
           /\ Len(rows) >= 1 /\ rows[1] = o
           /\ \A i \in 1 .. Len(rows) : i > 1 => rows[i] \in Variants \cup {Coupon}
<1>1. PICK o \in Orders :
        /\ orders[o].phase = "open"
        /\ \E lines \in Sorted({v \in Variants : orders[o].units[v] > 0}) :
             Begin(t, <<o>> \o (lines \o orders[o].coupon), orders[o].units)
  BY DEF BeginRelease
<1> DEFINE vs == {v \in Variants : orders[o].units[v] > 0}
<1>2. PICK lines \in Sorted(vs) : Begin(t, <<o>> \o (lines \o orders[o].coupon), orders[o].units)
  BY <1>1
<1> DEFINE tail == lines \o orders[o].coupon
<1>3. vs = {v \in Variants : orders[o].units[v] # 0} /\ orders[o].coupon \in {<<>>, <<Coupon>>}
  BY DEF TypeOK
<1>4. /\ tail \in Seq(Rows) /\ Rises(tail) /\ Covers(tail, vs)
      /\ \A i \in 1 .. Len(tail) : tail[i] \in Variants \cup {Coupon}
  BY <1>3, CheckoutPlan, vs \in SUBSET Variants
<1>5. o \in Rows /\ Rank(o) = 0
  BY RowsAssumption DEF Rows, Rank
<1>6. \A i \in 1 .. Len(tail) : Rank(tail[i]) > 0
  BY <1>4, BoundsAssumption DEF Rank, Variants
<1> DEFINE rows == <<o>> \o tail
<1>8. /\ rows \in Seq(Rows) /\ Len(rows) >= 1 /\ rows[1] = o
      /\ Covers(rows, vs) /\ Rises(rows)
      /\ \A i \in 1 .. Len(rows) : i > 1 => rows[i] \in Variants \cup {Coupon}
  <2>1. vs \in SUBSET Variants
    OBVIOUS
  <2> HIDE DEF tail, vs
  <2>2. /\ rows \in Seq(Rows) /\ Len(rows) >= 1 /\ rows[1] = o
        /\ Covers(rows, vs) /\ Rises(rows)
        /\ \A i \in 1 .. Len(rows) : i > 1 => \E j \in 1 .. Len(tail) : rows[i] = tail[j]
    BY <1>4, <1>5, <1>6, <2>1, PrefixPlan
  <2> QED
    BY <1>4, <2>2
<1>9. Begin(t, rows, orders[o].units)
  BY <1>2
<1> HIDE DEF rows, vs
<1> QED
  BY <1>1, <1>3, <1>8, <1>9

LEMMA EditBegins ==
  ASSUME TypeOK, NEW t \in Edits, BeginEdit(t)
  PROVE  \E rows \in Seq(Rows), amounts \in [Variants -> Int] :
           /\ Begin(t, rows, amounts)
           /\ Covers(rows, {v \in Variants : amounts[v] # 0})
           /\ \A i \in 1 .. Len(rows) : rows[i] \in Variants \cup {Product}
<1>0. PICK vs \in SUBSET Variants :
        \E lines \in Lines(vs), amounts \in [Variants -> Corrections \cup {0}] :
          /\ \A v \in Variants \ vs : amounts[v] = 0
          /\ Begin(t, <<Product>> \o lines, amounts)
  BY DEF BeginEdit
<1>1. PICK lines \in Lines(vs), amounts \in [Variants -> Corrections \cup {0}] :
        /\ \A v \in Variants \ vs : amounts[v] = 0
        /\ Begin(t, <<Product>> \o lines, amounts)
  BY <1>0
<1> DEFINE rows == <<Product>> \o lines
<1>2. Product \in Rows /\ Rank(Product) = 0
  BY RowsAssumption DEF Rows, Rank
<1>3. lines \in Seq(Rows) /\ lines \in Seq(vs) /\ Covers(lines, vs)
  BY LinesFacts
<1>4. /\ rows \in Seq(Rows) /\ rows[1] = Product /\ Covers(rows, vs)
      /\ \A i \in 1 .. Len(rows) : i > 1 => rows[i] \in Variants
  <2>1. /\ rows \in Seq(Rows) /\ rows[1] = Product /\ Covers(rows, vs)
        /\ \A i \in 1 .. Len(rows) : i > 1 => \E j \in 1 .. Len(lines) : rows[i] = lines[j]
    BY <1>2, <1>3, PrefixPlan
  <2>2. \A j \in 1 .. Len(lines) : lines[j] \in Variants
    BY <1>3
  <2> QED
    BY <2>1, <2>2
<1>5. amounts \in [Variants -> Int] /\ {v \in Variants : amounts[v] # 0} \subseteq vs
  <2>1. Corrections \cup {0} \subseteq Int
    BY BoundsAssumption
  <2> QED
    BY <1>1, <2>1
<1> HIDE DEF rows
<1>6. Covers(rows, {v \in Variants : amounts[v] # 0})
  BY <1>4, <1>5 DEF Covers
<1>7. Begin(t, rows, amounts)
  BY <1>1 DEF rows
<1>8. \A i \in 1 .. Len(rows) : rows[i] \in Variants \cup {Product}
  BY <1>4
<1> QED
  BY <1>4, <1>5, <1>6, <1>7, <1>8

-----------------------------------------------------------------------------
(* The inductive invariant. What a call has locked is its own, its         *)
(* statements on those rows matched, and nobody else changes the rows      *)
(* until it ends: so a statement that matched still matches at the commit. *)

CheckoutPlanned(t) ==
  /\ Rises(plan[t])
  /\ \A v \in Variants : change[t][v] <= 0
  /\ \A i \in 1 .. Len(plan[t]) : plan[t][i] \in Variants \cup {Coupon}

ReleasePlanned(t) ==
  /\ Rises(plan[t])
  /\ Len(plan[t]) >= 1 /\ plan[t][1] \in Orders
  /\ orders[plan[t][1]].phase # "none"
  /\ change[t] = orders[plan[t][1]].units
  /\ \A i \in 1 .. Len(plan[t]) : i > 1 => plan[t][i] \in Variants \cup {Coupon}

EditPlanned(t) == \A i \in 1 .. Len(plan[t]) : plan[t][i] \in Variants \cup {Product}

Planned(t) ==
  /\ pc[t] # "run" => next[t] = 1
  /\ t \in Checkouts /\ pc[t] \in {"new", "run"} => orders[t].phase = "none"
  /\ pc[t] = "run" => /\ next[t] <= Len(plan[t]) + 1
                      /\ \A v \in Variants :
                           change[t][v] # 0 => \E i \in 1 .. Len(plan[t]) : plan[t][i] = v
                      /\ t \in Checkouts => CheckoutPlanned(t)
                      /\ t \in Releases => ReleasePlanned(t)
                      /\ t \in Edits => EditPlanned(t)

Exclusive == \A t, u \in Calls : t # u => Held(t) \cap Held(u) = {}

\* The statements on the rows a call holds matched.
Guarded(t) ==
  /\ \A v \in Variants : v \in Held(t) => stock[v] + change[t][v] >= 0
  /\ \A o \in Orders : o \in Held(t) => orders[o].phase = "open"

Inv == TypeOK /\ Exclusive /\ \A t \in Calls : Planned(t) /\ Guarded(t)

\* A step leaves a call's transaction alone.
Kept(u) == pc'[u] = pc[u] /\ plan'[u] = plan[u] /\ change'[u] = change[u] /\ next'[u] = next[u]

LEMMA KeptHeld ==
  ASSUME NEW u, Kept(u)
  PROVE  Held(u)' = Held(u)
  BY DEF Kept, Held

LEMMA KeptPlanned ==
  ASSUME NEW u \in Calls, Kept(u), Planned(u), orders' = orders
  PROVE  Planned(u)'
<1>1. CASE pc[u] # "run"
  BY <1>1 DEF Kept, Planned
<1>2. CASE pc[u] = "run"
  <2>1. u \in Checkouts => CheckoutPlanned(u)'
    BY <1>2 DEF Kept, Planned, CheckoutPlanned
  <2>2. u \in Releases => ReleasePlanned(u)'
    BY <1>2 DEF Kept, Planned, ReleasePlanned
  <2>3. u \in Edits => EditPlanned(u)'
    BY <1>2 DEF Kept, Planned, EditPlanned
  <2> QED
    BY <1>2, <2>1, <2>2, <2>3 DEF Kept, Planned
<1> QED
  BY <1>1, <1>2

\* A call that begins, fails or starts over holds nothing and disturbs nobody.
LEMMA LetGo ==
  ASSUME Inv, NEW t \in Calls, UNCHANGED <<stock, orders>>, \A u \in Calls \ {t} : Kept(u),
         TypeOK', Planned(t)', Held(t)' = {}
  PROVE  Inv'
<1>1. \A u \in Calls \ {t} : Held(u)' = Held(u) /\ Planned(u)'
  BY KeptHeld, KeptPlanned DEF Inv
<1>2. Exclusive'
  BY <1>1 DEF Inv, Exclusive
<1>3. Guarded(t)'
  BY DEF Guarded
<1>4. \A u \in Calls \ {t} : Guarded(u)'
  BY <1>1 DEF Inv, Guarded, Kept
<1> QED
  BY <1>1, <1>2, <1>3, <1>4 DEF Inv

LEMMA BeginFrame ==
  ASSUME Inv, NEW t \in Calls, NEW rows \in Seq(Rows), NEW amounts \in [Variants -> Int],
         Begin(t, rows, amounts)
  PROVE  /\ TypeOK' /\ UNCHANGED <<stock, orders>> /\ \A u \in Calls \ {t} : Kept(u)
         /\ pc[t] = "new" /\ pc'[t] = "run" /\ plan'[t] = rows /\ change'[t] = amounts
         /\ next'[t] = 1 /\ Held(t)' = {}
<1>1. TypeOK'
  BY BeginTypes DEF Inv
<1>2. /\ UNCHANGED <<stock, orders>> /\ \A u \in Calls \ {t} : Kept(u)
      /\ pc[t] = "new" /\ pc'[t] = "run" /\ plan'[t] = rows /\ change'[t] = amounts
  BY DEF Inv, TypeOK, Begin, Kept
<1>3. next'[t] = 1
  BY <1>2 DEF Inv, Planned, Begin
<1>4. Held(t)' = {}
  BY <1>3 DEF Held
<1> QED
  BY <1>1, <1>2, <1>3, <1>4

LEMMA EndFrame ==
  ASSUME Inv, NEW t \in Calls, NEW how \in {"done", "failed"}, End(t, how)
  PROVE  /\ \A u \in Calls \ {t} : Kept(u)
         /\ pc'[t] = how /\ next'[t] = 1 /\ Held(t)' = {}
  BY DEF Inv, TypeOK, End, Kept, Held

LEMMA InvInit == Init => Inv
<1> SUFFICES ASSUME Init PROVE Inv
  OBVIOUS
<1>1. NoUnits \in [Variants -> Nat] /\ NoUnits \in [Variants -> Int] /\ <<>> \in Seq(Rows)
  BY DEF NoUnits
<1>2. TypeOK
  <2>1. stock \in [Variants -> Nat]
    BY BoundsAssumption DEF Init
  <2>2. orders \in [Orders -> [phase: Phases, units: [Variants -> Nat], coupon: {<<>>, <<Coupon>>}]]
    BY <1>1 DEF Init, Phases
  <2>3. plan \in [Calls -> Seq(Rows)] /\ change \in [Calls -> [Variants -> Int]]
    BY <1>1 DEF Init
  <2>4. /\ pc \in [Calls -> {"new", "run", "done", "failed"}]
        /\ next \in [Calls -> Nat \ {0}] /\ retried \in [Calls -> BOOLEAN]
    BY DEF Init
  <2> QED
    BY <2>1, <2>2, <2>3, <2>4 DEF TypeOK
<1>3. \A t \in Calls : pc[t] = "new" /\ next[t] = 1 /\ Held(t) = {}
  BY DEF Init, Held
<1>4. \A t \in Checkouts : orders[t].phase = "none"
  BY DEF Init, Orders
<1> QED
  BY <1>2, <1>3, <1>4 DEF Inv, Exclusive, Planned, Guarded

LEMMA CheckoutBegun ==
  ASSUME Inv, NEW t \in Checkouts, BeginCheckout(t)
  PROVE  Inv'
<1>1. PICK rows \in Seq(Rows), amounts \in [Variants -> Int] :
        /\ Begin(t, rows, amounts)
        /\ Rises(rows)
        /\ Covers(rows, {v \in Variants : amounts[v] # 0})
        /\ \A v \in Variants : amounts[v] <= 0
        /\ \A i \in 1 .. Len(rows) : rows[i] \in Variants \cup {Coupon}
  BY CheckoutBegins DEF Inv
<1>2. t \in Calls /\ t \notin Releases /\ t \notin Edits
  BY CallsAssumption DEF Calls
<1>3. /\ TypeOK' /\ UNCHANGED <<stock, orders>> /\ \A u \in Calls \ {t} : Kept(u)
      /\ pc[t] = "new" /\ pc'[t] = "run" /\ plan'[t] = rows /\ change'[t] = amounts
      /\ next'[t] = 1 /\ Held(t)' = {}
  BY <1>1, <1>2, BeginFrame
<1>4. CheckoutPlanned(t)'
  BY <1>1, <1>3 DEF CheckoutPlanned
<1>5. Planned(t)'
  <2>1. Len(rows) \in Nat
    BY <1>1
  <2>2. orders[t].phase = "none"
    BY <1>2, <1>3 DEF Inv, Planned
  <2>3. \A v \in Variants : amounts[v] # 0 => \E i \in 1 .. Len(rows) : rows[i] = v
    BY <1>1 DEF Covers
  <2> QED
    BY <1>2, <1>3, <1>4, <2>1, <2>2, <2>3 DEF Planned
<1> QED
  BY <1>2, <1>3, <1>5, LetGo

LEMMA ReleaseBegun ==
  ASSUME Inv, NEW t \in Releases, BeginRelease(t)
  PROVE  Inv'
<1>1. PICK o \in Orders, rows \in Seq(Rows) :
        /\ Begin(t, rows, orders[o].units) /\ orders[o].phase = "open"
        /\ Rises(rows)
        /\ Covers(rows, {v \in Variants : orders[o].units[v] # 0})
        /\ Len(rows) >= 1 /\ rows[1] = o
        /\ \A i \in 1 .. Len(rows) : i > 1 => rows[i] \in Variants \cup {Coupon}
  BY ReleaseBegins DEF Inv
<1>2. t \in Calls /\ t \notin Checkouts /\ t \notin Edits
  BY CallsAssumption DEF Calls
<1> DEFINE amounts == orders[o].units
<1>3. amounts \in [Variants -> Int]
  BY DEF Inv, TypeOK
<1>4. /\ TypeOK' /\ UNCHANGED <<stock, orders>> /\ \A u \in Calls \ {t} : Kept(u)
      /\ pc[t] = "new" /\ pc'[t] = "run" /\ plan'[t] = rows /\ change'[t] = amounts
      /\ next'[t] = 1 /\ Held(t)' = {}
  BY <1>1, <1>2, <1>3, BeginFrame
<1>5. ReleasePlanned(t)'
  BY <1>1, <1>4 DEF ReleasePlanned
<1>6. Planned(t)'
  <2>1. Len(rows) \in Nat
    BY <1>1
  <2>2. \A v \in Variants : amounts[v] # 0 => \E i \in 1 .. Len(rows) : rows[i] = v
    BY <1>1 DEF Covers
  <2> QED
    BY <1>2, <1>4, <1>5, <2>1, <2>2 DEF Planned
<1> QED
  BY <1>2, <1>4, <1>6, LetGo

LEMMA EditBegun ==
  ASSUME Inv, NEW t \in Edits, BeginEdit(t)
  PROVE  Inv'
<1>1. PICK rows \in Seq(Rows), amounts \in [Variants -> Int] :
        /\ Begin(t, rows, amounts)
        /\ Covers(rows, {v \in Variants : amounts[v] # 0})
        /\ \A i \in 1 .. Len(rows) : rows[i] \in Variants \cup {Product}
  BY EditBegins DEF Inv
<1>2. t \in Calls /\ t \notin Checkouts /\ t \notin Releases
  BY CallsAssumption DEF Calls
<1>3. /\ TypeOK' /\ UNCHANGED <<stock, orders>> /\ \A u \in Calls \ {t} : Kept(u)
      /\ pc[t] = "new" /\ pc'[t] = "run" /\ plan'[t] = rows /\ change'[t] = amounts
      /\ next'[t] = 1 /\ Held(t)' = {}
  BY <1>1, <1>2, BeginFrame
<1>4. EditPlanned(t)'
  BY <1>1, <1>3 DEF EditPlanned
<1>5. Planned(t)'
  <2>1. Len(rows) \in Nat
    BY <1>1
  <2>2. \A v \in Variants : amounts[v] # 0 => \E i \in 1 .. Len(rows) : rows[i] = v
    BY <1>1 DEF Covers
  <2> QED
    BY <1>2, <1>3, <1>4, <2>1, <2>2 DEF Planned
<1> QED
  BY <1>2, <1>3, <1>5, LetGo

\* A statement that matches adds a row to those its call holds, one nobody else holds.
LEMMA Wrote ==
  ASSUME Inv, NEW t \in Calls, Write(t)
  PROVE  Inv'
<1>1. /\ next' = [next EXCEPT ![t] = next[t] + 1]
      /\ UNCHANGED <<stock, orders, pc, plan, change, retried>>
      /\ pc[t] = "run" /\ next[t] <= Len(plan[t]) /\ Matches(t)
      /\ \A u \in Calls : u # t => Row(t) \notin Held(u)
  BY DEF Write, Writing, Blocked, WaitsFor
<1>2. next[t] \in Nat \ {0} /\ Len(plan[t]) \in Nat /\ next'[t] = next[t] + 1
  BY <1>1 DEF Inv, TypeOK
<1>3. TypeOK'
  BY <1>1 DEF Inv, TypeOK
<1>4. \A u \in Calls \ {t} : Kept(u)
  BY <1>1 DEF Inv, TypeOK, Kept
<1>5. \A u \in Calls \ {t} : Held(u)' = Held(u) /\ Planned(u)' /\ Guarded(u)'
  BY <1>1, <1>4, KeptHeld, KeptPlanned DEF Inv, Guarded
<1>6. \A row : row \in Held(t)' => row \in Held(t) \/ row = Row(t)
  <2>1. Held(t)' = {plan[t][i] : i \in 1 .. next[t]}
    BY <1>1, <1>2 DEF Held
  <2>2. Held(t) = {plan[t][i] : i \in 1 .. next[t] - 1}
    BY <1>1 DEF Held
  <2>3. \A i \in 1 .. next[t] : i \in 1 .. next[t] - 1 \/ i = next[t]
    BY <1>2
  <2> QED
    BY <2>1, <2>2, <2>3 DEF Row
<1>7. Exclusive'
  BY <1>1, <1>5, <1>6 DEF Inv, Exclusive
<1>8. Guarded(t)'
  BY <1>1, <1>6 DEF Inv, Guarded, Matches
<1>9. Planned(t)'
  <2>1. t \in Checkouts => CheckoutPlanned(t)'
    BY <1>1 DEF Inv, Planned, CheckoutPlanned
  <2>2. t \in Releases => ReleasePlanned(t)'
    BY <1>1 DEF Inv, Planned, ReleasePlanned
  <2>3. t \in Edits => EditPlanned(t)'
    BY <1>1 DEF Inv, Planned, EditPlanned
  <2> QED
    BY <1>1, <1>2, <2>1, <2>2, <2>3 DEF Inv, Planned
<1> QED
  BY <1>3, <1>5, <1>7, <1>8, <1>9 DEF Inv

LEMMA Failed ==
  ASSUME Inv, NEW t \in Calls, Fail(t)
  PROVE  Inv'
<1>1. /\ \A u \in Calls \ {t} : Kept(u)
      /\ pc'[t] = "failed" /\ next'[t] = 1 /\ Held(t)' = {}
  BY EndFrame DEF Fail
<1>2. TypeOK'
  BY EndTypes DEF Inv, Fail, TypeOK
<1>3. Planned(t)'
  BY <1>1 DEF Planned
<1> QED
  BY <1>1, <1>2, <1>3, LetGo DEF Fail

LEMMA StartedOver ==
  ASSUME Inv, NEW t \in Calls, Victim(t)
  PROVE  Inv'
<1>1. CASE Fail(t)
  BY <1>1, Failed
<1>2. ASSUME next' = [next EXCEPT ![t] = 1], retried' = [retried EXCEPT ![t] = TRUE],
             UNCHANGED <<stock, orders, pc, plan, change>>
      PROVE  Inv'
  <2>1. /\ \A u \in Calls \ {t} : Kept(u)
        /\ pc'[t] = pc[t] /\ next'[t] = 1 /\ Held(t)' = {}
    BY <1>2 DEF Inv, TypeOK, Kept, Held
  <2>2. TypeOK'
    BY <1>2 DEF Inv, TypeOK
  <2>3. Planned(t)'
    <3>1. Len(plan[t]) \in Nat
      BY DEF Inv, TypeOK
    <3>2. t \in Checkouts /\ pc[t] = "run" => CheckoutPlanned(t)'
      BY <1>2 DEF Inv, Planned, CheckoutPlanned
    <3>3. t \in Releases /\ pc[t] = "run" => ReleasePlanned(t)'
      BY <1>2 DEF Inv, Planned, ReleasePlanned
    <3>4. t \in Edits /\ pc[t] = "run" => EditPlanned(t)'
      BY <1>2 DEF Inv, Planned, EditPlanned
    <3> QED
      BY <1>2, <2>1, <3>1, <3>2, <3>3, <3>4 DEF Inv, Planned
  <2> QED
    BY <1>2, <2>1, <2>2, <2>3, LetGo
<1> QED
  BY <1>1, <1>2 DEF Victim

-----------------------------------------------------------------------------
(* Commits.                                                                *)

\* At its commit a call holds all the rows of its plan, so that what its statements
\* found still holds.
LEMMA AtCommit ==
  ASSUME Inv, NEW t \in Calls, Commit(t)
  PROVE  /\ \A i \in 1 .. Len(plan[t]) : plan[t][i] \in Held(t)
         /\ \A v \in Variants : change[t][v] # 0 => v \in Held(t)
         /\ \A v \in Variants : stock[v] + change[t][v] \in Nat
<1>1. pc[t] = "run" /\ next[t] > Len(plan[t]) /\ Len(plan[t]) \in Nat /\ next[t] \in Nat
  BY DEF Commit, Inv, TypeOK
<1>2. \A i \in 1 .. Len(plan[t]) : i \in 1 .. next[t] - 1
  BY <1>1
<1>3. \A i \in 1 .. Len(plan[t]) : plan[t][i] \in Held(t)
  BY <1>1, <1>2 DEF Held
<1>4. ASSUME NEW v \in Variants, change[t][v] # 0 PROVE v \in Held(t)
  <2>1. PICK i \in 1 .. Len(plan[t]) : plan[t][i] = v
    BY <1>1, <1>4 DEF Inv, Planned
  <2> QED
    BY <1>3, <2>1
<1>5. ASSUME NEW v \in Variants PROVE stock[v] + change[t][v] \in Nat
  <2>1. stock[v] \in Nat /\ change[t][v] \in Int
    BY DEF Inv, TypeOK
  <2>2. change[t][v] # 0 => stock[v] + change[t][v] >= 0
    BY <1>4 DEF Inv, Guarded
  <2> QED
    BY <2>1, <2>2
<1> QED
  BY <1>3, <1>4, <1>5

\* What a commit does to the orders: a checkout places its own, a release cancels the
\* open one it returns, an edit touches none.
LEMMA CheckoutCommitted ==
  ASSUME Inv, NEW t \in Checkouts, Commit(t)
  PROVE  /\ t \in Orders /\ orders[t].phase = "none"
         /\ orders'[t].phase = "open" /\ orders'[t].units = Taken(t)
         /\ orders'[t].coupon = CouponOf(t)
         /\ orders'[t] \in [phase: Phases, units: [Variants -> Nat], coupon: {<<>>, <<Coupon>>}]
         /\ \A o \in Orders \ {t} : orders'[o] = orders[o]
<1>1. orders' = OrdersAfter(t) /\ pc[t] = "run" /\ t \in Calls
  BY DEF Commit, Calls
<1>2. orders[t].phase = "none" /\ CheckoutPlanned(t) /\ change[t] \in [Variants -> Int]
  BY <1>1 DEF Inv, TypeOK, Planned
<1>3. t \in Orders /\ t \notin Releases
  BY CallsAssumption DEF Orders
<1> DEFINE new == [phase |-> "open", units |-> Taken(t), coupon |-> CouponOf(t)]
<1>4. orders'[t] = new /\ \A o \in Orders \ {t} : orders'[o] = orders[o]
  BY <1>1, <1>3 DEF OrdersAfter
<1>5. new.phase = "open" /\ new.units = Taken(t) /\ new.coupon = CouponOf(t)
  OBVIOUS
<1>6. new \in [phase: Phases, units: [Variants -> Nat], coupon: {<<>>, <<Coupon>>}]
  <2>1. \A v \in Variants : -change[t][v] \in Nat
    BY <1>2 DEF CheckoutPlanned
  <2>2. Taken(t) \in [Variants -> Nat]
    BY <2>1 DEF Taken
  <2>3. CouponOf(t) \in {<<>>, <<Coupon>>}
    BY DEF CouponOf
  <2> QED
    BY <2>2, <2>3 DEF Phases
<1> HIDE DEF new
<1> QED
  BY <1>2, <1>3, <1>4, <1>5, <1>6

LEMMA ReleaseCommitted ==
  ASSUME Inv, NEW t \in Releases, Commit(t)
  PROVE  LET o == plan[t][1] IN
         /\ o \in Orders /\ o \in Held(t)
         /\ orders[o].phase = "open" /\ change[t] = orders[o].units
         /\ orders'[o].phase = "cancelled" /\ orders'[o].units = orders[o].units
         /\ orders'[o] \in [phase: Phases, units: [Variants -> Nat], coupon: {<<>>, <<Coupon>>}]
         /\ \A q \in Orders \ {o} : orders'[q] = orders[q]
<1> DEFINE o == plan[t][1]
<1>1. orders' = OrdersAfter(t) /\ pc[t] = "run" /\ t \in Calls
  BY DEF Commit, Calls
<1>2. Len(plan[t]) >= 1 /\ o \in Orders /\ change[t] = orders[o].units
  BY <1>1 DEF Inv, Planned, ReleasePlanned
<1>3. Len(plan[t]) \in Nat
  BY <1>1 DEF Inv, TypeOK
<1>4. o \in Held(t)
  BY <1>1, <1>2, <1>3, AtCommit
<1>5. orders[o].phase = "open"
  BY <1>1, <1>2, <1>4 DEF Inv, Guarded
<1>6. t \notin Checkouts
  BY CallsAssumption
<1> DEFINE old == orders[o]
           new == [old EXCEPT !.phase = "cancelled"]
<1>7. orders'[o] = new /\ \A q \in Orders \ {o} : orders'[q] = orders[q]
  BY <1>1, <1>2, <1>6 DEF OrdersAfter
<1>8. old \in [phase: Phases, units: [Variants -> Nat], coupon: {<<>>, <<Coupon>>}]
  BY <1>2 DEF Inv, TypeOK
<1> HIDE DEF old
<1>9. /\ new.phase = "cancelled" /\ new.units = old.units
      /\ new \in [phase: Phases, units: [Variants -> Nat], coupon: {<<>>, <<Coupon>>}]
  BY <1>8 DEF Phases
<1> HIDE DEF new
<1>10. orders'[o].units = orders[o].units
  BY <1>7, <1>9 DEF old
<1> QED
  BY <1>2, <1>4, <1>5, <1>7, <1>9, <1>10

LEMMA EditCommitted ==
  ASSUME Inv, NEW t \in Edits, Commit(t)
  PROVE  orders' = orders
<1>1. t \notin Checkouts /\ t \notin Releases
  BY CallsAssumption
<1>2. orders = [o \in Orders |-> orders[o]]
  BY DEF Inv, TypeOK
<1>3. orders' = [o \in Orders |-> orders[o]]
  BY <1>1 DEF Commit, OrdersAfter
<1> QED
  BY <1>2, <1>3

\* An order changes only if the call that commits places it or holds it.
LEMMA OrdersCommitted ==
  ASSUME Inv, NEW t \in Calls, Commit(t), NEW o \in Orders
  PROVE  /\ orders'[o] \in [phase: Phases, units: [Variants -> Nat], coupon: {<<>>, <<Coupon>>}]
         /\ orders'[o] # orders[o] => (orders[o].phase = "none" /\ o = t) \/ o \in Held(t)
         /\ orders[o].phase # "none" => orders'[o].phase # "none" /\ orders'[o].units = orders[o].units
         /\ o # t /\ orders[o].phase = "none" => orders'[o].phase = "none"
<1>1. orders[o] \in [phase: Phases, units: [Variants -> Nat], coupon: {<<>>, <<Coupon>>}]
  BY DEF Inv, TypeOK
<1>2. CASE orders'[o] = orders[o]
  BY <1>1, <1>2
<1>3. CASE orders'[o] # orders[o] /\ t \in Checkouts
  BY <1>3, CheckoutCommitted
<1>4. CASE orders'[o] # orders[o] /\ t \in Releases
  <2>1. o = plan[t][1]
    BY <1>4, ReleaseCommitted
  <2>2. /\ orders[o].phase = "open" /\ o \in Held(t)
        /\ orders'[o].phase = "cancelled" /\ orders'[o].units = orders[o].units
        /\ orders'[o] \in [phase: Phases, units: [Variants -> Nat], coupon: {<<>>, <<Coupon>>}]
    BY <1>4, <2>1, ReleaseCommitted
  <2> QED
    BY <2>2
<1>5. CASE orders'[o] # orders[o] /\ t \in Edits
  BY <1>5, EditCommitted
<1> QED
  BY <1>2, <1>3, <1>4, <1>5 DEF Calls

LEMMA Committed ==
  ASSUME Inv, NEW t \in Calls, Commit(t)
  PROVE  Inv'
<1>1. /\ \A u \in Calls \ {t} : Kept(u)
      /\ pc'[t] = "done" /\ next'[t] = 1 /\ Held(t)' = {}
  BY EndFrame DEF Commit
<1>2. TypeOK'
  <2>1. \A v \in Variants : stock[v] + change[t][v] \in Nat
    BY AtCommit
  <2>2. stock' \in [Variants -> Nat]
    BY <2>1 DEF Commit
  <2>3. orders' = [o \in Orders |-> orders'[o]]
    BY DEF Commit, OrdersAfter
  <2>4. orders' \in [Orders -> [phase: Phases, units: [Variants -> Nat], coupon: {<<>>, <<Coupon>>}]]
    BY <2>3, OrdersCommitted
  <2> QED
    BY <2>2, <2>4, EndTypes DEF Inv, Commit, TypeOK
<1>3. \A u \in Calls \ {t} : Held(u)' = Held(u)
  BY <1>1, KeptHeld
<1>4. Exclusive'
  BY <1>1, <1>3 DEF Inv, Exclusive
<1>5. ASSUME NEW u \in Calls \ {t} PROVE Guarded(u)'
  <2>1. ASSUME NEW v \in Variants, v \in Held(u) PROVE stock'[v] = stock[v]
    <3>1. change[t][v] = 0
      BY <2>1, AtCommit DEF Inv, Exclusive
    <3> QED
      BY <3>1 DEF Commit, Inv, TypeOK
  <2>2. ASSUME NEW o \in Orders, o \in Held(u) PROVE orders'[o] = orders[o]
    <3>1. orders[o].phase = "open" /\ o \notin Held(t)
      BY <2>2 DEF Inv, Guarded, Exclusive
    <3> QED
      BY <3>1, OrdersCommitted
  <2> QED
    BY <1>1, <1>3, <2>1, <2>2 DEF Inv, Guarded, Kept
<1>6. ASSUME NEW u \in Calls \ {t} PROVE Planned(u)'
  <2>1. Kept(u) /\ Planned(u)
    BY <1>1 DEF Inv
  <2>2. u \in Checkouts /\ pc[u] \in {"new", "run"} => orders'[u].phase = "none"
    BY <2>1, OrdersCommitted DEF Planned, Orders
  <2>3. u \in Checkouts /\ pc[u] = "run" => CheckoutPlanned(u)'
    BY <2>1 DEF Kept, Planned, CheckoutPlanned
  <2>4. u \in Releases /\ pc[u] = "run" => ReleasePlanned(u)'
    BY <2>1, OrdersCommitted DEF Kept, Planned, ReleasePlanned
  <2>5. u \in Edits /\ pc[u] = "run" => EditPlanned(u)'
    BY <2>1 DEF Kept, Planned, EditPlanned
  <2> QED
    BY <2>1, <2>2, <2>3, <2>4, <2>5 DEF Kept, Planned
<1>7. Planned(t)' /\ Guarded(t)'
  BY <1>1 DEF Planned, Guarded
<1> QED
  BY <1>2, <1>4, <1>5, <1>6, <1>7 DEF Inv

LEMMA InvStep == Inv /\ [Next]_vars => Inv'
<1> SUFFICES ASSUME Inv, [Next]_vars PROVE Inv'
  OBVIOUS
<1>1. ASSUME NEW t \in Calls, Refuse(t) \/ Abort(t) PROVE Inv'
  BY <1>1, Failed DEF Refuse, Abort
<1>2. CASE UNCHANGED vars
  <2>1. UNCHANGED <<stock, orders, pc, plan, change, next, retried>>
    BY <1>2 DEF vars
  <2>2. TypeOK'
    BY <2>1 DEF Inv, TypeOK
  <2>3. \A t \in Calls : Kept(t)
    BY <2>1 DEF Kept
  <2>4. \A t \in Calls : Held(t)' = Held(t) /\ Planned(t)'
    BY <2>1, <2>3, KeptHeld, KeptPlanned DEF Inv
  <2>5. Exclusive'
    BY <2>4 DEF Inv, Exclusive
  <2>6. \A t \in Calls : Guarded(t)'
    BY <2>1, <2>4 DEF Inv, Guarded
  <2> QED
    BY <2>2, <2>4, <2>5, <2>6 DEF Inv
<1> QED
  BY <1>1, <1>2, CheckoutBegun, ReleaseBegun, EditBegun, Wrote, Committed, StartedOver
     DEF Next, Start, Statement

LEMMA InvCorrect == Spec => []Inv
  BY InvInit, InvStep, PTL DEF Spec

\* Committed stock is never negative, whatever waits for what, fails or runs again.
THEOREM TransactionsTypeCorrect == Spec => []TypeOK
<1>1. Inv => TypeOK
  BY DEF Inv
<1> QED
  BY <1>1, InvCorrect, PTL

-----------------------------------------------------------------------------
(* Deadlocks. A call that sorts its rows waits for a row above all those   *)
(* it holds, so along a chain of such calls the rows only rise.            *)

LEMMA Least ==
  ASSUME NEW T \in SUBSET Nat, T # {}
  PROVE  \E m \in T : \A k \in T : m <= k
<1> DEFINE R == OpToRel(<, Nat)
<1>1. PICK m \in T : \A k \in T : ~ (<<k, m>> \in R)
  BY NatLessThanWellFounded, WFMin
<1>2. \A k \in Nat : k < m => <<k, m>> \in R
  BY DEF OpToRel
<1> HIDE DEF R
<1>3. ASSUME NEW k \in T PROVE m <= k
  <2>1. ~(k < m)
    BY <1>1, <1>2
  <2> QED
    BY <2>1
<1> QED
  BY <1>3

LEMMA WaitsRise ==
  ASSUME Inv, NEW t \in Checkouts \cup Releases, NEW u \in Checkouts \cup Releases,
         WaitsFor(t, u), Writing(u)
  PROVE  Rank(Row(t)) < Rank(Row(u))
<1>1. pc[u] = "run" /\ next[u] <= Len(plan[u]) /\ Row(t) \in Held(u) /\ u \in Calls
  BY DEF WaitsFor, Writing, Calls
<1>2. Rises(plan[u])
  BY <1>1 DEF Inv, Planned, CheckoutPlanned, ReleasePlanned
<1>3. PICK i \in 1 .. next[u] - 1 : Row(t) = plan[u][i]
  BY <1>1 DEF Held
<1>4. next[u] \in Nat \ {0} /\ Len(plan[u]) \in Nat
  BY <1>1 DEF Inv, TypeOK
<1>5. i \in 1 .. Len(plan[u]) /\ next[u] \in 1 .. Len(plan[u]) /\ i < next[u]
  BY <1>1, <1>4
<1> QED
  BY <1>2, <1>3, <1>5 DEF Rises, Row

LEMMA InvOnlyEditsDeadlock == Inv => OnlyEditsDeadlock
<1> SUFFICES ASSUME Inv, NEW S \in SUBSET (Checkouts \cup Releases), Deadlocked(S)
             PROVE  FALSE
  BY DEF OnlyEditsDeadlock
<1> DEFINE Room(t) == MaxVariant + 1 - Rank(Row(t))
           T == {Room(t) : t \in S}
<1>1. \A row : Rank(row) \in 0 .. MaxVariant + 1
  BY BoundsAssumption DEF Rank, Variants
<1>2. \A t \in S : Room(t) \in Nat
  BY <1>1, BoundsAssumption
<1>3. T \in SUBSET Nat /\ T # {}
  BY <1>2 DEF Deadlocked
<1>4. PICK m \in T : \A k \in T : m <= k
  <2> HIDE DEF T
  <2> QED
    BY <1>3, Least
<1>5. PICK t \in S : m = Room(t)
  OBVIOUS
<1>6. PICK u \in S : WaitsFor(t, u)
  BY DEF Deadlocked
<1>7. Writing(u)
  BY DEF Deadlocked, WaitsFor
<1>8. Rank(Row(t)) < Rank(Row(u))
  BY <1>6, <1>7, WaitsRise
<1>9. Room(t) <= Room(u)
  BY <1>4, <1>5
<1> QED
  BY <1>1, <1>8, <1>9, BoundsAssumption

\* Checkouts, cancellations and sweeps never deadlock among themselves, however many
\* there are and whatever they buy: a deadlock needs an edit of a product.
THEOREM DeadlockCorrect == Spec => []OnlyEditsDeadlock
  BY InvOnlyEditsDeadlock, InvCorrect, PTL

-----------------------------------------------------------------------------
(* Stock and orders.                                                       *)

LEMMA StockMovesStep ==
  ASSUME Inv, [Next]_vars, stock' # stock
  PROVE  orders' # orders \/ \E t \in Edits : pc[t] = "run" /\ pc'[t] = "done"
<1>1. ASSUME NEW t \in Calls, Commit(t)
      PROVE  orders' # orders \/ \E u \in Edits : pc[u] = "run" /\ pc'[u] = "done"
  <2>1. CASE t \in Checkouts
    BY <1>1, <2>1, CheckoutCommitted
  <2>2. CASE t \in Releases
    BY <1>1, <2>2, ReleaseCommitted
  <2>3. CASE t \in Edits
    BY <1>1, <2>3, EndFrame DEF Commit
  <2> QED
    BY <2>1, <2>2, <2>3 DEF Calls
<1>2. ASSUME NEW t \in Calls, Write(t) \/ Refuse(t) \/ Abort(t) \/ Victim(t)
      PROVE  stock' = stock
  BY <1>2 DEF Write, Refuse, Abort, Victim, Fail
<1>3. Start => stock' = stock
  BY DEF Start, BeginCheckout, BeginRelease, BeginEdit, Begin
<1>4. UNCHANGED vars => stock' = stock
  BY DEF vars
<1> QED
  BY <1>1, <1>2, <1>3, <1>4 DEF Next, Statement

\* Stock moves with an order or by an edit: no race and no second run restocks twice.
THEOREM StockMovesCorrect == Spec => StockMovesWithOrders
<1>1. Inv /\ [Next]_vars =>
        [stock' # stock => \/ orders' # orders
                           \/ \E t \in Edits : pc[t] = "run" /\ pc'[t] = "done"]_vars
  BY StockMovesStep
<1> QED
  BY <1>1, InvCorrect, PTL DEF Spec, StockMovesWithOrders

-----------------------------------------------------------------------------
(* Refinement. Only commits show: one that places an order reserves, one   *)
(* that cancels an order returns, one of an edit corrects.                 *)

HeldBy(o) == IF orders[o].phase = "open" THEN orders[o].units ELSE NoUnits

LEMMA LedgerInit == Init => Ledger!Init
<1> SUFFICES ASSUME Init PROVE Ledger!Init
  OBVIOUS
<1>1. stock \in [Variants -> Nat]
  BY BoundsAssumption DEF Init
<1>2. \A o \in Orders : orders[o].phase = "none"
  BY DEF Init
<1>3. [o \in Orders |-> HeldBy(o)] = [o \in Orders |-> Ledger!Nothing]
  BY <1>2 DEF HeldBy, NoUnits, Ledger!Nothing
<1>4. [o \in Orders |-> LedgerPhase(o)] = [o \in Orders |-> "none"]
  BY <1>2 DEF LedgerPhase
<1> QED
  BY <1>1, <1>3, <1>4 DEF Ledger!Init, HeldBy

LEMMA LedgerCheckout ==
  ASSUME Inv, NEW t \in Checkouts, Commit(t)
  PROVE  Ledger!Reserve(t)
<1> DEFINE held  == [o \in Orders |-> HeldBy(o)]
           phase == [o \in Orders |-> LedgerPhase(o)]
<1>1. /\ t \in Orders /\ orders[t].phase = "none"
      /\ orders'[t].phase = "open" /\ orders'[t].units = Taken(t)
      /\ orders'[t] \in [phase: Phases, units: [Variants -> Nat], coupon: {<<>>, <<Coupon>>}]
      /\ \A o \in Orders \ {t} : orders'[o] = orders[o]
  BY CheckoutCommitted
<1>2. /\ \A o \in Orders \ {t} : HeldBy(o)' = HeldBy(o) /\ LedgerPhase(o)' = LedgerPhase(o)
      /\ HeldBy(t)' = Taken(t) /\ LedgerPhase(t) = "none" /\ LedgerPhase(t)' = "holding"
  BY <1>1 DEF HeldBy, LedgerPhase
<1>3. phase[t] = "none" /\ phase' = [phase EXCEPT ![t] = "holding"]
  BY <1>1, <1>2
<1>4. \A o \in Orders : HeldBy(o) \in [Variants -> Nat]
  BY DEF HeldBy, Inv, TypeOK, NoUnits
<1>5. HeldBy(t)' \in [Variants -> Nat]
  BY <1>1, <1>2
<1>6. held' \in [Orders -> [Variants -> Nat]]
  BY <1>2, <1>4, <1>5
<1>7. \A o \in Orders \ {t} : held'[o] = held[o]
  BY <1>2
<1>8. \A v \in Variants : /\ stock[v] \in Nat /\ change[t][v] \in Int
                           /\ stock[v] + change[t][v] \in Nat /\ Taken(t)[v] = -change[t][v]
  <2>1. t \in Calls
    BY DEF Calls
  <2> QED
    BY <2>1, AtCommit DEF Inv, TypeOK, Taken
<1> HIDE DEF phase
<1>9. \A v \in Variants : held'[t][v] = -change[t][v] /\ held'[t][v] <= stock[v]
  <2>1. held'[t] = Taken(t)
    BY <1>1, <1>2
  <2> HIDE DEF held
  <2> QED
    BY <1>8, <2>1
<1> HIDE DEF held
<1>10. stock' = [v \in Variants |-> stock[v] - held'[t][v]]
  <2>1. stock' = [v \in Variants |-> stock[v] + change[t][v]]
    BY DEF Commit
  <2>2. \A v \in Variants : stock[v] + change[t][v] = stock[v] - held'[t][v]
    BY <1>8, <1>9
  <2> QED
    BY <2>1, <2>2
<1> QED
  BY <1>3, <1>6, <1>7, <1>9, <1>10 DEF Ledger!Reserve, HeldBy, phase, held

LEMMA LedgerRelease ==
  ASSUME Inv, NEW t \in Releases, Commit(t)
  PROVE  \E o \in Orders : Ledger!Return(o)
<1> DEFINE held  == [q \in Orders |-> HeldBy(q)]
           phase == [q \in Orders |-> LedgerPhase(q)]
<1>1. PICK o \in Orders :
      /\ orders[o].phase = "open" /\ change[t] = orders[o].units
      /\ orders'[o].phase = "cancelled"
      /\ \A q \in Orders \ {o} : orders'[q] = orders[q]
  BY ReleaseCommitted
<1>2. stock' = [v \in Variants |-> stock[v] + change[t][v]]
  BY DEF Commit
<1>3. /\ \A q \in Orders \ {o} : HeldBy(q)' = HeldBy(q) /\ LedgerPhase(q)' = LedgerPhase(q)
      /\ HeldBy(o) = change[t] /\ HeldBy(o)' = NoUnits
      /\ LedgerPhase(o) = "holding" /\ LedgerPhase(o)' = "returned"
  BY <1>1 DEF HeldBy, LedgerPhase
<1>4. phase[o] = "holding" /\ phase' = [phase EXCEPT ![o] = "returned"]
  BY <1>1, <1>3
<1>5. held' = [held EXCEPT ![o] = Ledger!Nothing]
  BY <1>1, <1>3 DEF NoUnits, Ledger!Nothing
<1>6. stock' = [v \in Variants |-> stock[v] + held[o][v]]
  BY <1>1, <1>2, <1>3
<1>7. Ledger!Return(o)
  BY <1>4, <1>5, <1>6 DEF Ledger!Return, HeldBy
<1> QED
  BY <1>7

LEMMA LedgerEdit ==
  ASSUME Inv, NEW t \in Edits, Commit(t)
  PROVE  Ledger!Correct
<1>1. t \in Calls
  BY DEF Calls
<1>2. \A v \in Variants : stock[v] + change[t][v] \in Nat
  BY <1>1, AtCommit
<1>3. stock' \in [Variants -> Nat]
  BY <1>2 DEF Commit
<1>4. orders' = orders
  BY EditCommitted
<1>5. \A o \in Orders : HeldBy(o)' = HeldBy(o) /\ LedgerPhase(o)' = LedgerPhase(o)
  BY <1>4 DEF HeldBy, LedgerPhase
<1> QED
  BY <1>3, <1>5 DEF Ledger!Correct, HeldBy

LEMMA LedgerStep == Inv /\ [Next]_vars => [Ledger!Next]_Ledger!ledger
<1> SUFFICES ASSUME Inv, [Next]_vars PROVE [Ledger!Next]_Ledger!ledger
  OBVIOUS
<1>1. ASSUME NEW t \in Checkouts, Commit(t) PROVE Ledger!Next
  BY <1>1, LedgerCheckout DEF Ledger!Next, Orders
<1>2. ASSUME NEW t \in Releases, Commit(t) PROVE Ledger!Next
  BY <1>2, LedgerRelease DEF Ledger!Next
<1>3. ASSUME NEW t \in Edits, Commit(t) PROVE Ledger!Next
  BY <1>3, LedgerEdit DEF Ledger!Next
<1>4. ASSUME UNCHANGED <<stock, orders>> PROVE UNCHANGED Ledger!ledger
  <2>1. \A o \in Orders : HeldBy(o)' = HeldBy(o) /\ LedgerPhase(o)' = LedgerPhase(o)
    BY <1>4 DEF HeldBy, LedgerPhase
  <2> QED
    BY <1>4, <2>1 DEF Ledger!ledger, HeldBy
<1>5. ASSUME NEW t \in Calls, Write(t) \/ Refuse(t) \/ Abort(t) \/ Victim(t)
      PROVE  UNCHANGED <<stock, orders>>
  BY <1>5 DEF Write, Refuse, Abort, Victim, Fail
<1>6. Start => UNCHANGED <<stock, orders>>
  BY DEF Start, BeginCheckout, BeginRelease, BeginEdit, Begin
<1>7. UNCHANGED vars => UNCHANGED <<stock, orders>>
  BY DEF vars
<1> QED
  BY <1>1, <1>2, <1>3, <1>4, <1>5, <1>6, <1>7 DEF Next, Statement, Calls

\* Row locks, victims and second runs included, the transactions do with stock what
\* StockLedger promises, for any number of calls, orders and variants.
THEOREM TransactionsImplementLedger == Spec => ImplementsLedger
  BY LedgerInit, LedgerStep, InvCorrect, PTL DEF Spec, ImplementsLedger, Ledger!Spec
=============================================================================
