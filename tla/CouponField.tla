----------------------------- MODULE CouponField -----------------------------
(***************************************************************************)
(* The coupon field of the checkout page, and the order it goes into.      *)
(*   apps/client/src/hooks/storefront/useCoupon.ts, couponState.ts         *)
(*   apps/client/src/hooks/storefront/useCheckout.ts   submit              *)
(*   apps/client/src/components/storefront/checkout/CouponSection.tsx      *)
(*                                                                         *)
(* A coupon is validated for the subtotal of the moment: when it is        *)
(* applied, and by an effect whenever the subtotal moved. The effect runs  *)
(* some time after the change; answers come in any order. The discount is  *)
(* known by its code and the subtotal it was validated for.                *)
(***************************************************************************)
EXTENDS Naturals

CONSTANTS
  Codes,        \* what may be typed
  NoCode,       \* the empty field
  MaxSubtotal,  \* bound: subtotals of the cart are 0 .. MaxSubtotal
  MaxChecks     \* bound: validations

ASSUME CouponAssumption == NoCode \in Codes /\ MaxSubtotal \in Nat /\ MaxChecks \in Nat

VARIABLES
  subtotal,  \* cartSubtotal of the items shown
  field,     \* [input, applied, checking] of couponReducer; applied is the
             \*   number of the validation whose answer is applied, or 0
  effect,    \* the dependencies the effect last ran with
  checks,    \* the validations sent, in order: [by, code, subtotal, status, cancelled]
  placing    \* of the order: no, sent, locked (form.pendingOrder is set)

couponVars == <<subtotal, field, effect, checks, placing>>

CouponInit ==
  /\ subtotal \in 0 .. MaxSubtotal
  /\ field = [input |-> NoCode, applied |-> 0, checking |-> FALSE]
  /\ effect = <<0, subtotal, FALSE>>
  /\ checks = <<>>
  /\ placing = "no"

Checks == DOMAIN checks
LastCheck == CHOOSE n \in 0 .. MaxChecks : Checks = 1 .. n
Locked == placing = "locked"
EffectDeps == <<field.applied, subtotal, Locked>>

Validate(by) == [by |-> by, code |-> field.input, subtotal |-> subtotal, status |-> "pending", cancelled |-> FALSE]
Append1(check) == [n \in 1 .. LastCheck + 1 |-> IF n > LastCheck THEN check ELSE checks[n]]

-----------------------------------------------------------------------------

\* The cart changes: another tab, a line of this one, a sale that starts.
ChangeCart(s) ==
  /\ s # subtotal
  /\ subtotal' = s
  /\ UNCHANGED <<field, effect, checks, placing>>

\* The input is disabled once the order exists.
Edit(c) ==
  /\ ~Locked
  /\ c # field.input
  /\ field' = [field EXCEPT !.input = c, !.applied = 0]
  /\ UNCHANGED <<subtotal, effect, checks, placing>>

Remove ==
  /\ ~Locked
  /\ field.applied > 0
  /\ field' = [field EXCEPT !.input = NoCode, !.applied = 0]
  /\ UNCHANGED <<subtotal, effect, checks, placing>>

\* The button waits for the answer, the Enter key does not.
Apply ==
  /\ ~Locked
  /\ LastCheck < MaxChecks
  /\ \/ /\ field.input = NoCode
        /\ field' = [field EXCEPT !.applied = 0]
        /\ UNCHANGED checks
     \/ /\ field.input # NoCode
        /\ field' = [field EXCEPT !.applied = 0, !.checking = TRUE]
        /\ checks' = Append1(Validate("apply"))
  /\ UNCHANGED <<subtotal, effect, placing>>

\* Variant for the checks: only a cart that grew is checked again.
GrownSince == checks[field.applied].subtotal < subtotal
\* applied.subtotal !== subtotal
MovedSince == checks[field.applied].subtotal # subtotal

NeedsRevalidation == field.applied > 0 /\ MovedSince /\ ~Locked /\ subtotal > 0

\* The clean-up of the effect that ran before, then the effect.
RunCouponEffect ==
  LET before == [n \in Checks |-> IF checks[n].by = "effect" THEN [checks[n] EXCEPT !.cancelled = TRUE] ELSE checks[n]]
      again == [Validate("effect") EXCEPT !.code = checks[field.applied].code]
  IN /\ effect # EffectDeps
     /\ LastCheck < MaxChecks
     /\ effect' = EffectDeps
     /\ checks' = IF NeedsRevalidation
                  THEN [n \in 1 .. LastCheck + 1 |-> IF n > LastCheck THEN again ELSE before[n]]
                  ELSE before
     /\ UNCHANGED <<subtotal, field, placing>>

Answer(n, status) ==
  /\ checks[n].status = "pending"
  /\ checks' = [checks EXCEPT ![n].status = status]
  /\ UNCHANGED <<subtotal, effect, placing>>

Valid(n) ==
  /\ Answer(n, "valid")
  /\ field' = IF checks[n].cancelled THEN field ELSE [field EXCEPT !.applied = n, !.checking = FALSE]

Rejected == [field EXCEPT !.applied = 0, !.checking = FALSE]

Invalid(n) ==
  /\ Answer(n, "invalid")
  /\ field' = IF checks[n].cancelled THEN field ELSE Rejected

-----------------------------------------------------------------------------
(* submit                                                                  *)

Submit ==
  /\ placing = "no"
  /\ placing' = "sent"
  /\ UNCHANGED <<subtotal, field, effect, checks>>

OrderCreated ==
  /\ placing = "sent"
  /\ placing' = "locked"
  /\ UNCHANGED <<subtotal, field, effect, checks>>

\* COUPON_ codes drop the coupon; other errors leave it.
OrderRefused ==
  /\ placing = "sent"
  /\ placing' = "no"
  /\ field' \in {field, Rejected}
  /\ UNCHANGED <<subtotal, effect, checks>>

CouponNext ==
  \/ \E s \in 0 .. MaxSubtotal : ChangeCart(s)
  \/ \E c \in Codes : Edit(c)
  \/ Remove \/ Apply \/ RunCouponEffect
  \/ \E n \in Checks : Valid(n) \/ Invalid(n)
  \/ Submit \/ OrderCreated \/ OrderRefused

CouponSpec == CouponInit /\ [][CouponNext]_couponVars

-----------------------------------------------------------------------------

\* Types: the field and the validations.
CouponTypeOK ==
  /\ subtotal \in 0 .. MaxSubtotal
  /\ LastCheck \in 0 .. MaxChecks
  /\ field \in [input : Codes, applied : 0 .. LastCheck, checking : BOOLEAN]
  /\ \A n \in Checks : checks[n] \in [by : {"apply", "effect"}, code : Codes, subtotal : 0 .. MaxSubtotal,
                                      status : {"pending", "valid", "invalid"}, cancelled : BOOLEAN]
  /\ placing \in {"no", "sent", "locked"}

\* When no validation is out and the page has caught up, the discount shown
\* is the one for the cart shown, whatever cart the answers were for and
\* whatever order they came in (but for an empty cart, and once the order
\* exists); and the field is not left checking.
DiscountFitsCart ==
  effect = EffectDeps /\ (\A n \in Checks : checks[n].status = "pending" => checks[n].cancelled) =>
    /\ field.applied > 0 => checks[field.applied].subtotal = subtotal \/ Locked \/ subtotal = 0
    /\ ~field.checking
=============================================================================
