----------------------------- MODULE MCCheckout -----------------------------
(* Small instances of Checkout. *)
EXTENDS Checkout, TLC

Symmetry == Permutations(Buyers) \cup Permutations(Variants) \cup Permutations(Carts)
=============================================================================
