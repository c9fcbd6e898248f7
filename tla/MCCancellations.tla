--------------------------- MODULE MCCancellations ---------------------------
(* Small instances of Cancellations. *)
EXTENDS Cancellations, TLC

FeeChoices == {0, 1, 3}
Symmetry == Permutations(Calls)
=============================================================================
