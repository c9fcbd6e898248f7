-------------------------- MODULE MCOrderPayments --------------------------
(* Small instances of OrderPayments. *)
EXTENDS OrderPayments, TLC

Everything == Kinds
Paying     == {"charge", "paid", "failed", "status"}
SoundCalls == {"charge", "paid", "status", "cancel"}
Cancelling == {"paid", "charge", "cancel"}
Confirming == {"charge", "paid"}
Declining  == {"charge", "failed"}

AdminTargets == {Confirmed, Delivered, Cancelled, Refunded}
PayTargets   == {Confirmed, Cancelled}
FeeChoices   == {0, 1}
NoFee        == {0}

Symmetry == Permutations(Requests)
=============================================================================
