------------------------- MODULE MCStockTransactions -------------------------
(* Small instances of StockTransactions. *)
EXTENDS StockTransactions, TLC

BothWays == {-1, 1}
Removals == {-1}
Symmetry == Permutations(Checkouts) \cup Permutations(Releases)
=============================================================================
