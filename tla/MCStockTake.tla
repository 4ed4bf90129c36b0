---------------------------- MODULE MCStockTake ----------------------------
(* Small instances of StockTake.                                           *)
EXTENDS StockTake, TLC

MCSymmetry == Permutations(Workers)

=============================================================================
