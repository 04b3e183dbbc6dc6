---------------------------- MODULE MCStockLedger ----------------------------
(* TLC instances of StockLedger.                                           *)
EXTENDS StockLedger, TLC

CONSTANTS l1, l2

OneLine == {l1}
TwoLines == {l1, l2}
LineSymmetry == Permutations(TwoLines)
=============================================================================
