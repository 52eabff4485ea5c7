---------------------------- MODULE MCStockLedger ----------------------------
(* One document of each kind and one count, quantities of 1, min_stock 1,  *)
(* and two requests that may overlap.                                      *)
EXTENDS StockLedger, TLC
Symmetry == Permutations(Requests)
==============================================================================
