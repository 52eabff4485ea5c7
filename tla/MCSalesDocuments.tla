-------------------------- MODULE MCSalesDocuments --------------------------
(* One quotation of 3, payments and partial invoices of 2.  The first      *)
(* invoice moves stock and takes up to two payments, the second does       *)
(* neither: it is there to be billed, issued, voided and swept beside it.  *)
EXTENDS SalesDocuments, TLC
CONSTANTS i1, i2
MCMaxPaid == (i1 :> 4) @@ (i2 :> 0)
Symmetry == Permutations(Requests)
=============================================================================
