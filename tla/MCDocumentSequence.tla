------------------------ MODULE MCDocumentSequence ------------------------
(* Two tenants; a key that resets yearly (INVOICE) and one that does not   *)
(* (ITEM, whose format has no year); the second tenant has no ITEM row.    *)
EXTENDS DocumentSequence, TLC

MCKeys == {"INVOICE", "ITEM"}
CONSTANTS t1, t2
MCSeeded == {<<t1, "INVOICE">>, <<t1, "ITEM">>, <<t2, "INVOICE">>}
MCResetYearly == [k \in MCKeys |-> k = "INVOICE"]
MCHasYear == [k \in MCKeys |-> k = "INVOICE"]
Symmetry == Permutations(Txs)
===========================================================================
