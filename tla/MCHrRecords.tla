---------------------------- MODULE MCHrRecords ----------------------------
(* Small instance of HrRecords.                                            *)
EXTENDS HrRecords, TLC

CONSTANTS d1, d2, d3, x1, e1, e2, o1, p1, p2

MCRequested == (o1 :> 2)
MCWorkedBy == (o1 :> e1)
Symmetry == Permutations({d1, d2, d3}) \cup Permutations({p1, p2})
=============================================================================
