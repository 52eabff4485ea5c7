----------------------------- MODULE MCWorkOrders -----------------------------
(* Instances of WorkOrders for TLC.                                        *)
EXTENDS WorkOrders, TLC

Symmetry == Permutations(Requests) \cup Permutations(Steps)
===============================================================================
