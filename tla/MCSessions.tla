---------------------------- MODULE MCSessions ----------------------------
(* Small instance of Sessions.                                             *)
EXTENDS Sessions

CONSTANTS p1, p2
=============================================================================
