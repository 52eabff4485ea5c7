------------------------------- MODULE MCSeatCap -------------------------------
EXTENDS SeatCap, TLC

CONSTANTS r1, r2, u2, u3
Symmetry == Permutations({r1, r2}) \cup Permutations({u2, u3})
================================================================================
