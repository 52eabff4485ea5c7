---------------------------- MODULE MCIdempotency ----------------------------
(* Two keys, two endpoints, two bodies and two requests that may overlap.  *)
EXTENDS Idempotency, TLC
Symmetry == Permutations(Requests) \cup Permutations(Keys)
==============================================================================
