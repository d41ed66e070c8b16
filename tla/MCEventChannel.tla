--------------------------- MODULE MCEventChannel ---------------------------
(* Two publishers and two consumers; either set may be permuted.           *)
EXTENDS EventChannel, TLC

CONSTANTS p1, p2, c1, c2

Symmetry == Permutations({p1, p2}) \cup Permutations({c1, c2})
=============================================================================
