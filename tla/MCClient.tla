------------------------------ MODULE MCClient ------------------------------
(* TLC instances of Client. *)
EXTENDS Client, TLC

CONSTANTS c1, c2, u1, d1, d2

\* Callers, and DIDs, are only compared with each other.
ClientSymmetry == Permutations(Caller) \cup Permutations(Did)
=============================================================================
