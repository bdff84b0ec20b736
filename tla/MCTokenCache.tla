---------------------------- MODULE MCTokenCache ----------------------------
(* TLC instances of TokenCache. *)
EXTENDS TokenCache, TLC

CONSTANTS c1, c2, c3

\* Callers are only compared with each other.
CallerSymmetry == Permutations(Caller)
=============================================================================
