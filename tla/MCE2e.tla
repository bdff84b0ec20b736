------------------------------- MODULE MCE2e -------------------------------
(* TLC instances of E2e. *)
EXTENDS E2e, TLC

CONSTANTS p1, p2, p3, k1, k2, k3

OwnKey == p1 :> k1 @@ p2 :> k2 @@ p3 :> k3
TwoRuns == <<"r1", "r2">>
=============================================================================
