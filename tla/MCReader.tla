------------------------------ MODULE MCReader ------------------------------
(* TLC instances of Reader. *)
EXTENDS Reader, TLC

CONSTANTS l1, l2, d1, d2, evm, qtsa

\* DIDs are only compared with each other.
DidSymmetry == Permutations(Did)

QtsaOnly == {{qtsa}}
QtsaOrNone == {{qtsa}, {}}
=============================================================================
