------------------------------ MODULE MCSealer ------------------------------
(* TLC instances of Sealer. *)
EXTENDS SealerLedger, TLC

CONSTANTS l1, l2, d1, d2, evm, qtsa

\* Leaves and DIDs are only compared with each other.
LeafSymmetry == Permutations(Leaf) \cup Permutations(Did)

BothMethods == {{evm, qtsa}}
EvmOnly == {{evm}}
QtsaOnly == {{qtsa}}
QtsaOrNone == {{qtsa}, {}}
============================================================================
