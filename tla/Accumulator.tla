---------------------------- MODULE Accumulator ----------------------------
(***************************************************************************)
(* The open epoch of the aggregator (accumulator.rs): the leaves submitted *)
(* since the last swap, each with the DID that submitted it first.  Every  *)
(* operation takes the accumulator's mutex for its whole body, so each is  *)
(* one atomic step.                                                        *)
(*                                                                         *)
(* MaxEpoch bounds the epoch ids.  It plays the part of u64::MAX: the id   *)
(* saturates there (accumulator.rs, saturating_add).  No leaf is accepted  *)
(* while MaxEpoch is open (Sealer, submit_leaves), so it stands for the    *)
(* unending run of empty epochs that follows the interesting ones.         *)
(***************************************************************************)
EXTENDS Naturals, FiniteSets

CONSTANTS
    Leaf,       \* leaf hashes
    Did,        \* submitter DIDs
    NoDid,      \* "this leaf is not in the map"
    LeafCap,    \* leaves per epoch (MAX_LEAVES_PER_EPOCH in production)
    MaxEpoch    \* largest epoch id

ASSUME AccumulatorAssumption ==
    /\ IsFiniteSet(Leaf)    \* hashes of 32 bytes
    /\ NoDid \notin Did
    /\ LeafCap \in Nat
    /\ MaxEpoch \in Nat \ {0}

VARIABLES
    epoch_id,   \* id of the open epoch
    leaves      \* its leaves: leaf |-> first submitter, NoDid when absent

accVars == <<epoch_id, leaves>>

Epoch == 1..MaxEpoch
NoEpoch == 0

\* The shape of an epoch's leaf set: AccumulatorInner.leaves and .seen in one.
LeafMap == [Leaf -> Did \cup {NoDid}]
NoLeaves == [l \in Leaf |-> NoDid]
LeavesIn(map) == {l \in Leaf : map[l] # NoDid}

\* Epoch ids are u64 and never wrap; MaxEpoch is the model's u64::MAX.
NextEpochId(id) == IF id < MaxEpoch THEN id + 1 ELSE MaxEpoch

AccTypeOK ==
    /\ epoch_id \in Epoch
    /\ leaves \in LeafMap

----------------------------------------------------------------------------

\* The leaves of a batch the open epoch has not seen.
Fresh(batch) == {l \in batch : leaves[l] = NoDid}

\* Faulty variant: the batch itself is not counted.
EpochFullBeforeBatch(batch) ==
    Cardinality(LeavesIn(leaves)) > LeafCap

EpochFull(batch) ==
    Cardinality(LeavesIn(leaves)) + Cardinality(Fresh(batch)) > LeafCap

\* Faulty variant: the last submitter takes the leaf over.
append_batch_overwriting(batch, did) ==
    /\ ~EpochFull(batch)
    /\ leaves' = [l \in Leaf |-> IF l \in batch THEN did ELSE leaves[l]]
    /\ UNCHANGED epoch_id

\* A batch is taken whole or refused whole; the first submitter keeps a leaf.
append_batch(batch, did) ==
    /\ ~EpochFull(batch)
    /\ leaves' = [l \in Leaf |-> IF l \in Fresh(batch) THEN did ELSE leaves[l]]
    /\ UNCHANGED epoch_id

\* Close the open epoch and open the next one, empty, under the same lock.
\* The caller takes SealedSnapshot before the swap.
SealedSnapshot == [id |-> epoch_id, leaves |-> leaves]

swap_and_open_next ==
    /\ epoch_id' = NextEpochId(epoch_id)
    /\ leaves' = NoLeaves

============================================================================
