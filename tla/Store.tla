------------------------------- MODULE Store -------------------------------
(***************************************************************************)
(* The durable state of the aggregator (storage.rs): the fjall partitions  *)
(* a sealed epoch, its pending anchors and its witnesses live in.          *)
(*                                                                         *)
(* A write is one fjall batch followed by an fsync of the journal.  It     *)
(*   - succeeds ("ok"),                                                    *)
(*   - fails with nothing written ("fail"), or                             *)
(*   - is applied and then fails to sync ("late"): the caller sees an      *)
(*     error although readers see the new rows.                            *)
(* After a failed sync fjall refuses every further write of the process    *)
(* (poisoned) until the keyspace is reopened.  Which failures a run        *)
(* explores is the constant StoreFaults.                                   *)
(*                                                                         *)
(* Rows that the code always writes together are one function here:        *)
(* witnesses[e][m] = a says that the revisions, tip_to_pair rows and       *)
(* self_checked_tips rows of every leaf of e under m exist and carry       *)
(* anchor a.                                                               *)
(***************************************************************************)
EXTENDS Accumulator, PendingEpoch

CONSTANT StoreFaults

ASSUME StoreAssumption == StoreFaults \subseteq {"fail", "late"}

VARIABLES
    sealed,         \* epochs: ids with a record
    epoch_leaves,   \* epoch_leaves: epoch |-> its leaf map
    pending,        \* pending_anchors: epoch |-> pending record
    pending_leaves, \* leaf |-> method |-> epoch outstanding, or NoEpoch
    leaf_to_tips,   \* leaf |-> method |-> epoch of the tip, or NoEpoch
    witnesses,      \* epoch |-> method |-> anchor of the witnesses, or NoAnchor
    leaf_owner,     \* leaf |-> DID, or NoDid
    poisoned        \* fjall refuses writes since a sync failed

storeVars == <<sealed, epoch_leaves, pending, pending_leaves, leaf_to_tips,
               witnesses, leaf_owner, poisoned>>

EpochTable == [Leaf -> [Method -> Epoch \cup {NoEpoch}]]

StoreTypeOK ==
    /\ sealed \in SUBSET Epoch
    /\ epoch_leaves \in [Epoch -> LeafMap]
    /\ pending \in [Epoch -> PendingRecord]
    /\ pending_leaves \in EpochTable
    /\ leaf_to_tips \in EpochTable
    /\ witnesses \in [Epoch -> [Method -> Anchor \cup {NoAnchor}]]
    /\ leaf_owner \in LeafMap
    /\ poisoned \in BOOLEAN

StoreInit ==
    /\ sealed = {}
    /\ epoch_leaves = [e \in Epoch |-> NoLeaves]
    /\ pending = [e \in Epoch |-> NoPending]
    /\ pending_leaves = [l \in Leaf |-> [m \in Method |-> NoEpoch]]
    /\ leaf_to_tips = [l \in Leaf |-> [m \in Method |-> NoEpoch]]
    /\ witnesses = [e \in Epoch |-> [m \in Method |-> NoAnchor]]
    /\ leaf_owner = NoLeaves
    /\ poisoned = FALSE

----------------------------------------------------------------------------
(* Outcomes of a write. *)

Outcome == {"ok", "fail", "late"}

WriteOutcomes == IF poisoned THEN {"fail"} ELSE {"ok"} \cup StoreFaults

Applied(o) == o # "fail"

Commit(o) ==
    /\ o \in WriteOutcomes
    /\ poisoned' = (poisoned \/ o = "late")

----------------------------------------------------------------------------
(* Reads. *)

ListPendingEpochs == {e \in Epoch : pending[e].methods # {}}

\* Faulty variant: the keys are read from the wrong end.
first_sealed_epoch_id == CHOOSE e \in sealed : \A f \in sealed : e <= f

last_sealed_epoch_id == CHOOSE e \in sealed : \A f \in sealed : f <= e

----------------------------------------------------------------------------
(* Writes. *)

\* One batch: epoch record, leaf rows and owners, pending record, lookups.
persist_sealed_epoch_with_pending(snap, rec, o) ==
    /\ Commit(o)
    /\ IF Applied(o)
         THEN /\ sealed' = sealed \cup {snap.id}
              /\ epoch_leaves' = [epoch_leaves EXCEPT ![snap.id] = snap.leaves]
              /\ pending' = [pending EXCEPT ![snap.id] = rec]
              /\ pending_leaves' =
                    [l \in Leaf |-> [m \in Method |->
                        IF snap.leaves[l] # NoDid /\ m \in rec.methods
                          THEN snap.id ELSE pending_leaves[l][m]]]
              /\ leaf_owner' =
                    [l \in Leaf |-> IF snap.leaves[l] # NoDid
                                      THEN snap.leaves[l] ELSE leaf_owner[l]]
         ELSE UNCHANGED <<sealed, epoch_leaves, pending, pending_leaves, leaf_owner>>
    /\ UNCHANGED <<leaf_to_tips, witnesses>>

\* Overwrite epoch e's pending record.
save_pending(e, rec, o) ==
    /\ Commit(o)
    /\ pending' = IF Applied(o) THEN [pending EXCEPT ![e] = rec] ELSE pending
    /\ UNCHANGED <<sealed, epoch_leaves, pending_leaves, leaf_to_tips,
                   witnesses, leaf_owner>>

\* Faulty variant: the lookup is removed whichever epoch it names.
persist_pending_minted_dropping(e, remaining, done, a, o) ==
    /\ Commit(o)
    /\ IF Applied(o)
         THEN /\ witnesses' = [witnesses EXCEPT ![e][done] = a]
              /\ leaf_to_tips' =
                    [l \in Leaf |-> [m \in Method |->
                        IF m = done /\ epoch_leaves[e][l] # NoDid
                          THEN e ELSE leaf_to_tips[l][m]]]
              /\ pending_leaves' =
                    [l \in Leaf |-> [m \in Method |->
                        IF m = done /\ epoch_leaves[e][l] # NoDid
                          THEN NoEpoch ELSE pending_leaves[l][m]]]
              /\ pending' = [pending EXCEPT ![e] = remaining]
         ELSE UNCHANGED <<witnesses, leaf_to_tips, pending_leaves, pending>>
    /\ UNCHANGED <<sealed, epoch_leaves, leaf_owner>>

\* One batch: the witnesses of (e, done) minted from anchor a, the record
\* without done, and the lookups of this epoch (not those of a later one).
persist_pending_minted(e, remaining, done, a, o) ==
    /\ Commit(o)
    /\ IF Applied(o)
         THEN /\ witnesses' = [witnesses EXCEPT ![e][done] = a]
              /\ leaf_to_tips' =
                    [l \in Leaf |-> [m \in Method |->
                        IF m = done /\ epoch_leaves[e][l] # NoDid
                          THEN e ELSE leaf_to_tips[l][m]]]
              /\ pending_leaves' =
                    [l \in Leaf |-> [m \in Method |->
                        IF m = done /\ epoch_leaves[e][l] # NoDid
                                    /\ pending_leaves[l][m] = e
                          THEN NoEpoch ELSE pending_leaves[l][m]]]
              /\ pending' = [pending EXCEPT ![e] = remaining]
         ELSE UNCHANGED <<witnesses, leaf_to_tips, pending_leaves, pending>>
    /\ UNCHANGED <<sealed, epoch_leaves, leaf_owner>>

============================================================================
