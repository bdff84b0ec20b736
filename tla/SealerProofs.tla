---------------------------- MODULE SealerProofs ----------------------------
(***************************************************************************)
(* IInv (SealerInv) is an invariant of Sealer's Spec, for every value of   *)
(* the constants: one lemma per action, then the theorems.                 *)
(***************************************************************************)
EXTENDS SealerInv, FiniteSetTheorems, TLAPS

USE AccumulatorAssumption, PendingAssumption, StoreAssumption,
    ProviderAssumption, SealerAssumption

\* The empty leaf map and the absent pending record have their types.
LEMMA EmptyTypes == NoLeaves \in LeafMap /\ NoPending \in PendingRecord
    BY DEF NoLeaves, LeafMap, NoPending, NewPending, PendingRecord, Anchor, NoAnchor

\* A first start with an empty store satisfies the invariant.
LEMMA InitInv == Init => IInv
<1> SUFFICES ASSUME Init PROVE IInv
    OBVIOUS
<1>1. NoLeaves \in LeafMap
    BY EmptyTypes
<1>2. NoPending \in PendingRecord
    BY EmptyTypes
<1>3. TypeOK
  <2>1. AccTypeOK
    BY <1>1 DEF Init, AccTypeOK, Epoch
  <2>2. StoreTypeOK
    BY <1>1, <1>2 DEF Init, StoreInit, StoreTypeOK, EpochTable
  <2>3. ChainTypeOK
    BY DEF Init, ChainInit, ChainTypeOK, AnchorEntry, AnchorStatus
  <2> QED
    BY <1>1, <1>2, <2>1, <2>2, <2>3 DEF Init, TypeOK, NoSnap, Counts
<1>4. IdInv /\ AckInv /\ UntouchedInv /\ PendingOrServed
    BY DEF Init, StoreInit, IdInv, AckInv, AckedLeavesKept, UntouchedInv, PendingOrServed,
        Above, NoSnap, NoEpoch, NoPending, NewPending, Epoch
<1>5. MemoryInv
    BY DEF Init, StoreInit, MemoryInv, WellFormed, NoPending, NewPending
<1>6. AccountInv
    BY DEF Init, StoreInit, AccountInv, Balanced, UnsavedBound, WellFormed, NoPending, NewPending, One
<1> QED
    BY <1>3, <1>4, <1>5, <1>6 DEF IInv

\* submit_leaves keeps the invariant: the first owner of a leaf stays, and the
\* answer names the epoch the leaf is in.
LEMMA SubmitInv ==
    ASSUME NEW batch \in SUBSET Leaf, NEW did \in Did, IInv, submit_leaves(batch, did)
    PROVE  IInv'
<1> USE DEF submit_leaves, append_batch, storeVars, sealerVars
<1>1. TypeOK'
  <2>1. leaves' \in LeafMap
    BY DEF IInv, TypeOK, AccTypeOK, LeafMap, Fresh
  <2>2. \A l \in batch : leaves'[l] \in Did
    BY DEF IInv, TypeOK, AccTypeOK, LeafMap, Fresh
  <2>3. acked' \in SUBSET [leaf : Leaf, did : Did, epoch : Epoch, boot : Nat]
    <3>1. \A l \in batch :
             [leaf |-> l, did |-> leaves'[l], epoch |-> epoch_id, boot |-> crashes]
               \in [leaf : Leaf, did : Did, epoch : Epoch, boot : Nat]
      BY <2>2 DEF IInv, TypeOK, AccTypeOK
    <3>2. acked \in SUBSET [leaf : Leaf, did : Did, epoch : Epoch, boot : Nat]
      BY DEF IInv, TypeOK
    <3> HIDE DEF append_batch
    <3> QED
      BY <3>1, <3>2
  <2> QED
    BY <2>1, <2>3 DEF IInv, TypeOK, AccTypeOK, StoreTypeOK, ChainTypeOK
<1>2. IdInv'
    BY DEF IInv, TypeOK, IdInv, Above
<1>3. AckInv'
    BY DEF IInv, TypeOK, AccTypeOK, LeafMap, AckInv, AckedLeavesKept, Kept, Fresh, IdInv
<1>4. UntouchedInv' /\ PendingOrServed'
    BY DEF IInv, UntouchedInv, PendingOrServed
<1>5. MemoryInv'
    BY DEF IInv, MemoryInv, Follows, SameAs, Gained, Dropped, WellFormed
<1>6. AccountInv'
    BY DEF IInv, AccountInv, Balanced, UnsavedBound, WellFormed, One
<1> QED
    BY <1>1, <1>2, <1>3, <1>4, <1>5, <1>6 DEF IInv

\* The settle_method paths that make no successful provider call keep the
\* invariant.
LEMMA SettleWithoutAnchorInv ==
    ASSUME NEW m \in Method, IInv, LeaveDisabled(m) \/ UseStoredAnchor(m) \/ SkipAnchor(m) \/ AnchorFails(m)
    PROVE  IInv'
<1> USE DEF LeaveDisabled, UseStoredAnchor, SkipAnchor, AnchorFails, MayAnchor, Settling, MethodDone, accVars, storeVars, historyVars
<1>1. TypeOK'
    BY DEF IInv, TypeOK, AccTypeOK, StoreTypeOK, ChainTypeOK
<1>2. IdInv' /\ AckInv'
    BY DEF IInv, IdInv, Above, AckInv, AckedLeavesKept, Kept
<1>3. UntouchedInv' /\ PendingOrServed'
    BY DEF IInv, UntouchedInv, PendingOrServed
<1>4. MemoryInv'
  <2> USE DEF IInv, MemoryInv, Follows, SameAs, Gained, Dropped, WellFormed
  <2>1. CASE LeaveDisabled(m)
    BY <2>1
  <2>2. CASE UseStoredAnchor(m)
    <3>1. \A n \in todo : n # meth /\ SameAs(rec, n)
      BY <2>2 DEF TypeOK
    <3> QED
      BY <2>2, <3>1
  <2>3. CASE SkipAnchor(m)
    BY <2>3
  <2>4. CASE AnchorFails(m)
    BY <2>4
  <2> QED
    BY <2>1, <2>2, <2>3, <2>4
<1>5. AccountInv'
    BY DEF IInv, AccountInv, Balanced, UnsavedBound, WellFormed, MemoryInv, One
<1> QED
    BY <1>1, <1>2, <1>3, <1>4, <1>5 DEF IInv

\* Keeping an anchor that is not final, or accepting the batch, keeps it.
LEMMA JudgeInv ==
    ASSUME IInv, KeepAnchor \/ Verified
    PROVE  IInv'
<1> USE DEF KeepAnchor, Verified, MethodDone, accVars, storeVars, historyVars
<1>1. TypeOK'
    BY DEF IInv, TypeOK, AccTypeOK, StoreTypeOK, ChainTypeOK
<1>2. IdInv' /\ AckInv'
    BY DEF IInv, IdInv, Above, AckInv, AckedLeavesKept, Kept
<1>3. UntouchedInv' /\ PendingOrServed'
    BY DEF IInv, UntouchedInv, PendingOrServed
<1>4. MemoryInv'
    BY DEF IInv, MemoryInv, Follows, SameAs, Gained, Dropped, WellFormed
<1>5. AccountInv'
    BY DEF IInv, AccountInv, Balanced, UnsavedBound, WellFormed, MemoryInv, One
<1> QED
    BY <1>1, <1>2, <1>3, <1>4, <1>5 DEF IInv

\* The end of a tick forgets the in-memory record and keeps the invariant.
LEMMA EndTickInv ==
    ASSUME IInv, EndTick
    PROVE  IInv'
<1> USE DEF EndTick, NoPending, NewPending, accVars, storeVars, historyVars
<1>1. TypeOK'
    BY EmptyTypes DEF IInv, TypeOK, AccTypeOK, StoreTypeOK, ChainTypeOK
<1>2. IdInv' /\ AckInv'
    BY DEF IInv, IdInv, Above, AckInv, AckedLeavesKept, Kept
<1>3. UntouchedInv' /\ PendingOrServed'
    BY DEF IInv, UntouchedInv, PendingOrServed
<1>4. MemoryInv'
    BY DEF IInv, MemoryInv, Follows, SameAs, Gained, Dropped, WellFormed
<1>5. AccountInv'
    BY DEF IInv, AccountInv, Balanced, UnsavedBound, WellFormed, MemoryInv, One
<1> QED
    BY <1>1, <1>2, <1>3, <1>4, <1>5 DEF IInv

\* Taking the next pending epoch loads the stored record, which the in-memory
\* one then equals.
LEMMA NextPendingInv ==
    ASSUME IInv, NextPending
    PROVE  IInv'
<1> USE DEF NextPending, accVars, storeVars, historyVars
<1>1. TypeOK'
  <2>1. \A e \in Epoch : pending[e] \in PendingRecord
    BY DEF IInv, TypeOK, StoreTypeOK
  <2>2. \A e \in Epoch : pending[e].methods \in SUBSET Method
    BY <2>1 DEF PendingRecord
  <2> QED
    BY <2>1, <2>2 DEF IInv, TypeOK, AccTypeOK, StoreTypeOK, ChainTypeOK
<1>2. IdInv' /\ AckInv'
    BY DEF IInv, IdInv, Above, AckInv, AckedLeavesKept, Kept
<1>3. UntouchedInv' /\ PendingOrServed'
    BY DEF IInv, UntouchedInv, PendingOrServed
<1>4. MemoryInv'
  <2>1. PICK e \in Epoch : cur' = e /\ rec' = pending[e] /\ todo' = pending[e].methods
    BY DEF IInv, TypeOK
  <2>2. e # NoEpoch
    BY DEF Epoch, NoEpoch
  <2> QED
    BY <2>1, <2>2 DEF IInv, MemoryInv, AccountInv, Follows, SameAs, Gained, Dropped, WellFormed
<1>5. AccountInv'
    BY DEF IInv, AccountInv, Balanced, UnsavedBound, WellFormed, MemoryInv, One
<1> QED
    BY <1>1, <1>2, <1>3, <1>4, <1>5 DEF IInv

\* Ageing changes neither methods, anchors nor fault counts.
LEMMA OlderRecord ==
    ASSUME NEW r \in PendingRecord
    PROVE  /\ Older(r) \in PendingRecord
           /\ Older(r).methods = r.methods
           /\ Older(r).anchor = r.anchor
           /\ Older(r).faults = r.faults
    BY DEF Older, PendingRecord

\* A new tick only ages the held anchors.
LEMMA StartTickInv ==
    ASSUME NEW listed \in SUBSET Epoch, IInv, StartTick(listed)
    PROVE  IInv'
<1> USE DEF StartTick, accVars, historyVars
<1>1. \A e \in Epoch : pending[e] \in PendingRecord
    BY DEF IInv, TypeOK, StoreTypeOK
<1>2. \A e \in Epoch : /\ pending'[e] \in PendingRecord
                        /\ pending'[e].methods = pending[e].methods
                        /\ pending'[e].anchor = pending[e].anchor
                        /\ pending'[e].faults = pending[e].faults
    BY <1>1, OlderRecord
<1>3. pending' \in [Epoch -> PendingRecord]
    BY <1>2
<1>4. TypeOK'
    BY <1>3 DEF IInv, TypeOK, AccTypeOK, StoreTypeOK, ChainTypeOK
<1>5. IdInv' /\ AckInv'
    BY DEF IInv, IdInv, Above, AckInv, AckedLeavesKept, Kept
<1>6. UntouchedInv' /\ PendingOrServed'
    BY <1>2 DEF IInv, UntouchedInv, PendingOrServed
<1>7. MemoryInv'
    BY DEF IInv, MemoryInv, WellFormed
<1>8. AccountInv'
    BY <1>2 DEF IInv, AccountInv, Balanced, UnsavedBound, WellFormed, One
<1> QED
    BY <1>4, <1>5, <1>6, <1>7, <1>8 DEF IInv

\* What an update of a pending record leaves alone.
LEMMA SetAnchorRecord ==
    ASSUME NEW r \in PendingRecord, NEW m \in Method, NEW a \in Anchor \cup {NoAnchor}
    PROVE  /\ set_anchor(r, m, a) \in PendingRecord
           /\ set_anchor(r, m, a).methods = r.methods
           /\ set_anchor(r, m, a).anchor = [r.anchor EXCEPT ![m] = a]
           /\ set_anchor(r, m, a).faults = r.faults
<1> DEFINE an == [r.anchor EXCEPT ![m] = a]
           ag == [r.age EXCEPT ![m] = 0]
<1>1. an \in [Method -> Anchor \cup {NoAnchor}]
    BY DEF PendingRecord
<1>2. ag \in [Method -> 0..NotFoundTimeout]
    BY DEF PendingRecord
<1>3. set_anchor(r, m, a) = [r EXCEPT !.anchor = an, !.age = ag]
    BY DEF set_anchor
<1> HIDE DEF an, ag
<1>4. /\ set_anchor(r, m, a) \in PendingRecord
      /\ set_anchor(r, m, a).methods = r.methods
      /\ set_anchor(r, m, a).anchor = an
      /\ set_anchor(r, m, a).faults = r.faults
    BY <1>1, <1>2, <1>3 DEF PendingRecord
<1> QED
    BY <1>4 DEF an

\* Counting a fault below the cap changes that count and nothing else.
LEMMA CountFaultRecord ==
    ASSUME NEW r \in PendingRecord, NEW m \in Method, r.faults[m] < MaxAnchorFaults
    PROVE  /\ count_anchor_fault(r, m) \in PendingRecord
           /\ count_anchor_fault(r, m).methods = r.methods
           /\ count_anchor_fault(r, m).anchor = r.anchor
           /\ count_anchor_fault(r, m).faults = [r.faults EXCEPT ![m] = r.faults[m] + 1]
<1> DEFINE fa == [r.faults EXCEPT ![m] = r.faults[m] + 1]
<1>1. fa \in [Method -> 0..MaxAnchorFaults]
    BY DEF PendingRecord
<1>2. count_anchor_fault(r, m) = [r EXCEPT !.faults = fa]
    BY DEF count_anchor_fault
<1> HIDE DEF fa
<1>3. /\ count_anchor_fault(r, m) \in PendingRecord
      /\ count_anchor_fault(r, m).methods = r.methods
      /\ count_anchor_fault(r, m).anchor = r.anchor
      /\ count_anchor_fault(r, m).faults = fa
    BY <1>1, <1>2 DEF PendingRecord
<1> QED
    BY <1>3 DEF fa

\* The record after serving m: m and its anchor are gone, fault counts stay.
LEMMA RemainingRecord ==
    ASSUME NEW r \in PendingRecord, NEW m \in Method
    PROVE  /\ Remaining(r, m) \in PendingRecord
           /\ Remaining(r, m).methods = r.methods \ {m}
           /\ Remaining(r, m).anchor = [r.anchor EXCEPT ![m] = NoAnchor]
           /\ Remaining(r, m).faults = r.faults
<1>1. NoAnchor \in Anchor \cup {NoAnchor}
    OBVIOUS
<1>2. /\ drop_anchor(r, m) \in PendingRecord
      /\ drop_anchor(r, m).methods = r.methods
      /\ drop_anchor(r, m).anchor = [r.anchor EXCEPT ![m] = NoAnchor]
      /\ drop_anchor(r, m).faults = r.faults
    BY <1>1, SetAnchorRecord DEF drop_anchor
<1> QED
    BY <1>2 DEF Remaining, PendingRecord

\* A successful provider call: one more anchor issued, held in memory and not
\* saved yet.
LEMMA AnchorSucceedsInv ==
    ASSUME NEW m \in Method, NEW a \in Anchor, IInv, AnchorSucceeds(m, a)
    PROVE  IInv'
<1> USE DEF AnchorSucceeds, MayAnchor, Settling, accVars, storeVars
<1>1. cur \in Epoch /\ m # meth /\ SameAs(rec, m) /\ m \in pending[cur].methods
    BY DEF IInv, TypeOK, MemoryInv
<1>2. a # NoAnchor
    BY DEF Anchor, NoAnchor
<1>3. /\ rec' \in PendingRecord
      /\ rec'.methods = rec.methods
      /\ rec'.anchor[m] = a
      /\ rec'.faults = rec.faults
      /\ \A n \in Method : n # m => rec'.anchor[n] = rec.anchor[n]
  <2>1. rec \in PendingRecord /\ rec' = set_anchor(rec, m, a)
    BY DEF IInv, TypeOK
  <2>2. rec.anchor \in [Method -> Anchor \cup {NoAnchor}]
    BY <2>1 DEF PendingRecord
  <2>3. /\ rec' \in PendingRecord
        /\ rec'.methods = rec.methods
        /\ rec'.anchor = [rec.anchor EXCEPT ![m] = a]
        /\ rec'.faults = rec.faults
    <3> HIDE DEF AnchorSucceeds
    <3> QED
      BY <2>1, SetAnchorRecord
  <2> QED
    BY <2>2, <2>3
<1>4. /\ issued' \in Counts /\ unsaved' \in Counts
      /\ issued'[cur][m] = issued[cur][m] + 1
      /\ unsaved'[cur][m] = unsaved[cur][m] + 1
      /\ \A e \in Epoch, n \in Method : e # cur \/ n # m =>
            issued'[e][n] = issued[e][n] /\ unsaved'[e][n] = unsaved[e][n]
    BY <1>1 DEF IInv, TypeOK, Counts
<1>5. TypeOK'
  <2>1. ChainTypeOK'
    BY <1>1 DEF create_timestamp, FreshStatus, IInv, TypeOK, ChainTypeOK, AnchorEntry,
        AnchorStatus
  <2> QED
    BY <1>3, <1>4, <2>1 DEF IInv, TypeOK, AccTypeOK, StoreTypeOK
<1>6. IdInv' /\ AckInv'
    BY DEF IInv, IdInv, Above, AckInv, AckedLeavesKept, Kept
<1>7. UntouchedInv' /\ PendingOrServed'
    BY <1>1, <1>4 DEF IInv, UntouchedInv, PendingOrServed
<1>8. MemoryInv'
    BY <1>1, <1>2, <1>3, <1>4, <1>5 DEF IInv, TypeOK, MemoryInv, Follows, SameAs, Gained, Dropped, WellFormed, Counts
<1>9. AccountInv'
  <2> SUFFICES ASSUME NEW e \in Epoch, NEW n \in Method
               PROVE  Balanced(e, n)' /\ UnsavedBound(e, n)'
    BY DEF IInv, AccountInv, WellFormed
  <2>1. Balanced(e, n) /\ UnsavedBound(e, n) /\ pc = "settle" /\ pc' = "store" /\ meth' = m
    BY DEF IInv, AccountInv
  <2>2. crashes \in Nat /\ storeFails \in Nat /\ unsaved[e][n] \in Nat /\ issued[e][n] \in Nat
        /\ pending[e].faults[n] \in Nat
    BY DEF IInv, TypeOK, Counts, StoreTypeOK, PendingRecord
  <2>3. CASE e = cur /\ n = m
    BY <1>4, <2>1, <2>2, <2>3 DEF Balanced, UnsavedBound, One
  <2>4. CASE e # cur \/ n # m
    BY <1>4, <2>1, <2>2, <2>4 DEF Balanced, UnsavedBound, One
  <2> QED
    BY <2>3, <2>4
<1> QED
    BY <1>5, <1>6, <1>7, <1>8, <1>9 DEF IInv

\* The chain deciding on a transaction touches nothing of the aggregator.
LEMMA FinalizeInv ==
    ASSUME NEW a \in Anchor, IInv, Finalize(a)
    PROVE  IInv'
<1> USE DEF Finalize, accVars, storeVars, sealerVars, historyVars
<1>1. TypeOK'
  <2>1. ChainTypeOK'
    BY DEF FinalizeAnchor, IInv, TypeOK, ChainTypeOK, AnchorEntry, AnchorStatus
  <2> QED
    BY <2>1 DEF IInv, TypeOK, AccTypeOK, StoreTypeOK
<1>2. IdInv' /\ AckInv'
    BY DEF IInv, IdInv, Above, AckInv, AckedLeavesKept, Kept
<1>3. UntouchedInv' /\ PendingOrServed'
    BY DEF IInv, UntouchedInv, PendingOrServed
<1>4. MemoryInv'
    BY DEF IInv, MemoryInv, Follows, SameAs, Gained, Dropped, WellFormed
<1>5. AccountInv'
    BY DEF IInv, AccountInv, Balanced, UnsavedBound, WellFormed, One
<1> QED
    BY <1>1, <1>2, <1>3, <1>4, <1>5 DEF IInv

\* The swap moves every acknowledged leaf of the open epoch to the snapshot.
LEMMA CloseEpochInv ==
    ASSUME IInv, CloseEpoch
    PROVE  IInv'
<1> USE DEF CloseEpoch, swap_and_open_next, storeVars, historyVars
<1>1. NextEpochId(epoch_id) \in Epoch
    BY DEF IInv, TypeOK, AccTypeOK, NextEpochId, Epoch
<1>2. TypeOK'
    BY <1>1, EmptyTypes
       DEF IInv, TypeOK, AccTypeOK, StoreTypeOK, ChainTypeOK, SealedSnapshot
<1>3. IdInv'
  <2>1. /\ snap'.id = epoch_id /\ snap'.leaves = leaves /\ pc' = "persist"
        /\ sealed' = sealed /\ sealed \subseteq Epoch /\ epoch_id \in Epoch
        /\ epoch_id' = NextEpochId(epoch_id) /\ Above(epoch_id)
    BY DEF SealedSnapshot, IInv, IdInv, TypeOK, AccTypeOK, StoreTypeOK
  <2>2. Above(epoch_id)' /\ Above(snap.id)'
    <3> HIDE DEF CloseEpoch, swap_and_open_next
    <3> QED
      BY <2>1 DEF Above, NextEpochId, Epoch
  <2> QED
    BY <2>1, <2>2 DEF IInv, IdInv
<1>4. AckInv'
    BY DEF IInv, TypeOK, AckInv, AckedLeavesKept, Kept, IdInv, SealedSnapshot, Epoch, NoEpoch
<1>5. UntouchedInv' /\ PendingOrServed'
    BY DEF IInv, UntouchedInv, PendingOrServed
<1>6. MemoryInv'
    BY DEF IInv, MemoryInv, WellFormed, NoPending, NewPending
<1>7. AccountInv'
    BY DEF IInv, AccountInv, Balanced, UnsavedBound, WellFormed, One
<1> QED
    BY <1>2, <1>3, <1>4, <1>5, <1>6, <1>7 DEF IInv

\* A restart reopens above the last sealed epoch, and gives every anchor lost
\* with the memory to the crash that lost it.
LEMMA RestartInv ==
    ASSUME IInv, Restart
    PROVE  IInv'
<1> USE DEF Restart
<1>1. sealed # {} => /\ last_sealed_epoch_id \in sealed
                     /\ \A e \in sealed : e <= last_sealed_epoch_id
    BY DEF IInv, IdInv, last_sealed_epoch_id
<1>2. epoch_id' \in Epoch
  <2>1. \A id \in Epoch : NextEpochId(id) \in Epoch
    BY DEF NextEpochId, Epoch
  <2>2. 1 \in Epoch /\ sealed \subseteq Epoch
    BY DEF Epoch, IInv, TypeOK, StoreTypeOK
  <2> QED
    BY <1>1, <2>1, <2>2
<1>3. TypeOK'
  <2>1. NoSnap \in [id : Epoch \cup {NoEpoch}, leaves : LeafMap]
    BY EmptyTypes DEF NoSnap
  <2>2. AccTypeOK' /\ ChainTypeOK'
    BY <1>2, EmptyTypes DEF IInv, TypeOK, AccTypeOK, ChainTypeOK
  <2>3. StoreTypeOK'
    BY DEF IInv, TypeOK, StoreTypeOK
  <2> QED
    BY <2>1, <2>2, <2>3, EmptyTypes DEF IInv, TypeOK
<1>4. IdInv'
  <2>1. Above(epoch_id)'
    <3>1. CASE sealed = {}
      BY <3>1 DEF Above
    <3>2. CASE sealed # {}
      <4>1. /\ last_sealed_epoch_id \in Epoch /\ sealed \subseteq Epoch
            /\ epoch_id' = NextEpochId(last_sealed_epoch_id)
        BY <1>1, <3>2 DEF IInv, TypeOK, StoreTypeOK
      <4> QED
        BY <1>1, <3>2, <4>1 DEF Above, NextEpochId, Epoch
    <3> QED
      BY <3>1, <3>2
  <2> QED
    BY <2>1 DEF IInv, IdInv, NoSnap, NoEpoch
<1>5. AckInv'
    BY DEF IInv, TypeOK, AckInv, AckedLeavesKept
<1>6. UntouchedInv' /\ PendingOrServed'
    BY DEF IInv, UntouchedInv, PendingOrServed
<1>7. MemoryInv'
    BY DEF IInv, MemoryInv, WellFormed, NoPending, NewPending
<1>8. AccountInv'
  <2>1. \A e \in Epoch, m \in Method : unsaved[e][m] \in Nat
    BY DEF IInv, TypeOK, Counts
  <2>2. \A e \in Epoch, m \in Method : UnsavedBound(e, m)'
    BY <2>1 DEF IInv, TypeOK, AccountInv, UnsavedBound, One
  <2> QED
    BY <2>2 DEF IInv, AccountInv, Balanced, WellFormed, One
<1> QED
    BY <1>3, <1>4, <1>5, <1>6, <1>7, <1>8 DEF IInv

\* The closed epoch becomes durable under an id that was never used, or its
\* failure is recorded and the epoch leaves no trace.
LEMMA PersistEpochInv ==
    ASSUME NEW o \in Outcome, IInv, PersistEpoch(o)
    PROVE  IInv'
<1> USE DEF PersistEpoch, persist_sealed_epoch_with_pending, Commit, accVars
<1> DEFINE new == RecordFor(snap)
<1>1. /\ snap.id \in Epoch /\ snap.leaves \in LeafMap /\ cur = NoEpoch /\ todo = {}
      /\ meth = NoMethod /\ snap.id # NoEpoch
    BY DEF IInv, TypeOK, IdInv, MemoryInv, Epoch, NoEpoch
<1>2. /\ new \in PendingRecord
      /\ new.methods \in SUBSET Method
      /\ \A m \in Method : new.anchor[m] = NoAnchor /\ new.faults[m] = 0
      /\ snap.leaves = NoLeaves => new.methods = {}
    BY DEF IInv, TypeOK, RecordFor, NoPending, NewPending, PendingRecord, Anchor, NoAnchor,
        LeavesIn, NoLeaves
<1> HIDE DEF new
<1>3. /\ Applied(o) => /\ sealed' = sealed \cup {snap.id}
                       /\ epoch_leaves' = [epoch_leaves EXCEPT ![snap.id] = snap.leaves]
                       /\ pending' = [pending EXCEPT ![snap.id] = new]
      /\ ~Applied(o) => sealed' = sealed /\ epoch_leaves' = epoch_leaves /\ pending' = pending
      /\ witnesses' = witnesses
      /\ o = "ok" => Applied(o)
    BY DEF new, Applied
<1>4. TypeOK'
  <2>1. StoreTypeOK'
    <3>1. pending_leaves' \in EpochTable
      <4>1. pending_leaves \in EpochTable
        BY DEF IInv, TypeOK, StoreTypeOK
      <4>2. CASE Applied(o)
        <5>1. pending_leaves' = [l \in Leaf |-> [m \in Method |->
                  IF snap.leaves[l] # NoDid /\ m \in new.methods
                    THEN snap.id ELSE pending_leaves[l][m]]]
          BY <4>2 DEF new
        <5> HIDE DEF PersistEpoch, persist_sealed_epoch_with_pending
        <5> QED
          BY <1>1, <4>1, <5>1 DEF EpochTable
      <4>3. CASE ~Applied(o)
        BY <4>1, <4>3
      <4> QED
        BY <4>2, <4>3
    <3>2. leaf_owner \in LeafMap /\ leaf_owner' \in LeafMap
      <4>1. leaf_owner \in LeafMap
        BY DEF IInv, TypeOK, StoreTypeOK
      <4>2. CASE Applied(o)
        BY <1>1, <4>1, <4>2 DEF LeafMap
      <4>3. CASE ~Applied(o)
        BY <4>1, <4>3
      <4> QED
        BY <4>1, <4>2, <4>3
    <3>3. /\ sealed' \in SUBSET Epoch
          /\ epoch_leaves' \in [Epoch -> LeafMap]
          /\ pending' \in [Epoch -> PendingRecord]
      <4>1. /\ sealed \in SUBSET Epoch
            /\ epoch_leaves \in [Epoch -> LeafMap]
            /\ pending \in [Epoch -> PendingRecord]
        BY DEF IInv, TypeOK, StoreTypeOK
      <4> HIDE DEF PersistEpoch, persist_sealed_epoch_with_pending
      <4> QED
        BY <1>1, <1>2, <1>3, <4>1
    <3>4. poisoned' \in BOOLEAN /\ leaf_to_tips' = leaf_to_tips
      OBVIOUS
    <3> QED
      BY <1>3, <3>1, <3>2, <3>3, <3>4 DEF IInv, TypeOK, StoreTypeOK
  <2>2. NoSnap \in [id : Epoch \cup {NoEpoch}, leaves : LeafMap]
    BY EmptyTypes DEF NoSnap
  <2> QED
    BY <1>1, <1>2, <2>1, <2>2 DEF IInv, TypeOK, AccTypeOK, ChainTypeOK, new
<1>5. IdInv'
  <2>1. /\ sealed \subseteq Epoch /\ epoch_id \in Epoch /\ epoch_id' = epoch_id
        /\ Above(snap.id) /\ Above(epoch_id) /\ epoch_id = NextEpochId(snap.id)
        /\ sealed' \in {sealed, sealed \cup {snap.id}}
    BY <1>3 DEF IInv, IdInv, TypeOK, AccTypeOK, StoreTypeOK
  <2> HIDE DEF PersistEpoch, persist_sealed_epoch_with_pending, Commit
  <2>2. Above(epoch_id)'
    BY <1>1, <2>1 DEF Above, NextEpochId, Epoch
  <2>3. sealed' # {} => \E e \in sealed' : \A f \in sealed' : f <= e
    <3>1. CASE sealed' = sealed
      BY <3>1 DEF IInv, IdInv
    <3>2. CASE sealed' = sealed \cup {snap.id}
      <4>1. \A f \in sealed' : f <= snap.id
        BY <1>1, <2>1, <3>2 DEF Above, Epoch
      <4> QED
        BY <3>2, <4>1
    <3> QED
      BY <2>1, <3>1, <3>2
  <2>4. epoch_leaves'[MaxEpoch] = NoLeaves
    BY <1>1, <1>3 DEF IInv, IdInv, TypeOK, StoreTypeOK, Epoch
  <2> USE DEF PersistEpoch, persist_sealed_epoch_with_pending, Commit
  <2> QED
    BY <2>2, <2>3, <2>4 DEF IInv, IdInv, NoSnap, NoEpoch
<1>6. AckInv'
  <2>1. \A a \in acked : a.epoch \in Epoch /\ a.epoch # MaxEpoch
    BY DEF IInv, TypeOK, AckInv
  <2>2. epoch_leaves \in [Epoch -> LeafMap]
    BY DEF IInv, TypeOK, StoreTypeOK
  <2>3. ASSUME NEW a \in acked, Kept(a), a.epoch # snap.id \/ Applied(o)
        PROVE  Kept(a)'
    BY <1>1, <1>3, <2>1, <2>2, <2>3 DEF Kept, IInv, IdInv, Above, Epoch
  <2> QED
    BY <1>3, <2>3 DEF IInv, AckInv, AckedLeavesKept
<1>7. \A e \in Epoch :
         pending'[e] = IF Applied(o) /\ e = snap.id THEN new ELSE pending[e]
    BY <1>1, <1>3 DEF IInv, TypeOK, StoreTypeOK
<1>8. snap.id \notin sealed \/ snap.id = MaxEpoch
    BY <1>1 DEF IInv, IdInv, Above, Epoch
<1>9. UntouchedInv'
    BY <1>2, <1>3, <1>7, <1>8 DEF IInv, UntouchedInv, IdInv
<1>10. \A m \in Method : /\ issued[snap.id][m] = 0 /\ witnesses[snap.id][m] = NoAnchor
                         /\ unsaved[snap.id][m] = 0
  <2>1. \A m \in Method : /\ unsaved[snap.id][m] \in Nat
                          /\ pending[snap.id].faults[m] \in Nat
    BY <1>1 DEF IInv, TypeOK, Counts, StoreTypeOK, PendingRecord
  <2> QED
    BY <1>1, <1>8, <2>1 DEF IInv, UntouchedInv, AccountInv, Balanced, One
<1>11. PendingOrServed'
    BY <1>3, <1>7, <1>10 DEF IInv, PendingOrServed
<1>12. MemoryInv'
  <2>1. CASE o = "ok"
    BY <1>1, <1>2, <1>3, <1>7, <2>1 DEF IInv, TypeOK, MemoryInv, Follows, SameAs, WellFormed, new
  <2>2. CASE o # "ok"
    BY <1>1, <2>2 DEF IInv, MemoryInv, WellFormed
  <2> QED
    BY <2>1, <2>2
<1>13. AccountInv'
  <2>1. \A e \in Epoch : WellFormed(pending[e])'
    BY <1>2, <1>7 DEF IInv, AccountInv, WellFormed
  <2>2. ASSUME NEW e \in Epoch, NEW m \in Method
        PROVE  Balanced(e, m)' /\ UnsavedBound(e, m)'
    <3>1. CASE Applied(o) /\ e = snap.id
      BY <1>2, <1>3, <1>7, <1>10, <3>1 DEF IInv, TypeOK, AccountInv, Balanced, UnsavedBound, One
    <3>2. CASE ~(Applied(o) /\ e = snap.id)
      BY <1>1, <1>3, <1>7, <3>2 DEF IInv, AccountInv, Balanced, UnsavedBound, One
    <3> QED
      BY <3>1, <3>2
  <2> QED
    BY <2>1, <2>2 DEF AccountInv
<1> QED
    BY <1>4, <1>5, <1>6, <1>9, <1>11, <1>12, <1>13 DEF IInv

\* A write of record r over the current epoch's stored one, as save_pending
\* and persist_pending_minted do it, seen by the history variable unsaved.
LEMMA NowSavedCounts ==
    ASSUME NEW e \in Epoch, NEW r, NEW o \in Outcome, unsaved \in Counts,
           \A m \in Method :
              Applied(o) /\ pending[e].anchor[m] = NoAnchor /\ r.anchor[m] # NoAnchor
                 => unsaved[e][m] > 0
    PROVE  /\ NowSaved(e, r, o) \in Counts
           /\ \A f \in Epoch, m \in Method :
                NowSaved(e, r, o)[f][m] =
                   IF /\ f = e
                      /\ Applied(o)
                      /\ pending[e].anchor[m] = NoAnchor
                      /\ r.anchor[m] # NoAnchor
                     THEN unsaved[f][m] - 1 ELSE unsaved[f][m]
    BY DEF NowSaved, Counts

\* Saving a record that follows the stored one keeps the books balanced.
LEMMA SaveKeepsBooks ==
    ASSUME IInv, cur \in Epoch,
           NEW r \in PendingRecord, NEW o \in Outcome,
           WellFormed(r), ~poisoned => Follows(r),
           save_pending(cur, r, o), unsaved' = NowSaved(cur, r, o), issued' = issued
    PROVE  /\ StoreTypeOK'
           /\ unsaved' \in Counts
           /\ UntouchedInv'
           /\ PendingOrServed'
           /\ pending'[cur].methods = pending[cur].methods
           /\ pending'[cur] = IF Applied(o) THEN r ELSE pending[cur]
           /\ \A e \in Epoch : e # cur => pending'[e] = pending[e]
           /\ \A e \in Epoch : WellFormed(pending[e])'
           /\ \A e \in Epoch, m \in Method : Balanced(e, m)'
           /\ \A e \in Epoch, m \in Method : unsaved'[e][m] <= unsaved[e][m]
           /\ \A m \in Method :
                 Applied(o) /\ Gained(r, m) => unsaved'[cur][m] = unsaved[cur][m] - 1
           /\ ~Applied(o) => unsaved' = unsaved
<1>1. Applied(o) => Follows(r)
    BY DEF save_pending, Commit, WriteOutcomes, Applied
<1>2. /\ pending' = IF Applied(o) THEN [pending EXCEPT ![cur] = r] ELSE pending
      /\ UNCHANGED <<sealed, epoch_leaves, pending_leaves, leaf_to_tips, witnesses, leaf_owner>>
      /\ poisoned' \in BOOLEAN
    BY DEF save_pending, Commit
<1>3. /\ pending \in [Epoch -> PendingRecord]
      /\ unsaved \in Counts /\ issued \in Counts
    BY DEF IInv, TypeOK, StoreTypeOK
<1>4. /\ pending' \in [Epoch -> PendingRecord]
      /\ pending'[cur] = IF Applied(o) THEN r ELSE pending[cur]
      /\ \A e \in Epoch : e # cur => pending'[e] = pending[e]
    BY <1>2, <1>3
<1>5. StoreTypeOK'
    BY <1>2, <1>4 DEF IInv, TypeOK, StoreTypeOK
<1>6. \A m \in Method :
         Applied(o) /\ pending[cur].anchor[m] = NoAnchor /\ r.anchor[m] # NoAnchor
            => unsaved[cur][m] > 0
    BY <1>1 DEF Follows, SameAs, Gained, Dropped
<1>7. /\ unsaved' \in Counts
      /\ \A e \in Epoch, m \in Method :
            unsaved'[e][m] =
               IF e = cur /\ Applied(o) /\ pending[cur].anchor[m] = NoAnchor /\ r.anchor[m] # NoAnchor
                 THEN unsaved[e][m] - 1 ELSE unsaved[e][m]
    BY <1>3, <1>6, NowSavedCounts
<1>8. pending'[cur].methods = pending[cur].methods
    BY <1>1, <1>4 DEF Follows
<1>9. UntouchedInv' /\ PendingOrServed'
    BY <1>2, <1>4, <1>8 DEF IInv, UntouchedInv, PendingOrServed
<1>10. \A e \in Epoch : WellFormed(pending[e])'
    BY <1>4 DEF IInv, AccountInv, WellFormed
<1>11. ASSUME NEW e \in Epoch, NEW m \in Method
       PROVE  Balanced(e, m)'
  <2>1. Balanced(e, m) /\ WellFormed(pending[e])
    BY DEF IInv, AccountInv
  <2>2. CASE e # cur \/ ~Applied(o)
    BY <1>2, <1>4, <1>7, <2>1, <2>2 DEF Balanced, One
  <2>3. CASE e = cur /\ Applied(o)
    <3>1. /\ pending'[e] = r /\ witnesses' = witnesses
          /\ pending[e].faults[m] \in Nat /\ unsaved[e][m] \in Nat
      BY <1>2, <1>3, <1>4, <2>3 DEF Counts, PendingRecord
    <3>2. CASE SameAs(r, m)
      BY <1>7, <2>1, <2>3, <3>1, <3>2 DEF SameAs, Balanced, One
    <3>3. CASE Gained(r, m)
      BY <1>7, <2>1, <2>3, <3>1, <3>3 DEF Gained, Balanced, One
    <3>4. CASE Dropped(r, m)
      <4>1. witnesses[e][m] = NoAnchor
        BY <2>1, <2>3, <3>4 DEF Dropped, WellFormed, IInv, PendingOrServed
      <4> QED
        BY <1>7, <2>1, <2>3, <3>1, <3>4, <4>1 DEF Dropped, Balanced, One
    <3> QED
      BY <1>1, <2>3, <3>2, <3>3, <3>4 DEF Follows
  <2> QED
    BY <2>2, <2>3
<1>12. \A e \in Epoch, m \in Method : unsaved'[e][m] <= unsaved[e][m]
    BY <1>3, <1>7 DEF Counts
<1>13. ~Applied(o) => unsaved' = unsaved
    BY <1>3 DEF NowSaved, Counts
<1> QED
    BY <1>4, <1>5, <1>7, <1>8, <1>9, <1>10, <1>11, <1>12, <1>13 DEF Gained

\* Facts about a settle_method past its first step.
LEMMA InFlight ==
    ASSUME IInv, pc \in {"store", "check", "serve"}
    PROVE  /\ cur \in Epoch /\ cur # NoEpoch
           /\ meth \in Method /\ meth \in todo
           /\ todo \subseteq Method
           /\ rec \in PendingRecord
           /\ WellFormed(rec)
           /\ ~poisoned => Follows(rec)
           /\ rec.anchor[meth] # NoAnchor
           /\ rec.faults[meth] < MaxAnchorFaults
<1>1. cur # NoEpoch /\ meth \in todo /\ rec.anchor[meth] # NoAnchor
    BY DEF IInv, MemoryInv, Gained
<1> QED
    BY <1>1 DEF IInv, TypeOK, MemoryInv, WellFormed

\* store_anchor keeps the invariant: the anchor is saved and no longer counts
\* as unsaved, or the method gives up and the failure is counted.
LEMMA StoreAnchorInv ==
    ASSUME NEW o \in Outcome, IInv, store_anchor(o)
    PROVE  IInv'
<1> USE DEF store_anchor
<1>1. pc = "store" /\ Gained(rec, meth)
    BY DEF IInv, MemoryInv
<1>2. /\ cur \in Epoch /\ cur # NoEpoch /\ meth \in Method /\ meth \in todo
      /\ todo \subseteq Method /\ rec \in PendingRecord /\ WellFormed(rec)
      /\ ~poisoned => Follows(rec)
      /\ rec.anchor[meth] # NoAnchor
    BY <1>1, InFlight
<1>3. /\ StoreTypeOK' /\ unsaved' \in Counts /\ UntouchedInv' /\ PendingOrServed'
      /\ pending'[cur].methods = pending[cur].methods
      /\ pending'[cur] = IF Applied(o) THEN rec ELSE pending[cur]
      /\ \A e \in Epoch : WellFormed(pending[e])'
      /\ \A e \in Epoch, m \in Method : Balanced(e, m)'
      /\ \A e \in Epoch, m \in Method : unsaved'[e][m] <= unsaved[e][m]
      /\ Applied(o) => unsaved'[cur][meth] = unsaved[cur][meth] - 1
      /\ ~Applied(o) => unsaved' = unsaved
    BY <1>1, <1>2, SaveKeepsBooks
<1>4. TypeOK'
    BY <1>2, <1>3 DEF MethodDone, IInv, TypeOK, AccTypeOK, ChainTypeOK, accVars
<1>5. IdInv' /\ AckInv'
    BY <1>1 DEF MethodDone, save_pending, accVars, IInv, IdInv, Above, AckInv,
        AckedLeavesKept, Kept
<1>6. Applied(o) => \A m \in Method : SameAs(rec, m)'
    BY <1>3 DEF SameAs
<1>7. ~Applied(o) => \A m \in Method :
                       /\ SameAs(rec, m) => SameAs(rec, m)'
                       /\ Gained(rec, m) => Gained(rec, m)'
                       /\ Dropped(rec, m) => Dropped(rec, m)'
    BY <1>3 DEF SameAs, Gained, Dropped
<1>8. ~poisoned' => Follows(rec)'
  <2>1. ~poisoned' => ~poisoned
    BY DEF save_pending, Commit
  <2> QED
    BY <1>2, <1>3, <1>6, <1>7, <2>1 DEF Follows
<1>9. MemoryInv'
  <2>1. CASE o = "ok"
    <3>1. SameAs(rec, meth)'
      BY <1>2, <1>6, <2>1 DEF Applied
    <3> QED
      BY <1>1, <1>2, <1>3, <1>6, <1>8, <2>1, <3>1
         DEF IInv, MemoryInv, Applied, WellFormed
  <2>2. CASE o # "ok"
    <3>1. todo' = todo \ {meth} /\ pc' = "settle" /\ meth' = NoMethod
      BY <2>2 DEF MethodDone
    <3>2. \A m \in todo' : SameAs(rec, m)'
      BY <1>2, <1>6, <1>7, <3>1 DEF IInv, MemoryInv
    <3> QED
      BY <1>2, <1>3, <1>8, <3>1, <3>2 DEF IInv, MemoryInv, WellFormed
  <2> QED
    BY <2>1, <2>2
<1>10. \A e \in Epoch, m \in Method : UnsavedBound(e, m)'
  <2> SUFFICES ASSUME NEW e \in Epoch, NEW m \in Method
               PROVE  UnsavedBound(e, m)'
    OBVIOUS
  <2>1. /\ crashes \in Nat /\ storeFails \in Nat /\ unsaved[e][m] \in Nat
        /\ unsaved'[e][m] \in Nat /\ UnsavedBound(e, m)
        /\ crashes' = crashes
    BY <1>3 DEF IInv, TypeOK, Counts, AccountInv
  <2>2. o = "ok" => Applied(o) /\ storeFails' = storeFails /\ pc' = "check"
    BY DEF Applied
  <2>3. o # "ok" => storeFails' = storeFails + 1 /\ pc' = "settle"
    BY DEF MethodDone
  <2>4. CASE e = cur /\ m = meth
    BY <1>1, <1>3, <2>1, <2>2, <2>3, <2>4 DEF UnsavedBound, One
  <2>5. CASE ~(e = cur /\ m = meth)
    BY <1>1, <1>3, <2>1, <2>2, <2>3, <2>5 DEF UnsavedBound, One
  <2> QED
    BY <2>4, <2>5
<1> QED
    BY <1>3, <1>4, <1>5, <1>9, <1>10 DEF IInv, AccountInv

\* An anchor abandoned or at fault: both actions count the fault, drop the
\* anchor in memory and save.
LEMMA DropAnchorInv ==
    ASSUME NEW o \in Outcome, IInv, settle_missing(o) \/ DiscardFaultyAnchor(o)
    PROVE  IInv'
<1>1. /\ pc = "check"
      /\ rec' = drop_anchor(count_anchor_fault(rec, meth), meth)
      /\ save_pending(cur, rec', o)
      /\ unsaved' = NowSaved(cur, rec', o)
      /\ pc' = "settle" /\ todo' = todo \ {meth} /\ meth' = NoMethod
      /\ UNCHANGED <<accVars, chain, enabled, phase, queue, cur, snap,
                     acked, failedSeals, issued, storeFails, crashes>>
      /\ down' \in {down, down \cup {meth}}
    BY DEF settle_missing, DiscardFaultyAnchor, MethodDone
<1>2. /\ cur \in Epoch /\ cur # NoEpoch /\ meth \in Method /\ meth \in todo
      /\ todo \subseteq Method /\ rec \in PendingRecord /\ WellFormed(rec)
      /\ ~poisoned => Follows(rec)
      /\ rec.anchor[meth] # NoAnchor /\ rec.faults[meth] < MaxAnchorFaults
    BY <1>1, InFlight
<1>3. SameAs(rec, meth)
    BY <1>1 DEF IInv, MemoryInv
<1>4. /\ rec' \in PendingRecord
      /\ rec'.methods = rec.methods
      /\ rec'.anchor = [rec.anchor EXCEPT ![meth] = NoAnchor]
      /\ rec'.faults = [rec.faults EXCEPT ![meth] = rec.faults[meth] + 1]
  <2> DEFINE c == count_anchor_fault(rec, meth)
  <2>1. /\ c \in PendingRecord /\ c.methods = rec.methods /\ c.anchor = rec.anchor
        /\ c.faults = [rec.faults EXCEPT ![meth] = rec.faults[meth] + 1]
    BY <1>2, CountFaultRecord
  <2>2. rec' = set_anchor(c, meth, NoAnchor)
    BY <1>1 DEF drop_anchor
  <2> HIDE DEF c
  <2> QED
    BY <1>2, <2>1, <2>2, SetAnchorRecord
<1>5. /\ rec'.anchor[meth] = NoAnchor
      /\ rec'.faults[meth] = rec.faults[meth] + 1
      /\ \A m \in Method : m # meth => /\ rec'.anchor[m] = rec.anchor[m]
                                       /\ rec'.faults[m] = rec.faults[m]
    BY <1>2, <1>4 DEF PendingRecord
<1> DEFINE r == rec'
<1>6. WellFormed(r)
    BY <1>2, <1>4, <1>5 DEF WellFormed
<1>7. ~poisoned => Follows(r)
    BY <1>2, <1>3, <1>4, <1>5 DEF Follows, SameAs, Gained, Dropped
<1>8. /\ r \in PendingRecord /\ save_pending(cur, r, o) /\ unsaved' = NowSaved(cur, r, o)
      /\ issued' = issued
    BY <1>1, <1>4
<1>9. r = rec'
    OBVIOUS
<1> HIDE DEF r
<1>10. /\ StoreTypeOK' /\ unsaved' \in Counts /\ UntouchedInv' /\ PendingOrServed'
       /\ pending'[cur].methods = pending[cur].methods
       /\ pending'[cur] = IF Applied(o) THEN r ELSE pending[cur]
       /\ \A e \in Epoch : WellFormed(pending[e])'
       /\ \A e \in Epoch, m \in Method : Balanced(e, m)'
       /\ \A e \in Epoch, m \in Method : unsaved'[e][m] <= unsaved[e][m]
       /\ ~Applied(o) => unsaved' = unsaved
    BY <1>2, <1>6, <1>7, <1>8, SaveKeepsBooks
<1>11. TypeOK'
    BY <1>1, <1>2, <1>4, <1>10 DEF IInv, TypeOK, AccTypeOK, ChainTypeOK, accVars
<1>12. IdInv' /\ AckInv'
    BY <1>1 DEF save_pending, accVars, IInv, IdInv, Above, AckInv, AckedLeavesKept, Kept
<1>13. Applied(o) => \A m \in Method : SameAs(rec, m)'
    BY <1>1, <1>9, <1>10 DEF SameAs
<1>14. ~Applied(o) => \A m \in Method :
         /\ SameAs(r, m) => SameAs(rec, m)'
         /\ Gained(r, m) => Gained(rec, m)'
         /\ Dropped(r, m) => Dropped(rec, m)'
    BY <1>1, <1>9, <1>10 DEF SameAs, Gained, Dropped
<1>15. ~poisoned' => Follows(rec)'
  <2>1. ~poisoned' => ~poisoned
    BY <1>1 DEF save_pending, Commit
  <2> QED
    BY <1>1, <1>7, <1>9, <1>10, <1>13, <1>14, <2>1 DEF Follows
<1>16. \A m \in todo' : SameAs(rec, m)'
  <2>1. \A m \in todo' : SameAs(r, m)
    BY <1>1, <1>2, <1>5, <1>9 DEF IInv, MemoryInv, SameAs
  <2> QED
    BY <1>1, <1>2, <1>13, <1>14, <2>1
<1>17. MemoryInv'
    BY <1>1, <1>2, <1>4, <1>6, <1>9, <1>10, <1>15, <1>16 DEF IInv, MemoryInv, WellFormed
<1>18. \A e \in Epoch, m \in Method : UnsavedBound(e, m)'
  <2> SUFFICES ASSUME NEW e \in Epoch, NEW m \in Method
               PROVE  UnsavedBound(e, m)'
    OBVIOUS
  <2>1. /\ crashes \in Nat /\ storeFails \in Nat /\ unsaved[e][m] \in Nat
        /\ unsaved'[e][m] \in Nat /\ UnsavedBound(e, m)
    BY <1>10 DEF IInv, TypeOK, Counts, AccountInv
  <2> QED
    BY <1>1, <1>10, <2>1 DEF UnsavedBound, One
<1> QED
    BY <1>10, <1>11, <1>12, <1>17, <1>18 DEF IInv, AccountInv

\* The write of verified witnesses: the method leaves the record, its anchor
\* moves from the record to the witnesses, and what else the in-memory record
\* had not saved yet is saved along.
LEMMA ServeInv ==
    ASSUME NEW o \in Outcome, IInv, Serve(o)
    PROVE  IInv'
<1> DEFINE r == Remaining(rec, meth)
<1>1. /\ pc = "serve"
      /\ persist_pending_minted(cur, r, meth, rec.anchor[meth], o)
      /\ unsaved' = NowSaved(cur, r, o)
      /\ rec' = IF o = "ok" THEN r ELSE rec
      /\ pc' = "settle" /\ todo' = todo \ {meth} /\ meth' = NoMethod
      /\ UNCHANGED <<accVars, chain, enabled, phase, queue, cur, down, snap,
                     acked, failedSeals, issued, storeFails, crashes>>
    BY DEF Serve, MethodDone
<1>2. /\ cur \in Epoch /\ cur # NoEpoch /\ meth \in Method /\ meth \in todo
      /\ todo \subseteq Method /\ rec \in PendingRecord /\ WellFormed(rec)
      /\ ~poisoned => Follows(rec)
      /\ rec.anchor[meth] # NoAnchor /\ rec.faults[meth] < MaxAnchorFaults
    BY <1>1, InFlight
<1>3. SameAs(rec, meth) /\ meth \in pending[cur].methods
    BY <1>1, <1>2 DEF IInv, MemoryInv
<1>4. /\ r \in PendingRecord
      /\ r.methods = rec.methods \ {meth}
      /\ r.anchor = [rec.anchor EXCEPT ![meth] = NoAnchor]
      /\ r.faults = rec.faults
    BY <1>2, RemainingRecord
<1> HIDE DEF r
<1>5. /\ r.anchor[meth] = NoAnchor
      /\ \A m \in Method : m # meth => r.anchor[m] = rec.anchor[m]
      /\ rec.anchor[meth] \in Anchor \cup {NoAnchor}
    BY <1>2, <1>4 DEF PendingRecord
<1>6. WellFormed(r)
    BY <1>2, <1>4, <1>5 DEF WellFormed
<1>7. Applied(o) => Follows(rec)
    BY <1>1, <1>2 DEF persist_pending_minted, Commit, WriteOutcomes, Applied
<1>8. /\ pending \in [Epoch -> PendingRecord]
      /\ witnesses \in [Epoch -> [Method -> Anchor \cup {NoAnchor}]]
      /\ unsaved \in Counts /\ issued \in Counts
    BY DEF IInv, TypeOK, StoreTypeOK
<1>9. /\ pending' = IF Applied(o) THEN [pending EXCEPT ![cur] = r] ELSE pending
      /\ witnesses' = IF Applied(o) THEN [witnesses EXCEPT ![cur][meth] = rec.anchor[meth]]
                                    ELSE witnesses
      /\ UNCHANGED <<sealed, epoch_leaves, leaf_owner>>
      /\ poisoned' = (poisoned \/ o = "late")
    BY <1>1 DEF persist_pending_minted, Commit
<1>10. /\ pending' \in [Epoch -> PendingRecord]
       /\ pending'[cur] = IF Applied(o) THEN r ELSE pending[cur]
       /\ \A e \in Epoch : e # cur => pending'[e] = pending[e]
    BY <1>2, <1>4, <1>8, <1>9
<1>11. /\ witnesses' \in [Epoch -> [Method -> Anchor \cup {NoAnchor}]]
       /\ Applied(o) => witnesses'[cur][meth] = rec.anchor[meth]
       /\ \A e \in Epoch, m \in Method :
             ~Applied(o) \/ e # cur \/ m # meth => witnesses'[e][m] = witnesses[e][m]
    BY <1>2, <1>5, <1>8, <1>9
<1>12. StoreTypeOK'
  <2>1. leaf_to_tips' \in EpochTable /\ pending_leaves' \in EpochTable
    <3>1. leaf_to_tips \in EpochTable /\ pending_leaves \in EpochTable /\ NoEpoch \in Epoch \cup {NoEpoch}
      BY DEF IInv, TypeOK, StoreTypeOK
    <3>2. CASE Applied(o)
      BY <1>1, <1>2, <3>1, <3>2 DEF persist_pending_minted, EpochTable
    <3>3. CASE ~Applied(o)
      BY <1>1, <3>1, <3>3 DEF persist_pending_minted
    <3> QED
      BY <3>2, <3>3
  <2> QED
    BY <1>9, <1>10, <1>11, <2>1 DEF IInv, TypeOK, StoreTypeOK
<1>13. \A m \in Method :
          Applied(o) /\ pending[cur].anchor[m] = NoAnchor /\ r.anchor[m] # NoAnchor
             => unsaved[cur][m] > 0
    BY <1>5, <1>7 DEF Follows, SameAs, Gained, Dropped
<1>14. /\ unsaved' \in Counts
       /\ \A e \in Epoch, m \in Method :
             unsaved'[e][m] =
                IF e = cur /\ Applied(o) /\ pending[cur].anchor[m] = NoAnchor /\ r.anchor[m] # NoAnchor
                  THEN unsaved[e][m] - 1 ELSE unsaved[e][m]
    BY <1>1, <1>2, <1>8, <1>13, NowSavedCounts
<1>15. TypeOK'
    BY <1>1, <1>2, <1>4, <1>12, <1>14 DEF IInv, TypeOK, AccTypeOK, ChainTypeOK, accVars
<1>16. IdInv' /\ AckInv'
    BY <1>1, <1>9 DEF accVars, IInv, IdInv, Above, AckInv, AckedLeavesKept, Kept
<1>17. Applied(o) => pending'[cur].methods = pending[cur].methods \ {meth}
    BY <1>4, <1>7, <1>10 DEF Follows
<1>18. UntouchedInv' /\ PendingOrServed'
    BY <1>1, <1>9, <1>10, <1>11, <1>17 DEF IInv, UntouchedInv, PendingOrServed
<1>19. ~Applied(o) => unsaved' = unsaved /\ pending' = pending /\ poisoned' = poisoned
                      /\ rec' = rec
  <2>1. ~Applied(o) => unsaved' = unsaved
    BY <1>1, <1>2, <1>8 DEF NowSaved, Counts
  <2>2. ~Applied(o) => pending' = pending
    BY <1>9
  <2>3. ~Applied(o) => (poisoned' <=> poisoned) /\ rec' = rec
    BY <1>1, <1>9 DEF Applied
  <2>4. poisoned \in BOOLEAN /\ poisoned' \in BOOLEAN
    BY <1>12 DEF IInv, TypeOK, StoreTypeOK
  <2> QED
    BY <2>1, <2>2, <2>3, <2>4
<1>20. MemoryInv'
  <2>1. CASE o = "ok"
    <3>1. rec' = r /\ pending'[cur] = r /\ cur' = cur /\ todo' \subseteq r.methods
      BY <1>1, <1>2, <1>4, <1>10, <2>1 DEF Applied, IInv, MemoryInv
    <3>2. Follows(rec)' /\ \A m \in Method : SameAs(rec, m)'
      BY <3>1 DEF Follows, SameAs
    <3> QED
      BY <1>1, <1>2, <1>6, <3>1, <3>2 DEF MemoryInv, WellFormed
  <2>2. CASE o = "late"
    <3>1. rec' = rec /\ pending'[cur] = r /\ cur' = cur /\ poisoned'
          /\ todo' \subseteq r.methods /\ todo' \subseteq rec'.methods
      BY <1>1, <1>2, <1>4, <1>9, <1>10, <2>2 DEF Applied, IInv, MemoryInv
    <3>2. \A m \in todo' : SameAs(rec, m)'
      BY <1>1, <1>2, <1>4, <1>5, <3>1 DEF SameAs
    <3> QED
      BY <1>1, <1>2, <3>1, <3>2 DEF MemoryInv, WellFormed
  <2>3. CASE ~Applied(o)
    <3>1. \A m \in Method : /\ SameAs(rec, m) => SameAs(rec, m)'
                            /\ Gained(rec, m) => Gained(rec, m)'
                            /\ Dropped(rec, m) => Dropped(rec, m)'
      BY <1>1, <1>19, <2>3 DEF SameAs, Gained, Dropped
    <3>2. ~poisoned' => Follows(rec)'
      BY <1>1, <1>2, <1>19, <2>3, <3>1 DEF Follows
    <3>3. \A m \in todo' : SameAs(rec, m)'
      BY <1>1, <1>2, <3>1 DEF IInv, MemoryInv
    <3> QED
      BY <1>1, <1>2, <1>19, <2>3, <3>2, <3>3 DEF IInv, MemoryInv, WellFormed
  <2> QED
    BY <2>1, <2>2, <2>3 DEF Outcome, Applied
<1>21. \A e \in Epoch : WellFormed(pending[e])'
    BY <1>6, <1>10 DEF IInv, AccountInv, WellFormed
<1>22. ASSUME NEW e \in Epoch, NEW m \in Method
       PROVE  Balanced(e, m)'
  <2>1. Balanced(e, m) /\ WellFormed(pending[e]) /\ issued' = issued
    BY <1>1 DEF IInv, AccountInv
  <2>2. CASE e # cur \/ ~Applied(o)
    BY <1>9, <1>10, <1>11, <1>14, <2>1, <2>2 DEF Balanced, One
  <2>3. CASE e = cur /\ Applied(o)
    <3>1. /\ pending'[e] = r /\ r.faults = rec.faults
          /\ pending[e].faults[m] \in Nat /\ unsaved[e][m] \in Nat
      BY <1>4, <1>8, <1>10, <2>3 DEF Counts, PendingRecord
    <3>2. CASE m = meth
      <4>1. witnesses[e][m] = NoAnchor
        BY <1>3, <2>3, <3>2 DEF IInv, PendingOrServed
      <4>2. witnesses'[e][m] # NoAnchor /\ r.anchor[m] = NoAnchor
            /\ pending[e].anchor[m] # NoAnchor /\ rec.faults[m] = pending[e].faults[m]
            /\ rec.faults[m] < MaxAnchorFaults
        BY <1>2, <1>3, <1>5, <1>11, <2>3, <3>2 DEF SameAs
      <4> QED
        BY <1>14, <2>1, <2>3, <3>1, <3>2, <4>1, <4>2 DEF Balanced, One
    <3>3. CASE m # meth
      <4>1. witnesses'[e][m] = witnesses[e][m] /\ r.anchor[m] = rec.anchor[m]
        BY <1>5, <1>11, <3>3
      <4>2. CASE SameAs(rec, m)
        BY <1>14, <2>1, <2>3, <3>1, <4>1, <4>2 DEF SameAs, Balanced, One
      <4>3. CASE Gained(rec, m)
        BY <1>14, <2>1, <2>3, <3>1, <4>1, <4>3 DEF Gained, Balanced, One
      <4>4. CASE Dropped(rec, m)
        <5>1. witnesses[e][m] = NoAnchor
          BY <2>1, <2>3, <4>4 DEF Dropped, WellFormed, IInv, PendingOrServed
        <5> QED
          BY <1>14, <2>1, <2>3, <3>1, <4>1, <4>4, <5>1 DEF Dropped, Balanced, One
      <4> QED
        BY <1>7, <2>3, <4>2, <4>3, <4>4 DEF Follows
    <3> QED
      BY <3>2, <3>3
  <2> QED
    BY <2>2, <2>3
<1>23. \A e \in Epoch, m \in Method : UnsavedBound(e, m)'
  <2> SUFFICES ASSUME NEW e \in Epoch, NEW m \in Method
               PROVE  UnsavedBound(e, m)'
    OBVIOUS
  <2>1. /\ crashes \in Nat /\ storeFails \in Nat /\ unsaved[e][m] \in Nat
        /\ unsaved'[e][m] \in Nat /\ UnsavedBound(e, m)
        /\ unsaved'[e][m] <= unsaved[e][m]
    BY <1>14 DEF IInv, TypeOK, Counts, AccountInv
  <2> QED
    BY <1>1, <2>1 DEF UnsavedBound, One
<1> QED
    BY <1>15, <1>16, <1>18, <1>20, <1>21, <1>22, <1>23 DEF IInv, AccountInv

----------------------------------------------------------------------------

\* A step that changes none of the variables keeps the invariant.
LEMMA StutterInv ==
    ASSUME IInv, UNCHANGED vars
    PROVE  IInv'
<1> USE DEF vars, accVars, storeVars, sealerVars, historyVars
<1>1. TypeOK'
    BY DEF IInv, TypeOK, AccTypeOK, StoreTypeOK, ChainTypeOK
<1>2. IdInv' /\ AckInv'
    BY DEF IInv, IdInv, Above, AckInv, AckedLeavesKept, Kept
<1>3. UntouchedInv' /\ PendingOrServed'
    BY DEF IInv, UntouchedInv, PendingOrServed
<1>4. MemoryInv'
    BY DEF IInv, MemoryInv, Follows, SameAs, Gained, Dropped, WellFormed
<1>5. AccountInv'
    BY DEF IInv, AccountInv, Balanced, UnsavedBound, WellFormed, One
<1> QED
    BY <1>1, <1>2, <1>3, <1>4, <1>5 DEF IInv

\* Every step of the specification keeps the invariant.
LEMMA NextInv ==
    ASSUME IInv, [Next]_vars
    PROVE  IInv'
<1>1. CASE UNCHANGED vars
    BY <1>1, StutterInv
<1>2. CASE \E batch \in (SUBSET Leaf) \ {{}}, did \in Did : submit_leaves(batch, did)
    BY <1>2, SubmitInv
<1>3. CASE \E a \in Anchor : Finalize(a)
    BY <1>3, FinalizeInv
<1>4. CASE Restart
    BY <1>4, RestartInv
<1>5. CASE SealerStep
  <2>1. CASE StartTick(ListPendingEpochs) \/ StartTick({})
    <3>1. ListPendingEpochs \in SUBSET Epoch /\ {} \in SUBSET Epoch
      BY DEF ListPendingEpochs
    <3> QED
      BY <2>1, <3>1, StartTickInv
  <2>2. CASE NextPending
    BY <2>2, NextPendingInv
  <2>3. CASE \E m \in Method : Settle(m)
    <3>1. PICK m \in Method : Settle(m)
      BY <2>3
    <3>2. CASE \E a \in Anchor : AnchorSucceeds(m, a)
      BY <3>2, AnchorSucceedsInv
    <3>3. CASE LeaveDisabled(m) \/ UseStoredAnchor(m) \/ SkipAnchor(m) \/ AnchorFails(m)
      BY <3>3, SettleWithoutAnchorInv
    <3> QED
      BY <3>1, <3>2, <3>3 DEF Settle
  <2>4. CASE KeepAnchor \/ Verified
    BY <2>4, JudgeInv
  <2>5. CASE CloseEpoch
    BY <2>5, CloseEpochInv
  <2>6. CASE EndTick
    BY <2>6, EndTickInv
  <2>7. CASE \E o \in Outcome : Write(o)
    <3>1. PICK o \in Outcome : Write(o)
      BY <2>7
    <3> QED
      BY <3>1, StoreAnchorInv, DropAnchorInv, ServeInv, PersistEpochInv DEF Write
  <2> QED
    BY <1>5, <2>1, <2>2, <2>3, <2>4, <2>5, <2>6, <2>7 DEF SealerStep
<1> QED
    BY <1>1, <1>2, <1>3, <1>4, <1>5 DEF Next

(* The action properties, one step at a time. *)

\* The steps that leave every pending record's methods, the sealed epochs, their
\* leaves and the witnesses alone.
QuietStep ==
    /\ \A e \in Epoch : pending'[e].methods = pending[e].methods
    /\ UNCHANGED <<sealed, epoch_leaves, witnesses>>

\* A save of the in-memory record over the stored one changes no method list.
LEMMA SaveQuiet ==
    ASSUME IInv, cur \in Epoch, NEW r, NEW o \in Outcome, save_pending(cur, r, o),
           ~poisoned => r.methods = pending[cur].methods
    PROVE  QuietStep
<1>1. Applied(o) => ~poisoned
    BY DEF save_pending, Commit, WriteOutcomes, Applied
<1>2. pending' = IF Applied(o) THEN [pending EXCEPT ![cur] = r] ELSE pending
    BY DEF save_pending
<1>3. pending \in [Epoch -> PendingRecord]
    BY DEF IInv, TypeOK, StoreTypeOK
<1>4. \A e \in Epoch : pending'[e].methods = pending[e].methods
    BY <1>1, <1>2, <1>3
<1> QED
    BY <1>4 DEF QuietStep, save_pending

\* Every step but the two that write sealed epochs and witnesses is quiet.
LEMMA OtherStepsQuiet ==
    ASSUME IInv, [Next]_vars,
           ~\E o \in Outcome : PersistEpoch(o) \/ Serve(o)
    PROVE  QuietStep
<1>1. CASE UNCHANGED storeVars
    BY <1>1 DEF storeVars, QuietStep
<1>2. ASSUME NEW listed, StartTick(listed)
      PROVE  QuietStep
  <2>1. \A e \in Epoch : pending[e] \in PendingRecord
    BY DEF IInv, TypeOK, StoreTypeOK
  <2>2. \A e \in Epoch : pending'[e] = Older(pending[e])
    BY <1>2 DEF StartTick
  <2>3. UNCHANGED <<sealed, epoch_leaves, witnesses>>
    BY <1>2 DEF StartTick
  <2> QED
    BY <2>1, <2>2, <2>3, OlderRecord DEF QuietStep
<1>3. ASSUME NEW o \in Outcome, store_anchor(o)
      PROVE  QuietStep
  <2>1. pc = "store" /\ save_pending(cur, rec, o)
    BY <1>3 DEF store_anchor
  <2>2. cur \in Epoch /\ (~poisoned => rec.methods = pending[cur].methods)
    BY <2>1, InFlight DEF Follows
  <2> QED
    BY <2>1, <2>2, SaveQuiet
<1>4. ASSUME NEW o \in Outcome, settle_missing(o) \/ DiscardFaultyAnchor(o)
      PROVE  QuietStep
  <2> DEFINE c == count_anchor_fault(rec, meth)
             r == drop_anchor(c, meth)
  <2>1. pc = "check" /\ save_pending(cur, rec', o) /\ rec' = r
    BY <1>4 DEF settle_missing, DiscardFaultyAnchor
  <2>2. /\ cur \in Epoch /\ (~poisoned => rec.methods = pending[cur].methods)
        /\ rec \in PendingRecord /\ meth \in Method /\ rec.faults[meth] < MaxAnchorFaults
    BY <2>1, InFlight DEF Follows
  <2>3. c \in PendingRecord /\ c.methods = rec.methods
    BY <2>2, CountFaultRecord
  <2>4. r.methods = rec.methods
    <3>1. r = set_anchor(c, meth, NoAnchor) /\ NoAnchor \in Anchor \cup {NoAnchor}
      BY DEF drop_anchor
    <3> HIDE DEF c, r
    <3>2. meth \in Method /\ c \in PendingRecord
      BY <2>2, <2>3
    <3>3. set_anchor(c, meth, NoAnchor).methods = c.methods
      BY <3>1, <3>2, SetAnchorRecord
    <3> QED
      BY <2>3, <3>1, <3>3
  <2>5. save_pending(cur, r, o)
    BY <2>1
  <2> HIDE DEF r
  <2> QED
    BY <2>2, <2>4, <2>5, SaveQuiet
<1>5. CASE Restart
    BY <1>5 DEF Restart, QuietStep
<1>6. ASSUME NEW m \in Method, Settle(m)
      PROVE  UNCHANGED storeVars
    BY <1>6 DEF Settle, LeaveDisabled, UseStoredAnchor, SkipAnchor, AnchorFails, AnchorSucceeds
<1>7. ASSUME \/ NextPending \/ KeepAnchor \/ Verified \/ CloseEpoch \/ EndTick
             \/ UNCHANGED vars \/ \E a \in Anchor : Finalize(a)
             \/ \E batch \in (SUBSET Leaf) \ {{}}, did \in Did : submit_leaves(batch, did)
      PROVE  UNCHANGED storeVars
    BY <1>7 DEF NextPending, KeepAnchor, Verified, CloseEpoch, EndTick, vars, Finalize,
        submit_leaves
<1> QED
    BY <1>1, <1>2, <1>3, <1>4, <1>5, <1>6, <1>7 DEF Next, SealerStep, Write

\* Where the two remaining writes land: the closed epoch's id is new (or the
\* empty epoch at the bound); the served method was pending and unserved.
LEMMA PersistEpochStep ==
    ASSUME IInv, NEW o \in Outcome, PersistEpoch(o)
    PROVE  /\ sealed \subseteq sealed'
           /\ witnesses' = witnesses
           /\ \A e \in sealed : epoch_leaves'[e] = epoch_leaves[e]
           /\ \A e \in Epoch : pending[e].methods \subseteq pending'[e].methods
<1>1. /\ snap.id \in Epoch /\ Above(snap.id) /\ sealed \subseteq Epoch
      /\ snap.id = MaxEpoch => snap.leaves = NoLeaves
      /\ epoch_leaves[MaxEpoch] = NoLeaves
      /\ epoch_leaves \in [Epoch -> LeafMap] /\ pending \in [Epoch -> PendingRecord]
    BY DEF PersistEpoch, IInv, IdInv, TypeOK, StoreTypeOK
<1>2. snap.id \in sealed => snap.id = MaxEpoch
    BY <1>1 DEF Above, Epoch
<1>3. pending[snap.id].methods = {}
    BY <1>1, <1>2 DEF IInv, UntouchedInv
<1>4. /\ witnesses' = witnesses
      /\ \/ /\ sealed' = sealed \cup {snap.id}
            /\ epoch_leaves' = [epoch_leaves EXCEPT ![snap.id] = snap.leaves]
            /\ pending' = [pending EXCEPT ![snap.id] = RecordFor(snap)]
         \/ UNCHANGED <<sealed, epoch_leaves, pending>>
    BY DEF PersistEpoch, persist_sealed_epoch_with_pending
<1> QED
    BY <1>1, <1>2, <1>3, <1>4

\* Serving replaces no witness and drops no method but the served one.
LEMMA ServeStep ==
    ASSUME IInv, NEW o \in Outcome, Serve(o)
    PROVE  /\ UNCHANGED <<sealed, epoch_leaves>>
           /\ \A e \in Epoch, m \in Method :
                 /\ witnesses[e][m] # NoAnchor => witnesses'[e][m] = witnesses[e][m]
                 /\ m \in pending[e].methods /\ m \notin pending'[e].methods
                       => witnesses'[e][m] # NoAnchor
<1> DEFINE r == Remaining(rec, meth)
<1>1. pc = "serve" /\ persist_pending_minted(cur, r, meth, rec.anchor[meth], o)
    BY DEF Serve
<1>2. /\ cur \in Epoch /\ meth \in Method /\ rec \in PendingRecord
      /\ meth \in todo /\ cur # NoEpoch
      /\ rec.anchor[meth] # NoAnchor /\ (~poisoned => rec.methods = pending[cur].methods)
    BY <1>1, InFlight DEF Follows
<1>3. meth \in pending[cur].methods /\ witnesses[cur][meth] = NoAnchor
    BY <1>2 DEF IInv, MemoryInv, PendingOrServed
<1>4. r.methods = rec.methods \ {meth}
    BY <1>2, RemainingRecord
<1> HIDE DEF r
<1>5. Applied(o) => ~poisoned
    BY <1>1 DEF persist_pending_minted, Commit, WriteOutcomes, Applied
<1>6. /\ UNCHANGED <<sealed, epoch_leaves>>
      /\ pending' = IF Applied(o) THEN [pending EXCEPT ![cur] = r] ELSE pending
      /\ witnesses' = IF Applied(o) THEN [witnesses EXCEPT ![cur][meth] = rec.anchor[meth]]
                                    ELSE witnesses
    BY <1>1 DEF persist_pending_minted
<1>7. /\ pending \in [Epoch -> PendingRecord]
      /\ witnesses \in [Epoch -> [Method -> Anchor \cup {NoAnchor}]]
    BY DEF IInv, TypeOK, StoreTypeOK
<1> QED
    BY <1>2, <1>3, <1>4, <1>5, <1>6, <1>7

----------------------------------------------------------------------------
(***************************************************************************)
(* The theorems.                                                           *)
(***************************************************************************)

\* The inductive invariant holds in every reachable state of the sealer,
\* whatever the sets of leaves, methods and epochs, the caps, the failing
\* writes and the crashes.
THEOREM Invariance == Spec => []IInv
<1>1. Init => IInv
    BY InitInv
<1>2. IInv /\ [Next]_vars => IInv'
    BY NextInv
<1> QED
    BY <1>1, <1>2, PTL DEF Spec

\* The state of the accumulator, the store, the chain and the sealer keeps its
\* types: no fault count passes the cap, no age the timeout, no id the bound.
THEOREM TypeCorrect == Spec => []TypeOK
<1>1. IInv => TypeOK
    BY DEF IInv
<1> QED
    BY <1>1, Invariance, PTL

\* A leaf answered 202 by append_batch is in the open epoch, in the snapshot
\* being persisted or in the sealed rows, with its first owner, unless the
\* persist of its epoch failed in this process or the process was restarted.
THEOREM LeavesKept == Spec => []AckedLeavesKept
<1>1. IInv => AckedLeavesKept
    BY DEF IInv, AckInv
<1> QED
    BY <1>1, Invariance, PTL

\* settle_method pays for at most MaxAnchorFaults anchors of one (epoch,
\* method), plus one per crash and one per store_anchor that gave up.
THEOREM BudgetKept == Spec => []AnchorBudget
<1>1. ASSUME IInv, NEW e \in Epoch, NEW m \in Method
      PROVE  issued[e][m] <= MaxAnchorFaults + crashes + storeFails
  <2>1. /\ crashes \in Nat /\ storeFails \in Nat
        /\ unsaved[e][m] \in Nat /\ issued[e][m] \in Nat
        /\ pending[e].faults[m] \in 0..MaxAnchorFaults
    BY <1>1 DEF IInv, TypeOK, Counts, StoreTypeOK, PendingRecord
  <2>2. Balanced(e, m) /\ UnsavedBound(e, m) /\ WellFormed(pending[e])
    BY <1>1 DEF IInv, AccountInv
  <2>3. ~(pending[e].anchor[m] # NoAnchor /\ witnesses[e][m] # NoAnchor)
    BY <1>1, <2>2 DEF IInv, PendingOrServed, WellFormed
  <2>4. CASE pc = "store" /\ cur = e /\ meth = m
    <3>1. Gained(rec, m) /\ rec.faults[m] < MaxAnchorFaults /\ m \in pending[e].methods
      BY <1>1, <2>4, InFlight DEF IInv, MemoryInv
    <3>2. /\ pending[e].faults[m] < MaxAnchorFaults
          /\ pending[e].anchor[m] = NoAnchor /\ witnesses[e][m] = NoAnchor
      BY <1>1, <2>4, <3>1 DEF Gained, IInv, PendingOrServed
    <3> QED
      BY <2>1, <2>2, <2>4, <3>2 DEF Balanced, UnsavedBound, One
  <2>5. CASE ~(pc = "store" /\ cur = e /\ meth = m)
    BY <2>1, <2>2, <2>3, <2>5 DEF Balanced, UnsavedBound, WellFormed, One
  <2> QED
    BY <2>4, <2>5
<1>2. IInv => AnchorBudget
    BY <1>1 DEF AnchorBudget
<1> QED
    BY <1>2, Invariance, PTL

\* A method of an epoch is never pending and served at once: the routes that
\* answer 202 for the one and 200 for the other cannot contradict each other.
THEOREM NeverPendingAndServed == Spec => []PendingOrServed
<1>1. IInv => PendingOrServed
    BY DEF IInv
<1> QED
    BY <1>1, Invariance, PTL

\* One step leaves a sealed epoch sealed, its leaves and its witnesses alone.
LEMMA SealedStep ==
    ASSUME IInv, [Next]_vars, NEW e \in sealed
    PROVE  /\ e \in sealed'
           /\ epoch_leaves'[e] = epoch_leaves[e]
           /\ \A m \in Method :
                 witnesses[e][m] # NoAnchor => witnesses'[e][m] = witnesses[e][m]
<1>1. e \in Epoch
    BY DEF IInv, TypeOK, StoreTypeOK
<1>2. CASE \E o \in Outcome : PersistEpoch(o)
    BY <1>2, PersistEpochStep
<1>3. CASE \E o \in Outcome : Serve(o)
    BY <1>1, <1>3, ServeStep
<1>4. CASE ~\E o \in Outcome : PersistEpoch(o) \/ Serve(o)
    BY <1>4, OtherStepsQuiet DEF QuietStep
<1> QED
    BY <1>2, <1>3, <1>4

\* What is sealed stays sealed with the leaves it was sealed with, and a served
\* witness keeps its anchor, across restarts that recompute the next epoch id.
THEOREM SealedStays == Spec => SealedIsFinal
<1>1. IInv /\ [Next]_vars
        => [\A e \in sealed :
              /\ e \in sealed'
              /\ epoch_leaves'[e] = epoch_leaves[e]
              /\ \A m \in Method :
                    witnesses[e][m] # NoAnchor => witnesses'[e][m] = witnesses[e][m]]_vars
    BY SealedStep
<1> QED
    BY <1>1, Invariance, PTL DEF Spec, SealedIsFinal

\* A method leaves a pending record only in the write that serves it, also when
\* the in-memory record is stale or an earlier write failed.
THEOREM PendingStays == Spec => PendingUntilServed
<1>1. ASSUME IInv, [Next]_vars, NEW e \in Epoch, NEW m \in Method,
             m \in pending[e].methods, m \notin pending'[e].methods
      PROVE  witnesses'[e][m] # NoAnchor
  <2>1. CASE \E o \in Outcome : PersistEpoch(o)
    BY <1>1, <2>1, PersistEpochStep
  <2>2. CASE \E o \in Outcome : Serve(o)
    BY <1>1, <2>2, ServeStep
  <2>3. CASE ~\E o \in Outcome : PersistEpoch(o) \/ Serve(o)
    BY <1>1, <2>3, OtherStepsQuiet DEF QuietStep
  <2> QED
    BY <2>1, <2>2, <2>3
<1>2. IInv /\ [Next]_vars
        => [\A e \in Epoch, m \in Method :
              m \in pending[e].methods /\ m \notin pending'[e].methods
                  => witnesses'[e][m] # NoAnchor]_vars
    BY <1>1
<1> QED
    BY <1>2, Invariance, PTL DEF Spec, PendingUntilServed

----------------------------------------------------------------------------
(***************************************************************************)
(* The leaf cap.                                                           *)
(***************************************************************************)

\* An empty leaf map has no leaves.
LEMMA NoLeavesCount == Cardinality(LeavesIn(NoLeaves)) = 0
<1>1. LeavesIn(NoLeaves) = {}
    BY DEF LeavesIn, NoLeaves
<1> QED
    BY <1>1, FS_EmptySet

\* A batch that append_batch takes adds its fresh leaves and no others, so what
\* EpochFull counted before it is what the epoch holds after it.
LEMMA SubmitCap ==
    ASSUME IInv, CapInv, NEW batch \in SUBSET Leaf, NEW did \in Did, submit_leaves(batch, did)
    PROVE  CapInv'
<1> DEFINE held == LeavesIn(leaves)
           fresh == Fresh(batch)
<1>1. /\ ~EpochFull(batch)
      /\ leaves' = [l \in Leaf |-> IF l \in fresh THEN did ELSE leaves[l]]
      /\ UNCHANGED <<snap, sealed, epoch_leaves>>
    BY DEF submit_leaves, append_batch, storeVars, sealerVars
<1>2. LeavesIn(leaves') = held \cup fresh
    BY <1>1 DEF LeavesIn, Fresh
<1>3. held \cap fresh = {}
    BY DEF LeavesIn, Fresh
<1>4. held \in SUBSET Leaf /\ fresh \in SUBSET Leaf
    BY DEF LeavesIn, Fresh
<1>5. Cardinality(held) + Cardinality(fresh) <= LeafCap
  <2>1. IsFiniteSet(held) /\ IsFiniteSet(fresh)
    BY <1>4, FS_Subset
  <2>2. Cardinality(held) \in Nat /\ Cardinality(fresh) \in Nat
    BY <2>1, FS_CardinalityType
  <2> QED
    BY <1>1, <2>2 DEF EpochFull
<1>6. Cardinality(held \cup fresh) = Cardinality(held) + Cardinality(fresh)
  <2> HIDE DEF held, fresh
  <2>1. IsFiniteSet(held) /\ IsFiniteSet(fresh)
    BY <1>4, FS_Subset
  <2>2. Cardinality(held) \in Nat /\ Cardinality(fresh) \in Nat /\ Cardinality({}) = 0
    BY <2>1, FS_CardinalityType, FS_EmptySet
  <2>3. Cardinality(held \cup fresh) = Cardinality(held) + Cardinality(fresh) - Cardinality(held \cap fresh)
    BY <2>1, FS_Union
  <2>4. Cardinality(held \cap fresh) = 0
    BY <1>3, <2>2
  <2> QED
    BY <2>2, <2>3, <2>4
<1>7. Cardinality(LeavesIn(leaves')) <= LeafCap
    BY <1>2, <1>5, <1>6
<1> QED
    BY <1>1, <1>7 DEF CapInv, EpochWithinCap

\* The closed epoch is the open one, and the next one starts empty; a persist
\* seals exactly the snapshot.
LEMMA CapNext ==
    ASSUME IInv, CapInv, [Next]_vars
    PROVE  CapInv'
<1>1. CASE \E batch \in (SUBSET Leaf) \ {{}}, did \in Did : submit_leaves(batch, did)
    BY <1>1, SubmitCap
<1>2. CASE CloseEpoch
    BY <1>2, NoLeavesCount
       DEF CloseEpoch, SealedSnapshot, swap_and_open_next, storeVars, CapInv, EpochWithinCap
<1>3. ASSUME NEW o \in Outcome, PersistEpoch(o)
      PROVE  CapInv'
  <2>1. snap.id \in Epoch /\ epoch_leaves \in [Epoch -> LeafMap]
    BY <1>3 DEF PersistEpoch, IInv, IdInv, TypeOK, StoreTypeOK
  <2>2. /\ leaves' = leaves /\ snap'.leaves = NoLeaves
        /\ \/ /\ sealed' = sealed \cup {snap.id}
              /\ epoch_leaves' = [epoch_leaves EXCEPT ![snap.id] = snap.leaves]
           \/ UNCHANGED <<sealed, epoch_leaves>>
    BY <1>3 DEF PersistEpoch, persist_sealed_epoch_with_pending, accVars, NoSnap
  <2>3. sealed \subseteq Epoch
    BY DEF IInv, TypeOK, StoreTypeOK
  <2>4. EpochWithinCap'
    BY <2>1, <2>2, <2>3 DEF CapInv, EpochWithinCap
  <2> QED
    BY <2>2, <2>4, NoLeavesCount DEF CapInv
<1>4. CASE Restart
    BY <1>4, NoLeavesCount DEF Restart, NoSnap, CapInv, EpochWithinCap
<1>5. ASSUME UNCHANGED <<leaves, snap, sealed, epoch_leaves>>
      PROVE  CapInv'
    BY <1>5 DEF CapInv, EpochWithinCap
<1>6. ASSUME NEW m \in Method, Settle(m)
      PROVE  UNCHANGED <<leaves, snap, sealed, epoch_leaves>>
    BY <1>6 DEF Settle, LeaveDisabled, UseStoredAnchor, SkipAnchor, AnchorFails, AnchorSucceeds,
        accVars, storeVars
<1>7. ASSUME NEW o \in Outcome, store_anchor(o) \/ settle_missing(o) \/ DiscardFaultyAnchor(o) \/ Serve(o)
      PROVE  UNCHANGED <<leaves, snap, sealed, epoch_leaves>>
    BY <1>7 DEF store_anchor, settle_missing, DiscardFaultyAnchor, Serve, save_pending,
        persist_pending_minted, accVars
<1>8. ASSUME \/ NextPending \/ KeepAnchor \/ Verified \/ EndTick
             \/ UNCHANGED vars \/ \E a \in Anchor : Finalize(a)
             \/ StartTick({}) \/ StartTick(ListPendingEpochs)
      PROVE  UNCHANGED <<leaves, snap, sealed, epoch_leaves>>
    BY <1>8 DEF NextPending, KeepAnchor, Verified, EndTick, vars, Finalize, StartTick,
        accVars, storeVars, sealerVars
<1> QED
    BY <1>1, <1>2, <1>3, <1>4, <1>5, <1>6, <1>7, <1>8 DEF Next, SealerStep, Write

\* append_batch refuses what would pass the cap, whatever batches, duplicates
\* and swaps came before: no epoch is sealed with more than LeafCap leaves.
THEOREM CapKept == Spec => []EpochWithinCap
<1>1. Init => CapInv
    BY NoLeavesCount DEF Init, StoreInit, NoSnap, CapInv, EpochWithinCap
<1>2. IInv /\ CapInv /\ [Next]_vars => CapInv'
    BY CapNext
<1>3. CapInv => EpochWithinCap
    BY DEF CapInv
<1> QED
    BY <1>1, <1>2, <1>3, Invariance, PTL DEF Spec

============================================================================
