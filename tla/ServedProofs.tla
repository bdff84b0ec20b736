---------------------------- MODULE ServedProofs ----------------------------
(***************************************************************************)
(* What is served was anchored: ChainInv (SealerInv) is inductive together *)
(* with IInv, and implies ServedIsAnchored.                                *)
(***************************************************************************)
EXTENDS SealerProofs

USE AccumulatorAssumption, PendingAssumption, StoreAssumption,
    ProviderAssumption, SealerAssumption

\* The types the proofs below use: every held or served anchor is an anchor.
LEMMA AnchorTypes ==
    ASSUME IInv
    PROVE  /\ NoAnchor \notin Anchor /\ NoEpoch \notin Epoch
           /\ chain \in [Anchor -> AnchorEntry]
           /\ pending \in [Epoch -> PendingRecord]
           /\ rec \in PendingRecord
           /\ \A e \in Epoch, m \in Method :
                 /\ pending[e].anchor[m] \in Anchor \cup {NoAnchor}
                 /\ witnesses[e][m] \in Anchor \cup {NoAnchor}
           /\ \A m \in Method : rec.anchor[m] \in Anchor \cup {NoAnchor}
<1>1. NoAnchor \notin Anchor /\ NoEpoch \notin Epoch
    BY DEF Anchor, NoAnchor, Epoch, NoEpoch
<1>2. /\ chain \in [Anchor -> AnchorEntry]
      /\ pending \in [Epoch -> PendingRecord]
      /\ witnesses \in [Epoch -> [Method -> Anchor \cup {NoAnchor}]]
      /\ rec \in PendingRecord
    BY DEF IInv, TypeOK, StoreTypeOK, ChainTypeOK
<1>3. \A r \in PendingRecord, m \in Method : r.anchor[m] \in Anchor \cup {NoAnchor}
    BY DEF PendingRecord
<1> QED
    BY <1>1, <1>2, <1>3

\* Nothing is held or served on a first start.
LEMMA ChainInitInv == Init => ChainInv
    BY DEF Init, StoreInit, ChainInv, HeldFor, ServedIsAnchored, NoPending, NewPending, NoAnchor

\* The steps that leave the chain, the records and the witnesses alone.
LEMMA ChainQuiet ==
    ASSUME IInv, ChainInv, UNCHANGED <<chain, pending, witnesses, cur, rec>>,
           pc' # "serve" \/ (pc = "serve" /\ meth' = meth)
    PROVE  ChainInv'
    BY DEF ChainInv, HeldFor, ServedIsAnchored

\* Steps after which no epoch is being settled.
LEMMA ChainForget ==
    ASSUME IInv, ChainInv, UNCHANGED <<chain, witnesses>>,
           cur' = NoEpoch, pc' # "serve",
           \A e \in Epoch : pending'[e].anchor = pending[e].anchor
    PROVE  ChainInv'
    BY DEF ChainInv, HeldFor, ServedIsAnchored

\* A verified batch: the chain confirmed the anchor it was minted from.
LEMMA ChainVerified ==
    ASSUME IInv, ChainInv, Verified
    PROVE  ChainInv'
<1>1. pc = "check" /\ "verified" \in Verdicts(meth, rec.anchor[meth])
    BY DEF Verified
<1>2. rec.anchor[meth] \in Anchor
    BY <1>1, InFlight, AnchorTypes
<1>3. chain[rec.anchor[meth]].status \in AnchorStatus
    BY <1>2, AnchorTypes DEF AnchorEntry
<1>4. chain[rec.anchor[meth]].status = "confirmed"
    BY <1>1, <1>3 DEF Verdicts, AnchorStatus
<1> QED
    BY <1>4 DEF Verified, storeVars, ChainInv, HeldFor, ServedIsAnchored

\* Loading a stored record loads anchors of its own epoch.
LEMMA ChainNextPending ==
    ASSUME IInv, ChainInv, NextPending
    PROVE  ChainInv'
<1>1. PICK e \in Epoch : cur' = e /\ rec' = pending[e]
    BY DEF NextPending, IInv, TypeOK
<1> QED
    BY <1>1 DEF NextPending, storeVars, ChainInv, HeldFor, ServedIsAnchored

\* create_timestamp makes a new anchor for the current epoch: no held or served
\* anchor was the one it takes.
LEMMA ChainAnchorSucceeds ==
    ASSUME NEW m \in Method, NEW a \in Anchor, IInv, ChainInv, AnchorSucceeds(m, a)
    PROVE  ChainInv'
<1>1. /\ chain[a].status = "unused" /\ pc' = "store" /\ cur' = cur
      /\ rec' = set_anchor(rec, m, a)
      /\ UNCHANGED <<pending, witnesses>>
    BY DEF AnchorSucceeds, create_timestamp, NextAnchor, storeVars
<1>2. PICK s \in FreshStatus(m) :
         chain' = [chain EXCEPT ![a] = [epoch |-> cur, method |-> m, status |-> s]]
    BY DEF AnchorSucceeds, create_timestamp
<1>3. s # "unused"
    BY DEF FreshStatus
<1>4. cur \in Epoch
    BY DEF AnchorSucceeds, MayAnchor, Settling, IInv, TypeOK, MemoryInv
<1>5. /\ chain'[a] = [epoch |-> cur, method |-> m, status |-> s]
      /\ \A b \in Anchor : chain[b].status # "unused" => chain'[b] = chain[b]
    BY <1>1, <1>2, AnchorTypes
<1>6. rec'.anchor[m] = a /\ \A n \in Method : n # m => rec'.anchor[n] = rec.anchor[n]
  <2>1. rec \in PendingRecord /\ a \in Anchor \cup {NoAnchor}
    BY AnchorTypes
  <2>2. rec'.anchor = [rec.anchor EXCEPT ![m] = a]
    BY <1>1, <2>1, SetAnchorRecord
  <2>3. rec.anchor \in [Method -> Anchor \cup {NoAnchor}]
    BY <2>1 DEF PendingRecord
  <2> QED
    BY <2>2, <2>3
<1>7. HeldFor(cur, rec)'
    BY <1>1, <1>3, <1>4, <1>5, <1>6, AnchorTypes DEF ChainInv, HeldFor
<1>8. \A e \in Epoch : HeldFor(e, pending[e])'
    BY <1>1, <1>5, AnchorTypes DEF ChainInv, HeldFor
<1>9. ServedIsAnchored'
    BY <1>1, <1>5, AnchorTypes DEF ChainInv, ServedIsAnchored
<1> QED
    BY <1>1, <1>7, <1>8, <1>9 DEF ChainInv

\* A decision on a waiting transaction changes no confirmed one.
LEMMA ChainFinalize ==
    ASSUME NEW a \in Anchor, IInv, ChainInv, Finalize(a)
    PROVE  ChainInv'
<1>1. /\ chain[a].status = "waiting"
      /\ UNCHANGED <<pending, witnesses, cur, rec, pc, meth>>
    BY DEF Finalize, FinalizeAnchor, storeVars, sealerVars
<1>2. PICK s \in {"confirmed", "gone", "bad"} : chain' = [chain EXCEPT ![a].status = s]
    BY DEF Finalize, FinalizeAnchor
<1>3. \A b \in Anchor : /\ chain'[b].epoch = chain[b].epoch
                        /\ chain'[b].method = chain[b].method
                        /\ chain[b].status # "unused" => chain'[b].status # "unused"
                        /\ chain[b].status = "confirmed" => chain'[b] = chain[b]
    BY <1>1, <1>2, AnchorTypes DEF AnchorEntry
<1>4. pc = "serve" => rec.anchor[meth] \in Anchor
    BY InFlight, AnchorTypes
<1> QED
    BY <1>1, <1>3, <1>4, AnchorTypes DEF ChainInv, HeldFor, ServedIsAnchored

\* A newly sealed epoch holds no anchor.
LEMMA ChainPersistEpoch ==
    ASSUME NEW o \in Outcome, IInv, ChainInv, PersistEpoch(o)
    PROVE  ChainInv'
<1> DEFINE new == RecordFor(snap)
<1>1. /\ chain' = chain /\ witnesses' = witnesses /\ pc' # "serve"
      /\ (cur' = snap.id /\ rec' = new) \/ cur' = cur
      /\ pending' = [pending EXCEPT ![snap.id] = new] \/ pending' = pending
      /\ pc = "persist"
    BY DEF PersistEpoch, persist_sealed_epoch_with_pending
<1>2. \A m \in Method : new.anchor[m] = NoAnchor
    BY DEF RecordFor, NoPending, NewPending
<1>3. cur = NoEpoch /\ snap.id \in Epoch
    BY <1>1 DEF IInv, MemoryInv, IdInv
<1> HIDE DEF new
<1>4. \A e \in Epoch : HeldFor(e, pending[e])'
    BY <1>1, <1>2, <1>3, AnchorTypes DEF ChainInv, HeldFor
<1> QED
    BY <1>1, <1>2, <1>3, <1>4 DEF ChainInv, HeldFor, ServedIsAnchored

\* A save of a record that holds its own epoch's anchors.
LEMMA ChainSave ==
    ASSUME IInv, ChainInv, NEW o \in Outcome, pc \in {"store", "check"},
           HeldFor(cur, rec)', save_pending(cur, rec', o),
           UNCHANGED <<chain, cur>>, pc' # "serve"
    PROVE  ChainInv'
<1>1. cur \in Epoch
    BY InFlight
<1>2. witnesses' = witnesses
      /\ pending' \in {pending, [pending EXCEPT ![cur] = rec']}
    BY DEF save_pending
<1>3. \A e \in Epoch : HeldFor(e, pending[e])'
    BY <1>1, <1>2, AnchorTypes DEF ChainInv, HeldFor
<1> QED
    BY <1>2, <1>3 DEF ChainInv, ServedIsAnchored

\* store_anchor saves the record as it is.
LEMMA ChainStoreAnchor ==
    ASSUME NEW o \in Outcome, IInv, ChainInv, store_anchor(o)
    PROVE  ChainInv'
<1>1. /\ pc = "store" /\ save_pending(cur, rec', o) /\ pc' # "serve"
      /\ UNCHANGED <<chain, cur, rec>>
    BY DEF store_anchor, MethodDone
<1>2. HeldFor(cur, rec)'
    BY <1>1, InFlight DEF ChainInv, HeldFor
<1> QED
    BY <1>1, <1>2, ChainSave

\* Dropping an anchor leaves the others where they were.
LEMMA ChainDropAnchor ==
    ASSUME NEW o \in Outcome, IInv, ChainInv, settle_missing(o) \/ DiscardFaultyAnchor(o)
    PROVE  ChainInv'
<1> DEFINE c == count_anchor_fault(rec, meth)
<1>1. /\ pc = "check" /\ save_pending(cur, rec', o) /\ pc' # "serve"
      /\ rec' = drop_anchor(c, meth)
      /\ UNCHANGED <<chain, cur>>
    BY DEF settle_missing, DiscardFaultyAnchor, MethodDone
<1>2. cur # NoEpoch /\ meth \in Method /\ rec \in PendingRecord
      /\ rec.faults[meth] < MaxAnchorFaults
    BY <1>1, InFlight
<1>3. c \in PendingRecord /\ c.anchor = rec.anchor
    BY <1>2, CountFaultRecord
<1> HIDE DEF c
<1>4. rec'.anchor = [rec.anchor EXCEPT ![meth] = NoAnchor]
  <2>1. rec' = set_anchor(c, meth, NoAnchor) /\ NoAnchor \in Anchor \cup {NoAnchor}
    BY <1>1 DEF drop_anchor
  <2> QED
    BY <1>2, <1>3, <2>1, SetAnchorRecord
<1>5. \A m \in Method : rec'.anchor[m] \in {rec.anchor[m], NoAnchor}
    BY <1>2, <1>4 DEF PendingRecord
<1>6. HeldFor(cur, rec)'
    BY <1>1, <1>2, <1>5 DEF ChainInv, HeldFor
<1> QED
    BY <1>1, <1>6, ChainSave

\* The served anchor was made for this epoch and method, and is confirmed.
LEMMA ChainServe ==
    ASSUME NEW o \in Outcome, IInv, ChainInv, Serve(o)
    PROVE  ChainInv'
<1> DEFINE r == Remaining(rec, meth)
<1>1. /\ pc = "serve" /\ persist_pending_minted(cur, r, meth, rec.anchor[meth], o)
      /\ rec' \in {r, rec} /\ pc' # "serve" /\ UNCHANGED <<chain, cur>>
    BY DEF Serve, MethodDone
<1>2. /\ cur \in Epoch /\ cur # NoEpoch /\ meth \in Method /\ rec \in PendingRecord
      /\ rec.anchor[meth] # NoAnchor
    BY <1>1, InFlight
<1>3. /\ pending' \in {pending, [pending EXCEPT ![cur] = r]}
      /\ witnesses' \in {witnesses, [witnesses EXCEPT ![cur][meth] = rec.anchor[meth]]}
    BY <1>1 DEF persist_pending_minted
<1>4. \A m \in Method : r.anchor[m] \in {rec.anchor[m], NoAnchor}
  <2>1. r.anchor = [rec.anchor EXCEPT ![meth] = NoAnchor]
    BY <1>2, RemainingRecord
  <2> HIDE DEF r
  <2> QED
    BY <1>2, <2>1 DEF PendingRecord
<1> HIDE DEF r
<1>5. HeldFor(cur, rec) /\ HeldFor(cur, r) /\ HeldFor(cur, rec)'
    BY <1>1, <1>2, <1>4 DEF ChainInv, HeldFor
<1>6. \A e \in Epoch : HeldFor(e, pending[e])'
    BY <1>1, <1>2, <1>3, <1>5, AnchorTypes DEF ChainInv, HeldFor
<1>7. chain[rec.anchor[meth]] = [epoch |-> cur, method |-> meth, status |-> "confirmed"]
    BY <1>1, <1>2, <1>5, AnchorTypes DEF ChainInv, HeldFor, AnchorEntry
<1>8. ServedIsAnchored'
  <2>1. \A e \in Epoch, m \in Method :
           \/ witnesses'[e][m] = witnesses[e][m]
           \/ e = cur /\ m = meth /\ witnesses'[e][m] = rec.anchor[meth]
    BY <1>2, <1>3 DEF IInv, TypeOK, StoreTypeOK
  <2> QED
    BY <1>1, <1>7, <2>1 DEF ChainInv, ServedIsAnchored
<1> QED
    BY <1>1, <1>5, <1>6, <1>8 DEF ChainInv

\* Every step of the specification keeps ChainInv.
LEMMA ChainNextInv ==
    ASSUME IInv, ChainInv, [Next]_vars
    PROVE  ChainInv'
<1>1. CASE UNCHANGED vars \/ \E batch \in (SUBSET Leaf) \ {{}}, did \in Did : submit_leaves(batch, did)
    BY <1>1, ChainQuiet DEF vars, submit_leaves, storeVars, sealerVars
<1>2. CASE \E a \in Anchor : Finalize(a)
    BY <1>2, ChainFinalize
<1>3. CASE Restart
    BY <1>3, ChainForget DEF Restart
<1>4. CASE SealerStep
  <2>1. ASSUME NEW listed, StartTick(listed)
        PROVE  ChainInv'
    <3>1. /\ UNCHANGED <<chain, witnesses, cur>> /\ pc = "idle" /\ pc' = "settle"
          /\ \A e \in Epoch : pending'[e] = Older(pending[e])
      BY <2>1 DEF StartTick
    <3>2. cur' = NoEpoch
      BY <3>1 DEF IInv, MemoryInv
    <3>3. \A e \in Epoch : pending'[e].anchor = pending[e].anchor
      BY <3>1, AnchorTypes, OlderRecord
    <3> QED
      BY <3>1, <3>2, <3>3, ChainForget
  <2>2. CASE NextPending
    BY <2>2, ChainNextPending
  <2>3. CASE \E m \in Method : Settle(m)
    <3>1. PICK m \in Method : Settle(m)
      BY <2>3
    <3>2. CASE \E a \in Anchor : AnchorSucceeds(m, a)
      BY <3>2, ChainAnchorSucceeds
    <3>3. CASE LeaveDisabled(m) \/ UseStoredAnchor(m) \/ SkipAnchor(m) \/ AnchorFails(m)
      <4>1. UNCHANGED <<chain, pending, witnesses, cur, rec>> /\ pc' # "serve"
        BY <3>3 DEF LeaveDisabled, UseStoredAnchor, SkipAnchor, AnchorFails, MethodDone, storeVars
      <4> QED
        BY <4>1, ChainQuiet
    <3> QED
      BY <3>1, <3>2, <3>3 DEF Settle
  <2>4. CASE KeepAnchor
    <3>1. UNCHANGED <<chain, pending, witnesses, cur, rec>> /\ pc' # "serve"
      BY <2>4 DEF KeepAnchor, MethodDone, storeVars
    <3> QED
      BY <3>1, ChainQuiet
  <2>5. CASE Verified
    BY <2>5, ChainVerified
  <2>6. CASE CloseEpoch \/ EndTick
    <3>1. UNCHANGED <<chain, pending, witnesses>> /\ cur' = NoEpoch /\ pc' # "serve"
      BY <2>6 DEF CloseEpoch, EndTick, storeVars
    <3> QED
      BY <3>1, ChainForget
  <2>7. CASE \E o \in Outcome : Write(o)
    BY <2>7, ChainStoreAnchor, ChainDropAnchor, ChainServe, ChainPersistEpoch DEF Write
  <2> QED
    BY <1>4, <2>1, <2>2, <2>3, <2>4, <2>5, <2>6, <2>7 DEF SealerStep
<1> QED
    BY <1>1, <1>2, <1>3, <1>4 DEF Next

\* settle_method never serves a witness whose anchor is unconfirmed, or was
\* made for another epoch or method, whichever ticks, failed saves and crashes
\* lie between the provider call and the write.
THEOREM ServedAnchored == Spec => []ServedIsAnchored
<1>1. Init => ChainInv
    BY ChainInitInv
<1>2. IInv /\ ChainInv /\ [Next]_vars => ChainInv'
    BY ChainNextInv
<1>3. ChainInv => ServedIsAnchored
    BY DEF ChainInv
<1> QED
    BY <1>1, <1>2, <1>3, Invariance, PTL DEF Spec

----------------------------------------------------------------------------
(***************************************************************************)
(* A stalled method stays stalled.                                         *)
(***************************************************************************)

StaysStalled(e, m) == m \in pending'[e].methods /\ Stalled(e, m)'

\* A write of record r over the current epoch's record, where r differs from
\* the in-memory record at most in the method being settled.
RecordWrite(r, o) ==
    /\ pc \in {"store", "check", "serve"}
    /\ o \in WriteOutcomes
    /\ pending' = IF Applied(o) THEN [pending EXCEPT ![cur] = r] ELSE pending
    /\ pc = "store" => r = rec
    /\ \A n \in Method \ {meth} :
          /\ n \in rec.methods => n \in r.methods
          /\ r.anchor[n] = rec.anchor[n]
          /\ r.faults[n] = rec.faults[n]

\* It leaves a stalled method stalled: that is not the one being settled, and
\* the in-memory record agrees with the stored one on it.
LEMMA WriteKeepsStalled ==
    ASSUME IInv, NEW r, NEW o \in Outcome, RecordWrite(r, o),
           NEW e \in Epoch, NEW m \in Method,
           m \in pending[e].methods, Stalled(e, m)
    PROVE  StaysStalled(e, m)
<1> USE DEF RecordWrite
<1>1. pending \in [Epoch -> PendingRecord]
    BY DEF IInv, TypeOK, StoreTypeOK
<1>2. /\ cur \in Epoch /\ meth \in Method /\ rec \in PendingRecord /\ WellFormed(rec)
      /\ rec.anchor[meth] # NoAnchor /\ rec.faults[meth] < MaxAnchorFaults
      /\ ~poisoned => Follows(rec)
    BY InFlight
<1>3. CASE ~Applied(o) \/ e # cur
    BY <1>1, <1>2, <1>3 DEF StaysStalled, Stalled
<1>4. CASE Applied(o) /\ e = cur
  <2>1. Follows(rec)
    BY <1>2, <1>4 DEF WriteOutcomes, Applied
  <2>2. /\ pending[cur].faults[m] \in Nat /\ rec.faults[m] \in Nat /\ MaxAnchorFaults \in Nat
        /\ pending[cur].anchor[m] = NoAnchor /\ pending[cur].faults[m] >= MaxAnchorFaults
        /\ ~(pending[cur].faults[m] < MaxAnchorFaults)
    BY <1>1, <1>2, <1>4, PendingAssumption DEF Stalled, PendingRecord
  <2>3. SameAs(rec, m)
    BY <1>2, <2>1, <2>2 DEF Follows, Gained, Dropped, WellFormed
  <2>4. m # meth
    BY <1>2, <2>2, <2>3 DEF SameAs
  <2>5. m \in r.methods /\ r.anchor[m] = NoAnchor /\ r.faults[m] >= MaxAnchorFaults
    BY <1>4, <2>1, <2>2, <2>3, <2>4 DEF Follows, SameAs
  <2>6. pending'[e] = r
    BY <1>1, <1>2, <1>4
  <2> QED
    BY <2>5, <2>6 DEF StaysStalled, Stalled
<1> QED
    BY <1>3, <1>4

\* The answer "stalled" of the routes is final: no later save of the epoch's
\* record, no tick and no restart lets the method leave that state.
THEOREM StalledStays == Spec => StalledIsFinal
<1>1. ASSUME IInv, [Next]_vars, NEW e \in Epoch, NEW m \in Method,
             m \in pending[e].methods, Stalled(e, m)
      PROVE  StaysStalled(e, m)
  <2>0. pending \in [Epoch -> PendingRecord]
    BY <1>1 DEF IInv, TypeOK, StoreTypeOK
  <2>1. CASE pending' = pending
    BY <1>1, <2>1 DEF StaysStalled, Stalled
  <2>2. ASSUME NEW listed, StartTick(listed)
        PROVE  StaysStalled(e, m)
    <3>1. pending'[e] = Older(pending[e])
      BY <2>2 DEF StartTick
    <3>2. pending[e] \in PendingRecord
      BY <2>0
    <3> QED
      BY <1>1, <3>1, <3>2, OlderRecord DEF StaysStalled, Stalled
  <2>3. ASSUME NEW o \in Outcome, store_anchor(o)
        PROVE  StaysStalled(e, m)
    <3>1. /\ pc = "store" /\ o \in WriteOutcomes
          /\ pending' = IF Applied(o) THEN [pending EXCEPT ![cur] = rec] ELSE pending
      BY <2>3 DEF store_anchor, save_pending, Commit
    <3>2. RecordWrite(rec, o)
      BY <3>1 DEF RecordWrite
    <3> QED
      BY <1>1, <3>2, WriteKeepsStalled
  <2>4. ASSUME NEW o \in Outcome, settle_missing(o) \/ DiscardFaultyAnchor(o)
        PROVE  StaysStalled(e, m)
    <3> DEFINE c == count_anchor_fault(rec, meth)
               r == drop_anchor(c, meth)
    <3>1. /\ pc = "check" /\ o \in WriteOutcomes
          /\ pending' = IF Applied(o) THEN [pending EXCEPT ![cur] = r] ELSE pending
      BY <2>4 DEF settle_missing, DiscardFaultyAnchor, save_pending, Commit
    <3>2. rec \in PendingRecord /\ meth \in Method /\ rec.faults[meth] < MaxAnchorFaults
      BY <1>1, <3>1, InFlight
    <3>3. /\ c \in PendingRecord /\ c.methods = rec.methods /\ c.anchor = rec.anchor
          /\ c.faults = [rec.faults EXCEPT ![meth] = rec.faults[meth] + 1]
      BY <3>2, CountFaultRecord
    <3> HIDE DEF c
    <3>4. NoAnchor \in Anchor \cup {NoAnchor} /\ meth \in Method /\ c \in PendingRecord
      BY <3>2, <3>3
    <3>5. /\ r.methods = c.methods /\ r.faults = c.faults
          /\ r.anchor = [c.anchor EXCEPT ![meth] = NoAnchor]
      BY <3>4, SetAnchorRecord DEF drop_anchor
    <3> HIDE DEF r
    <3>6. \A n \in Method \ {meth} :
               /\ n \in rec.methods => n \in r.methods
               /\ r.anchor[n] = rec.anchor[n]
               /\ r.faults[n] = rec.faults[n]
      BY <3>2, <3>3, <3>5 DEF PendingRecord
    <3>7. RecordWrite(r, o)
      BY <3>1, <3>6 DEF RecordWrite
    <3> QED
      BY <1>1, <3>7, WriteKeepsStalled
  <2>5. ASSUME NEW o \in Outcome, Serve(o)
        PROVE  StaysStalled(e, m)
    <3> DEFINE r == Remaining(rec, meth)
    <3>1. /\ pc = "serve" /\ o \in WriteOutcomes
          /\ pending' = IF Applied(o) THEN [pending EXCEPT ![cur] = r] ELSE pending
      BY <2>5 DEF Serve, persist_pending_minted, Commit
    <3>2. rec \in PendingRecord /\ meth \in Method
      BY <1>1, <3>1, InFlight
    <3>3. /\ r.methods = rec.methods \ {meth} /\ r.faults = rec.faults
          /\ r.anchor = [rec.anchor EXCEPT ![meth] = NoAnchor]
      BY <3>2, RemainingRecord
    <3> HIDE DEF r
    <3>4. \A n \in Method \ {meth} :
               /\ n \in rec.methods => n \in r.methods
               /\ r.anchor[n] = rec.anchor[n]
               /\ r.faults[n] = rec.faults[n]
      BY <3>2, <3>3 DEF PendingRecord
    <3>5. RecordWrite(r, o)
      BY <3>1, <3>4 DEF RecordWrite
    <3> QED
      BY <1>1, <3>5, WriteKeepsStalled
  <2>6. ASSUME NEW o \in Outcome, PersistEpoch(o)
        PROVE  StaysStalled(e, m)
    <3>1. /\ snap.id \in Epoch /\ Above(snap.id) /\ sealed \subseteq Epoch
      BY <1>1, <2>6 DEF PersistEpoch, IInv, IdInv, TypeOK, StoreTypeOK
    <3>2. snap.id \in sealed => snap.id = MaxEpoch
      BY <3>1 DEF Above, Epoch
    <3>3. pending[snap.id].methods = {}
      BY <1>1, <3>1, <3>2 DEF IInv, UntouchedInv
    <3>4. \/ pending' = [pending EXCEPT ![snap.id] = RecordFor(snap)]
          \/ pending' = pending
      BY <2>6 DEF PersistEpoch, persist_sealed_epoch_with_pending
    <3>5. pending'[e] = pending[e]
      BY <1>1, <2>0, <3>3, <3>4
    <3> QED
      BY <1>1, <3>5 DEF StaysStalled, Stalled
  <2>7. ASSUME NEW n \in Method, Settle(n)
        PROVE  pending' = pending
    BY <2>7 DEF Settle, LeaveDisabled, UseStoredAnchor, SkipAnchor, AnchorFails,
        AnchorSucceeds, storeVars
  <2>8. ASSUME \/ NextPending \/ KeepAnchor \/ Verified \/ CloseEpoch \/ EndTick \/ Restart
               \/ UNCHANGED vars \/ \E a \in Anchor : Finalize(a)
               \/ \E batch \in (SUBSET Leaf) \ {{}}, did \in Did : submit_leaves(batch, did)
        PROVE  pending' = pending
    BY <2>8 DEF NextPending, KeepAnchor, Verified, CloseEpoch, EndTick, Restart, vars,
        Finalize, submit_leaves, storeVars
  <2> QED
    BY <1>1, <2>1, <2>2, <2>3, <2>4, <2>5, <2>6, <2>7, <2>8 DEF Next, SealerStep, Write
<1>2. IInv /\ [Next]_vars
        => [\A e \in Epoch, m \in Method :
              m \in pending[e].methods /\ Stalled(e, m)
                  => m \in pending'[e].methods /\ Stalled(e, m)']_vars
    BY <1>1 DEF StaysStalled
<1> QED
    BY <1>2, Invariance, PTL DEF Spec, StalledIsFinal

============================================================================
