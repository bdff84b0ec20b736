---------------------------- MODULE ReaderProofs ----------------------------
(***************************************************************************)
(* What the witness routes read, and what they answer.                     *)
(*                                                                         *)
(* ByLeafInv (SealerInv) is inductive together with IInv: the rows that    *)
(* get_tree_by_leaf reads agree with the records and the witnesses.        *)
(***************************************************************************)
EXTENDS Reader, SealerProofs

USE AccumulatorAssumption, PendingAssumption, StoreAssumption,
    ProviderAssumption, SealerAssumption

\* The types of the rows.
LEMMA RowTypes ==
    ASSUME IInv
    PROVE  /\ NoEpoch \notin Epoch /\ sealed \subseteq Epoch
           /\ epoch_leaves \in [Epoch -> LeafMap]
           /\ pending \in [Epoch -> PendingRecord]
           /\ pending_leaves \in EpochTable
           /\ leaf_to_tips \in EpochTable
           /\ witnesses \in [Epoch -> [Method -> Anchor \cup {NoAnchor}]]
           /\ leaf_owner \in LeafMap
    BY DEF IInv, TypeOK, StoreTypeOK, Epoch, NoEpoch

\* An epoch that nothing was paid for has nothing pending and nothing served.
LEMMA UntouchedRows ==
    ASSUME IInv, NEW e \in Epoch, e \notin sealed \/ e = MaxEpoch
    PROVE  pending[e].methods = {} /\ \A m \in Method : witnesses[e][m] = NoAnchor
<1>1. pending[e].methods = {} /\ \A m \in Method : issued[e][m] = 0
    BY DEF IInv, UntouchedInv
<1>2. ASSUME NEW m \in Method
      PROVE  witnesses[e][m] = NoAnchor
  <2>1. pending[e].faults[m] \in Nat /\ unsaved[e][m] \in Nat
    BY DEF IInv, TypeOK, StoreTypeOK, PendingRecord, Counts
  <2>2. Balanced(e, m)
    BY DEF IInv, AccountInv
  <2> QED
    BY <1>1, <2>1, <2>2 DEF Balanced, One
<1> QED
    BY <1>1, <1>2

\* The rows are written by the two writes that seal and serve, and no others.
LEMMA OtherStepsRows ==
    ASSUME [Next]_vars, ~\E o \in Outcome : PersistEpoch(o) \/ Serve(o)
    PROVE  UNCHANGED <<pending_leaves, leaf_to_tips, leaf_owner>>
<1>1. ASSUME NEW m \in Method, Settle(m)
      PROVE  UNCHANGED storeVars
    BY <1>1 DEF Settle, LeaveDisabled, UseStoredAnchor, SkipAnchor, AnchorFails, AnchorSucceeds
<1>2. ASSUME \/ NextPending \/ KeepAnchor \/ Verified \/ CloseEpoch \/ EndTick
             \/ UNCHANGED vars \/ \E a \in Anchor : Finalize(a)
             \/ \E batch \in (SUBSET Leaf) \ {{}}, did \in Did : submit_leaves(batch, did)
      PROVE  UNCHANGED storeVars
    BY <1>2 DEF NextPending, KeepAnchor, Verified, CloseEpoch, EndTick, vars, Finalize,
        submit_leaves
<1>3. ASSUME \/ \E o \in Outcome : store_anchor(o) \/ settle_missing(o) \/ DiscardFaultyAnchor(o)
             \/ StartTick({}) \/ StartTick(ListPendingEpochs) \/ Restart
      PROVE  UNCHANGED <<pending_leaves, leaf_to_tips, leaf_owner>>
    BY <1>3 DEF store_anchor, settle_missing, DiscardFaultyAnchor, save_pending, StartTick, Restart
<1> QED
    BY <1>1, <1>2, <1>3 DEF Next, SealerStep, Write, storeVars

\* A step that is neither of the two keeps the rows consistent.
LEMMA ByLeafQuiet ==
    ASSUME ByLeafInv, QuietStep, UNCHANGED <<pending_leaves, leaf_to_tips, leaf_owner>>, IInv
    PROVE  ByLeafInv'
<1> USE RowTypes DEF QuietStep
<1>1. ASSUME NEW l \in Leaf, NEW m \in Method
      PROVE  LookupRow(l, m)' /\ TipRow(l, m)' /\ HasTip(l, m)' /\ NewestInLookup(l, m)'
  <2>1. LookupRow(l, m) /\ TipRow(l, m) /\ HasTip(l, m) /\ NewestInLookup(l, m)
    BY DEF ByLeafInv
  <2>2. pending_leaves[l][m] \in Epoch \cup {NoEpoch}
    BY DEF EpochTable
  <2>3. LookupRow(l, m)'
    BY <2>1, <2>2 DEF LookupRow
  <2>4. TipRow(l, m)' /\ HasTip(l, m)'
    BY <2>1 DEF TipRow, HasTip
  <2>5. NewestInLookup(l, m)'
    BY <2>1 DEF NewestInLookup, WitnessedIn
  <2> QED
    BY <2>3, <2>4, <2>5
<1>2. ASSUME NEW l \in Leaf
      PROVE  OwnerRow(l)'
    BY DEF ByLeafInv, OwnerRow
<1> QED
    BY <1>1, <1>2 DEF ByLeafInv

\* The write of a closed epoch: its id is above every epoch with something
\* pending or served, so it is the newest epoch of each of its leaves.
LEMMA ByLeafPersist ==
    ASSUME IInv, ByLeafInv, NEW o \in Outcome, PersistEpoch(o)
    PROVE  ByLeafInv'
<1> DEFINE id == snap.id
           r == RecordFor(snap)
<1>1. id \in Epoch /\ Above(id) /\ snap.leaves \in LeafMap
      /\ (id = MaxEpoch => snap.leaves = NoLeaves) /\ epoch_leaves[MaxEpoch] = NoLeaves
    BY DEF PersistEpoch, IInv, IdInv, TypeOK
<1>2. id \notin sealed \/ id = MaxEpoch
    BY <1>1, RowTypes DEF Above, Epoch
<1>3. pending[id].methods = {} /\ \A m \in Method : witnesses[id][m] = NoAnchor
    BY <1>1, <1>2, UntouchedRows
<1>4. \A e \in Epoch : e > id =>
          pending[e].methods = {} /\ \A m \in Method : witnesses[e][m] = NoAnchor
  <2> SUFFICES ASSUME NEW e \in Epoch, e > id PROVE e \notin sealed
    BY UntouchedRows
  <2> QED
    BY <1>1 DEF Above, Epoch
<1>5. UNCHANGED <<leaf_to_tips, witnesses>>
    BY DEF PersistEpoch, persist_sealed_epoch_with_pending
<1>6. CASE ~Applied(o)
  <2>1. UNCHANGED <<sealed, epoch_leaves, pending, pending_leaves, leaf_owner>>
    BY <1>6 DEF PersistEpoch, persist_sealed_epoch_with_pending
  <2> QED
    BY <1>5, <2>1, ByLeafQuiet DEF QuietStep
<1>7. CASE Applied(o)
  <2>1. /\ sealed' = sealed \cup {id}
        /\ epoch_leaves' = [epoch_leaves EXCEPT ![id] = snap.leaves]
        /\ pending' = [pending EXCEPT ![id] = r]
        /\ pending_leaves' =
              [l \in Leaf |-> [m \in Method |->
                  IF snap.leaves[l] # NoDid /\ m \in r.methods THEN id ELSE pending_leaves[l][m]]]
        /\ leaf_owner' =
              [l \in Leaf |-> IF snap.leaves[l] # NoDid THEN snap.leaves[l] ELSE leaf_owner[l]]
    BY <1>7 DEF PersistEpoch, persist_sealed_epoch_with_pending
  <2> HIDE DEF r
  <2>2. ASSUME NEW l \in Leaf, NEW m \in Method
        PROVE  LookupRow(l, m)' /\ TipRow(l, m)' /\ HasTip(l, m)' /\ NewestInLookup(l, m)'
    <3>1. LookupRow(l, m) /\ TipRow(l, m) /\ HasTip(l, m) /\ NewestInLookup(l, m)
      BY DEF ByLeafInv
    <3>2. /\ pending_leaves[l][m] \in Epoch \cup {NoEpoch}
          /\ leaf_to_tips[l][m] \in Epoch \cup {NoEpoch}
      BY RowTypes DEF EpochTable
    <3>3. LookupRow(l, m)'
      BY <1>1, <1>3, <2>1, <3>1, <3>2, RowTypes DEF LookupRow
    <3>4. TipRow(l, m)'
      BY <1>1, <1>3, <1>5, <2>1, <3>1, <3>2, RowTypes DEF TipRow
    <3>5. HasTip(l, m)'
      BY <1>1, <1>3, <1>5, <2>1, <3>1, RowTypes DEF HasTip
    <3>6. NewestInLookup(l, m)'
      <4> SUFFICES ASSUME NEW e \in Epoch, m \in pending'[e].methods, epoch_leaves'[e][l] # NoDid,
                          \A f \in Epoch : f > e => ~WitnessedIn(f, l, m)'
                   PROVE  pending_leaves'[l][m] = e
        BY DEF NewestInLookup
      <4>1. CASE e = id
        BY <1>1, <2>1, <4>1, RowTypes
      <4>2. CASE e # id
        <5>1. m \in pending[e].methods /\ epoch_leaves[e][l] # NoDid
          BY <1>1, <2>1, <4>2, RowTypes
        <5>2. e < id
          BY <1>1, <1>4, <4>2, <5>1 DEF Epoch
        <5>3. ~(epoch_leaves'[id][l] # NoDid /\ m \in pending'[id].methods)
          BY <1>1, <5>2 DEF WitnessedIn
        <5>4. ~(snap.leaves[l] # NoDid /\ m \in r.methods)
          BY <1>1, <2>1, <5>3, RowTypes
        <5>5. \A f \in Epoch : f > e => ~WitnessedIn(f, l, m)
          BY <1>1, <1>3, <1>5, <2>1, RowTypes DEF WitnessedIn
        <5>6. pending_leaves[l][m] = e
          BY <3>1, <5>1, <5>5 DEF NewestInLookup
        <5> QED
          BY <2>1, <5>4, <5>6
      <4> QED
        BY <4>1, <4>2
    <3> QED
      BY <3>3, <3>4, <3>5, <3>6
  <2>3. ASSUME NEW l \in Leaf
        PROVE  OwnerRow(l)'
    BY <1>1, <2>1, RowTypes DEF ByLeafInv, OwnerRow
  <2> QED
    BY <2>2, <2>3 DEF ByLeafInv
<1> QED
    BY <1>6, <1>7

\* The write of the witnesses: the leaves of the epoch get their tip, and only
\* the lookups that name this very epoch go.
LEMMA ByLeafServe ==
    ASSUME IInv, ByLeafInv, NEW o \in Outcome, Serve(o)
    PROVE  ByLeafInv'
<1> DEFINE r == Remaining(rec, meth)
           a == rec.anchor[meth]
<1>1. pc = "serve" /\ persist_pending_minted(cur, r, meth, a, o)
    BY DEF Serve
<1>2. /\ cur \in Epoch /\ meth \in Method /\ rec \in PendingRecord
      /\ a # NoAnchor /\ (~poisoned => rec.methods = pending[cur].methods)
      /\ meth \in pending[cur].methods
    BY <1>1, InFlight DEF Follows, IInv, MemoryInv
<1>3. r.methods = rec.methods \ {meth}
    BY <1>2, RemainingRecord
<1> HIDE DEF r, a
<1>4. UNCHANGED <<sealed, epoch_leaves, leaf_owner>> /\ (Applied(o) => ~poisoned)
    BY <1>1 DEF persist_pending_minted, Commit, WriteOutcomes, Applied
<1>5. CASE ~Applied(o)
  <2>1. UNCHANGED <<witnesses, leaf_to_tips, pending_leaves, pending>>
    BY <1>1, <1>5 DEF persist_pending_minted
  <2> QED
    BY <1>4, <2>1, ByLeafQuiet DEF QuietStep
<1>6. CASE Applied(o)
  <2>1. /\ witnesses' = [witnesses EXCEPT ![cur][meth] = a]
        /\ leaf_to_tips' =
              [l \in Leaf |-> [m \in Method |->
                  IF m = meth /\ epoch_leaves[cur][l] # NoDid THEN cur ELSE leaf_to_tips[l][m]]]
        /\ pending_leaves' =
              [l \in Leaf |-> [m \in Method |->
                  IF m = meth /\ epoch_leaves[cur][l] # NoDid /\ pending_leaves[l][m] = cur
                    THEN NoEpoch ELSE pending_leaves[l][m]]]
        /\ pending' = [pending EXCEPT ![cur] = r]
    BY <1>1, <1>6 DEF persist_pending_minted
  <2>2. \A e \in Epoch, m \in Method :
            /\ m \in pending'[e].methods <=> m \in pending[e].methods /\ ~(e = cur /\ m = meth)
            /\ witnesses'[e][m] = IF e = cur /\ m = meth THEN a ELSE witnesses[e][m]
    BY <1>2, <1>3, <1>4, <1>6, <2>1, RowTypes
  <2>3. \A e \in Epoch, l \in Leaf, m \in Method : WitnessedIn(e, l, m)' <=> WitnessedIn(e, l, m)
    BY <1>2, <1>4, <2>2 DEF WitnessedIn
  <2>4. ASSUME NEW l \in Leaf, NEW m \in Method
        PROVE  LookupRow(l, m)' /\ TipRow(l, m)' /\ HasTip(l, m)' /\ NewestInLookup(l, m)'
    <3>1. LookupRow(l, m) /\ TipRow(l, m) /\ HasTip(l, m) /\ NewestInLookup(l, m)
      BY DEF ByLeafInv
    <3>2. /\ pending_leaves[l][m] \in Epoch \cup {NoEpoch}
          /\ leaf_to_tips[l][m] \in Epoch \cup {NoEpoch}
      BY RowTypes DEF EpochTable
    <3>3. /\ pending_leaves'[l][m] =
                IF m = meth /\ epoch_leaves[cur][l] # NoDid /\ pending_leaves[l][m] = cur
                  THEN NoEpoch ELSE pending_leaves[l][m]
          /\ leaf_to_tips'[l][m] =
                IF m = meth /\ epoch_leaves[cur][l] # NoDid THEN cur ELSE leaf_to_tips[l][m]
      BY <2>1
    <3>4. LookupRow(l, m)'
      BY <1>4, <2>2, <3>1, <3>2, <3>3 DEF LookupRow
    <3>5. TipRow(l, m)'
      BY <1>2, <1>4, <2>2, <3>1, <3>2, <3>3 DEF TipRow
    <3>6. HasTip(l, m)'
      BY <1>2, <1>4, <2>2, <3>1, <3>3, RowTypes DEF HasTip
    <3>7. NewestInLookup(l, m)'
      BY <1>2, <1>4, <2>2, <2>3, <3>1, <3>2, <3>3 DEF NewestInLookup
    <3> QED
      BY <3>4, <3>5, <3>6, <3>7
  <2>5. \A l \in Leaf : OwnerRow(l)'
    BY <1>4 DEF ByLeafInv, OwnerRow
  <2> QED
    BY <2>4, <2>5 DEF ByLeafInv
<1> QED
    BY <1>5, <1>6

\* Every step of the sealer keeps the rows consistent.
LEMMA ByLeafNext ==
    ASSUME IInv, ByLeafInv, [Next]_vars
    PROVE  ByLeafInv'
<1>1. CASE \E o \in Outcome : PersistEpoch(o)
    BY <1>1, ByLeafPersist
<1>2. CASE \E o \in Outcome : Serve(o)
    BY <1>2, ByLeafServe
<1>3. CASE ~\E o \in Outcome : PersistEpoch(o) \/ Serve(o)
    BY <1>3, OtherStepsQuiet, OtherStepsRows, ByLeafQuiet
<1> QED
    BY <1>1, <1>2, <1>3

\* There are no rows on a first start.
LEMMA ByLeafInit == Init => ByLeafInv
    BY DEF Init, StoreInit, ByLeafInv, LookupRow, TipRow, HasTip, NewestInLookup, OwnerRow,
        NoLeaves, NoPending, NewPending

\* The stronger form implies the property.
LEMMA ByLeafImplies == ByLeafInv => ByLeafConsistent
<1> SUFFICES ASSUME ByLeafInv, NEW l \in Leaf, NEW m \in Method
             PROVE  LET p == pending_leaves[l][m]
                        t == leaf_to_tips[l][m]
                    IN  /\ p # NoEpoch => m \in pending[p].methods /\ epoch_leaves[p][l] # NoDid
                        /\ t # NoEpoch => witnesses[t][m] # NoAnchor /\ epoch_leaves[t][l] # NoDid
                        /\ \A e \in sealed : epoch_leaves[e][l] # NoDid => leaf_owner[l] # NoDid
                        /\ \A e \in Epoch :
                              WitnessedIn(e, l, m) /\ (\A f \in Epoch : f > e => ~WitnessedIn(f, l, m))
                                  => IF m \in pending[e].methods THEN p = e ELSE t # NoEpoch
    BY DEF ByLeafConsistent
<1>1. LookupRow(l, m) /\ TipRow(l, m) /\ HasTip(l, m) /\ NewestInLookup(l, m) /\ OwnerRow(l)
    BY DEF ByLeafInv
<1> QED
    BY <1>1 DEF LookupRow, TipRow, HasTip, NewestInLookup, OwnerRow, WitnessedIn

\* The lookup, the tip and the owner that get_tree_by_leaf reads agree with the
\* pending records and the witnesses, also for a leaf that was submitted to
\* several epochs, in whatever order these are settled.
THEOREM ByLeafAgrees == Spec => []ByLeafConsistent
<1>1. IInv /\ ByLeafInv /\ [Next]_vars => ByLeafInv'
    BY ByLeafNext
<1> QED
    BY <1>1, ByLeafInit, ByLeafImplies, Invariance, PTL DEF Spec

----------------------------------------------------------------------------
(***************************************************************************)
(* The handlers.                                                           *)
(***************************************************************************)

\* A method that is not pending in a sealed epoch stays so, and its witnesses
\* stay what they are: the sealer adds methods to no sealed epoch.
LEMMA SettledStep ==
    ASSUME IInv, [Next]_vars, NEW e \in sealed, NEW m \in Method, m \notin pending[e].methods
    PROVE  m \notin pending'[e].methods /\ witnesses'[e][m] = witnesses[e][m]
<1>1. e \in Epoch
    BY RowTypes
<1>2. ASSUME NEW o \in Outcome, PersistEpoch(o)
      PROVE  m \notin pending'[e].methods /\ witnesses'[e][m] = witnesses[e][m]
  <2>1. /\ snap.id \in Epoch /\ Above(snap.id)
        /\ snap.id = MaxEpoch => snap.leaves = NoLeaves
    BY <1>2 DEF PersistEpoch, IInv, IdInv
  <2>2. /\ witnesses' = witnesses
        /\ pending' = [pending EXCEPT ![snap.id] = RecordFor(snap)] \/ pending' = pending
    BY <1>2 DEF PersistEpoch, persist_sealed_epoch_with_pending
  <2>3. e = snap.id => RecordFor(snap).methods = {}
    BY <2>1 DEF Above, Epoch, RecordFor, LeavesIn, NoLeaves, NoPending, NewPending
  <2> QED
    BY <1>1, <2>1, <2>2, <2>3, RowTypes
<1>3. ASSUME NEW o \in Outcome, Serve(o)
      PROVE  m \notin pending'[e].methods /\ witnesses'[e][m] = witnesses[e][m]
  <2> DEFINE r == Remaining(rec, meth)
  <2>1. pc = "serve" /\ persist_pending_minted(cur, r, meth, rec.anchor[meth], o)
    BY <1>3 DEF Serve
  <2>2. /\ cur \in Epoch /\ meth \in Method /\ rec \in PendingRecord
        /\ (~poisoned => rec.methods = pending[cur].methods)
        /\ meth \in pending[cur].methods
    BY <2>1, InFlight DEF Follows, IInv, MemoryInv
  <2>3. r.methods = rec.methods \ {meth}
    BY <2>2, RemainingRecord
  <2> HIDE DEF r
  <2>4. /\ Applied(o) => ~poisoned
        /\ pending' = IF Applied(o) THEN [pending EXCEPT ![cur] = r] ELSE pending
        /\ witnesses' = IF Applied(o) THEN [witnesses EXCEPT ![cur][meth] = rec.anchor[meth]]
                                      ELSE witnesses
    BY <2>1 DEF persist_pending_minted, Commit, WriteOutcomes, Applied
  <2> QED
    BY <1>1, <2>2, <2>3, <2>4, RowTypes
<1>4. CASE ~\E o \in Outcome : PersistEpoch(o) \/ Serve(o)
    BY <1>1, <1>4, OtherStepsQuiet DEF QuietStep
<1> QED
    BY <1>2, <1>3, <1>4

\* A witness that is there belongs to a sealed epoch.
LEMMA ServedIsSealed ==
    ASSUME IInv, NEW e \in Epoch, NEW m \in Method, witnesses[e][m] # NoAnchor
    PROVE  e \in sealed
    BY UntouchedRows

\* No request was made and nothing was delivered on a first start.
LEMMA ReaderInitInv == ReaderInit => ReaderInv
<1> SUFFICES ASSUME ReaderInit PROVE ReaderInv
    OBVIOUS
<1>1. PICK d \in Did, m \in Method : req = Idle(d, m)
    BY DEF ReaderInit
<1> QED
    BY <1>1 DEF ReaderInit, Idle, ReaderInv, ReaderTypeOK, Request, ReadPc, Status,
        RouteInv, UnionInv, ToldInv, UntoldInv

\* What was delivered stays in the store.
LEMMA ToldStep ==
    ASSUME IInv, ReaderInv, [Next]_vars, told' = told
    PROVE  ToldInv'
<1> SUFFICES ASSUME NEW t \in told
             PROVE  witnesses'[t.epoch][t.method] # NoAnchor /\ epoch_leaves'[t.epoch][t.leaf] # NoDid
    BY DEF ToldInv
<1>1. t.epoch \in Epoch /\ t.method \in Method
    BY DEF ReaderInv, ReaderTypeOK
<1>2. witnesses[t.epoch][t.method] # NoAnchor /\ epoch_leaves[t.epoch][t.leaf] # NoDid
    BY DEF ReaderInv, ToldInv
<1>3. t.epoch \in sealed
    BY <1>1, <1>2, ServedIsSealed
<1> QED
    BY <1>1, <1>2, <1>3, SealedStep

\* The sealer goes on, or the process restarts, under a request.
LEMMA ServerStepInv ==
    ASSUME IInv, ReaderInv, ServerStep
    PROVE  ReaderInv'
<1>1. Next /\ told' = told /\ req' = IF crashes' = crashes THEN req ELSE Idle(req.did, req.method)
    BY DEF ServerStep
<1>2. ToldInv'
    BY <1>1, ToldStep
<1>3. CASE crashes' # crashes
  <2>1. req' = Idle(req.did, req.method) /\ req.did \in Did /\ req.method \in Method
    BY <1>1, <1>3 DEF ReaderInv, ReaderTypeOK, Request
  <2> QED
    BY <1>1, <1>2, <2>1 DEF Idle, ReaderInv, ReaderTypeOK, Request, ReadPc, Status,
        RouteInv, UnionInv, UntoldInv
<1>4. CASE crashes' = crashes
  <2>1. req' = req
    BY <1>1, <1>4
  <2>2. ReaderTypeOK' /\ RouteInv' /\ UntoldInv'
    BY <1>1, <2>1 DEF ReaderInv, ReaderTypeOK, RouteInv, UntoldInv, WasTold
  <2>3. req.method \in Method
    BY DEF ReaderInv, ReaderTypeOK, Request
  <2>4. req.epoch \in sealed =>
            /\ req.epoch \in sealed' /\ epoch_leaves'[req.epoch] = epoch_leaves[req.epoch]
            /\ req.method \notin pending[req.epoch].methods =>
                  /\ req.method \notin pending'[req.epoch].methods
                  /\ witnesses'[req.epoch][req.method] = witnesses[req.epoch][req.method]
    BY <1>1, <2>3, SealedStep, SettledStep
  <2>5. UnionInv'
    BY <2>1, <2>4 DEF ReaderInv, UnionInv
  <2> QED
    BY <1>2, <2>2, <2>5 DEF ReaderInv
<1> QED
    BY <1>3, <1>4

\* A request arrives: nothing is read yet.
LEMMA ArriveInv ==
    ASSUME ReaderInv, NEW d \in Did, NEW m \in Method,
           \/ \E l \in Leaf : AskByLeaf(d, l, m)
           \/ \E e \in Epoch : AskUnion(d, e, m)
           \/ \E e \in Epoch, l \in Leaf : AskTip(d, e, l, m)
    PROVE  ReaderInv'
<1> USE DEF Arrive, vars, storeVars, ReaderInv, ReaderTypeOK, Request, ReadPc, Status
<1>1. ASSUME NEW l \in Leaf, AskByLeaf(d, l, m)
      PROVE  ReaderInv'
    BY <1>1 DEF AskByLeaf, RouteInv, UnionInv, ToldInv, UntoldInv, Due
<1>2. ASSUME NEW e \in Epoch, AskUnion(d, e, m)
      PROVE  ReaderInv'
    BY <1>2 DEF AskUnion, RouteInv, UnionInv, ToldInv, UntoldInv
<1>3. ASSUME NEW e \in Epoch, NEW l \in Leaf, AskTip(d, e, l, m)
      PROVE  ReaderInv'
    BY <1>3 DEF AskTip, RouteInv, UnionInv, ToldInv, UntoldInv
<1> QED
    BY <1>1, <1>2, <1>3

\* A handler moves on without an answer.
LEMMA GoInv ==
    ASSUME ReaderInv, NEW to \in ReadPc, req.pc # "done", UNCHANGED <<vars, told>>,
           req' = [req EXCEPT !.pc = to],
           to \in {"tip", "lookup"} => req.route = "by_leaf",
           to \in {"pending", "list"} => req.route = "union" /\ req.epoch \in sealed,
           to \in {"tip", "lookup", "pending", "list", "stalled"},
           to = "list" => req.method \notin pending[req.epoch].methods,
           req.route = "by_leaf" /\ to \in {"lookup", "stalled"} => \A t \in told : ~WasTold(t)
    PROVE  ReaderInv'
<1>1. UNCHANGED <<sealed, pending, epoch_leaves, witnesses>>
    BY DEF vars, storeVars
<1>2. req \in Request /\ req.status = "none"
    BY DEF ReaderInv, ReaderTypeOK, RouteInv
<1>3. /\ req'.pc = to /\ req' \in Request
      /\ req'.route = req.route /\ req'.did = req.did /\ req'.leaves = req.leaves
      /\ req'.method = req.method /\ req'.epoch = req.epoch /\ req'.status = req.status
    BY <1>2 DEF Request
<1>4. ReaderTypeOK' /\ RouteInv' /\ ToldInv'
    BY <1>1, <1>3 DEF ReaderInv, ReaderTypeOK, RouteInv, ToldInv
<1>5. UnionInv'
    BY <1>1, <1>3 DEF UnionInv
<1>6. UntoldInv'
    BY <1>2, <1>3 DEF UntoldInv, WasTold
<1> QED
    BY <1>4, <1>5, <1>6 DEF ReaderInv

\* A handler answers.
LEMMA ReplyInv ==
    ASSUME ReaderInv, UNCHANGED vars, NEW status \in Status, NEW body \in SUBSET Leaf,
           Reply(status, body), ReaderTypeOK', ToldInv',
           req.route = "by_leaf" /\ status \in {"202", "404", "503"} =>
               told' = told /\ \A t \in told : ~WasTold(t),
           req.route = "tip" /\ status = "404" =>
               told' = told /\ \A t \in told : WasTold(t) => t.epoch # req.epoch,
           req.route = "union" /\ status = "200" =>
               /\ req.epoch \in sealed /\ req.method \notin pending[req.epoch].methods
               /\ \/ body = {l \in Leaf : epoch_leaves[req.epoch][l] = req.did}
                  \/ witnesses[req.epoch][req.method] = NoAnchor
    PROVE  ReaderInv'
<1>1. UNCHANGED <<sealed, pending, epoch_leaves, witnesses>>
    BY DEF vars, storeVars
<1>2. req \in Request
    BY DEF ReaderInv, ReaderTypeOK
<1>3. /\ req'.pc = "done" /\ req'.status = status /\ req'.body = body
      /\ req'.route = req.route /\ req'.did = req.did /\ req'.leaves = req.leaves
      /\ req'.method = req.method /\ req'.epoch = req.epoch
    BY <1>2 DEF Request, Reply
<1>4. RouteInv'
    BY <1>3 DEF ReaderInv, RouteInv
<1>5. UnionInv'
    BY <1>1, <1>3 DEF UnionInv
<1>6. UntoldInv'
    BY <1>3 DEF UntoldInv, WasTold
<1> QED
    BY <1>4, <1>5, <1>6 DEF ReaderInv

\* The type of an answered request.
LEMMA ReplyType ==
    ASSUME ReaderInv, NEW status \in Status, NEW body \in SUBSET Leaf, Reply(status, body)
    PROVE  req' \in Request
    BY DEF ReaderInv, ReaderTypeOK, Request, Reply, ReadPc

\* Of a leaf with a delivered witness there is a tip and an owner.
LEMMA ToldHasTip ==
    ASSUME IInv, ByLeafInv, ReaderInv, NEW t \in told
    PROVE  leaf_to_tips[t.leaf][t.method] # NoEpoch /\ leaf_owner[t.leaf] # NoDid
<1>1. t.epoch \in Epoch /\ t.method \in Method /\ t.leaf \in Leaf
    BY DEF ReaderInv, ReaderTypeOK
<1>2. witnesses[t.epoch][t.method] # NoAnchor /\ epoch_leaves[t.epoch][t.leaf] # NoDid
    BY DEF ReaderInv, ToldInv
<1>3. t.epoch \in sealed
    BY <1>1, <1>2, ServedIsSealed
<1>4. HasTip(t.leaf, t.method) /\ OwnerRow(t.leaf)
    BY <1>1 DEF ByLeafInv
<1> QED
    BY <1>1, <1>2, <1>3, <1>4 DEF HasTip, OwnerRow

\* The by-leaf handler: a tip that is not there was never delivered, so neither
\* was one to a caller that is told 202, 404 or 503.
LEMMA ByLeafHandler ==
    ASSUME IInv, ByLeafInv, ReaderInv, ReadOwner \/ ReadTip \/ ReadLookup
    PROVE  ReaderInv'
<1>1. /\ req \in Request /\ req.route = "by_leaf" /\ req.status = "none" /\ req.pc # "done"
      /\ UNCHANGED vars
    BY DEF ReadOwner, ReadTip, ReadLookup, ReaderInv, ReaderTypeOK, RouteInv
<1>2. PICK l \in Leaf : req.leaves = {l}
    BY <1>1 DEF ReaderInv, RouteInv
<1>3. req.did \in Did /\ req.method \in Method
    BY <1>1 DEF Request
<1>4. UNCHANGED <<sealed, pending, epoch_leaves, witnesses>>
    BY <1>1 DEF vars, storeVars
<1>5. CASE ReadOwner
  <2>1. told' = told
    BY <1>5 DEF ReadOwner
  <2>2. ASSUME NEW status \in {"404", "403"}, Reply(status, {}),
               status = "404" => leaf_owner[l] = NoDid
        PROVE  ReaderInv'
    <3>1. ReaderTypeOK' /\ ToldInv'
      BY <1>4, <2>1, <2>2, ReplyType DEF ReaderInv, ReaderTypeOK, ToldInv, Status
    <3>2. status = "404" => \A t \in told : ~WasTold(t)
      BY <1>2, <2>2, ToldHasTip DEF WasTold
    <3> QED
      BY <1>1, <2>1, <2>2, <3>1, <3>2, ReplyInv DEF Status
  <2>3. ASSUME Go("tip")
        PROVE  ReaderInv'
    BY <1>1, <2>1, <2>3, GoInv DEF Go, ReadPc
  <2> QED
    BY <1>2, <1>5, <2>2, <2>3 DEF ReadOwner
<1>6. CASE ReadTip
  <2>1. CASE leaf_to_tips[l][req.method] # NoEpoch
    <3> DEFINE e == leaf_to_tips[l][req.method]
    <3>1. Reply("200", {l}) /\ Deliver(e, {l})
      BY <1>2, <1>6, <2>1 DEF ReadTip
    <3>2. e \in Epoch /\ witnesses[e][req.method] # NoAnchor /\ epoch_leaves[e][l] # NoDid
      BY <1>3, <2>1, RowTypes DEF EpochTable, ByLeafInv, TipRow
    <3>3. told' = told \cup {[did |-> req.did, epoch |-> e, leaf |-> l, method |-> req.method]}
      BY <3>1 DEF Deliver
    <3> HIDE DEF e
    <3>4. ReaderTypeOK'
      BY <1>3, <3>1, <3>2, <3>3, ReplyType DEF ReaderInv, ReaderTypeOK, Status
    <3>5. ToldInv'
      BY <1>4, <3>2, <3>3 DEF ReaderInv, ToldInv
    <3> QED
      BY <1>1, <3>1, <3>4, <3>5, ReplyInv DEF Status
  <2>2. CASE leaf_to_tips[l][req.method] = NoEpoch
    <3>1. Go("lookup") /\ told' = told
      BY <1>2, <1>6, <2>2 DEF ReadTip
    <3>2. \A t \in told : ~WasTold(t)
      BY <1>2, <2>2, ToldHasTip DEF WasTold
    <3> QED
      BY <1>1, <3>1, <3>2, GoInv DEF Go, ReadPc
  <2> QED
    BY <2>1, <2>2
<1>7. CASE ReadLookup
  <2>1. told' = told /\ \A t \in told : ~WasTold(t)
    BY <1>1, <1>7 DEF ReadLookup, ReaderInv, UntoldInv
  <2>2. CASE pending_leaves[l][req.method] # NoEpoch
    <3>1. req' = [req EXCEPT !.pc = "stalled", !.epoch = pending_leaves[l][req.method]]
      BY <1>2, <1>7, <2>2 DEF ReadLookup
    <3>2. pending_leaves[l][req.method] \in Epoch
      BY <1>3, <2>2, RowTypes DEF EpochTable
    <3>3. /\ req' \in Request /\ req'.pc = "stalled" /\ req'.status = "none"
          /\ req'.route = "by_leaf" /\ req'.did = req.did /\ req'.leaves = req.leaves
          /\ req'.method = req.method
      BY <1>1, <3>1, <3>2 DEF Request, ReadPc
    <3>4. ReaderTypeOK' /\ RouteInv' /\ UnionInv' /\ ToldInv'
      BY <1>2, <1>4, <2>1, <3>3 DEF ReaderInv, ReaderTypeOK, RouteInv, UnionInv, ToldInv
    <3>5. UntoldInv'
      BY <2>1, <3>3 DEF UntoldInv, WasTold
    <3> QED
      BY <3>4, <3>5 DEF ReaderInv
  <2>3. CASE pending_leaves[l][req.method] = NoEpoch
    <3>1. Reply("404", {})
      BY <1>2, <1>7, <2>3 DEF ReadLookup
    <3>2. ReaderTypeOK' /\ ToldInv'
      BY <1>4, <2>1, <3>1, ReplyType DEF ReaderInv, ReaderTypeOK, ToldInv, Status
    <3> QED
      BY <1>1, <2>1, <3>1, <3>2, ReplyInv DEF Status
  <2> QED
    BY <2>2, <2>3
<1> QED
    BY <1>5, <1>6, <1>7

\* anchor_stalled, of either route.
LEMMA StalledHandler ==
    ASSUME ReaderInv, ReadStalled
    PROVE  ReaderInv'
<1>1. req \in Request /\ req.pc = "stalled" /\ UNCHANGED <<vars, told>>
    BY DEF ReadStalled, ReaderInv, ReaderTypeOK
<1>2. PICK status \in {"503", "202"} : Reply(status, {})
    BY DEF ReadStalled
<1>3. ReaderTypeOK' /\ ToldInv'
    BY <1>1, <1>2, ReplyType DEF ReaderInv, ReaderTypeOK, ToldInv, Status, vars, storeVars
<1>4. req.route = "by_leaf" => \A t \in told : ~WasTold(t)
    BY <1>1 DEF ReaderInv, UntoldInv
<1> QED
    BY <1>1, <1>2, <1>3, <1>4, ReplyInv DEF Status

\* The union handler: between its reads the sealer may serve the method, but
\* cannot make a method pending that was not.
LEMMA UnionHandler ==
    ASSUME IInv, ReaderInv, ReadEpoch \/ ReadPending \/ ReadList
    PROVE  ReaderInv'
<1>1. /\ req \in Request /\ req.route = "union" /\ req.pc # "done" /\ UNCHANGED vars
      /\ req.epoch \in Epoch /\ req.did \in Did /\ req.method \in Method
    BY DEF ReadEpoch, ReadPending, ReadList, ReaderInv, ReaderTypeOK, RouteInv, Request
<1>2. UNCHANGED <<sealed, pending, epoch_leaves, witnesses>>
    BY <1>1 DEF vars, storeVars
<1>3. CASE ReadEpoch
  <2>1. told' = told
    BY <1>3 DEF ReadEpoch
  <2>2. CASE req.epoch \in sealed
    BY <1>1, <1>3, <2>1, <2>2, GoInv DEF ReadEpoch, Go, ReadPc
  <2>3. CASE req.epoch \notin sealed
    <3>1. Reply("404", {})
      BY <1>3, <2>3 DEF ReadEpoch
    <3>2. ReaderTypeOK' /\ ToldInv'
      BY <1>2, <2>1, <3>1, ReplyType DEF ReaderInv, ReaderTypeOK, ToldInv, Status
    <3> QED
      BY <1>1, <3>1, <3>2, ReplyInv DEF Status
  <2> QED
    BY <2>2, <2>3
<1>4. CASE ReadPending
  <2>1. told' = told /\ req.epoch \in sealed
    BY <1>1, <1>4 DEF ReadPending, ReaderInv, UnionInv
  <2> QED
    BY <1>1, <1>4, <2>1, GoInv DEF ReadPending, Go, ReadPc
<1>5. CASE ReadList
  <2> DEFINE found == WitnessesOf(req.did, req.epoch, req.method)
  <2>1. Reply("200", found) /\ Deliver(req.epoch, found)
    BY <1>5 DEF ReadList
  <2>2. req.epoch \in sealed /\ req.method \notin pending[req.epoch].methods
    BY <1>1, <1>5 DEF ReadList, ReaderInv, UnionInv
  <2>3. /\ found \in SUBSET Leaf
        /\ \/ found = {l \in Leaf : epoch_leaves[req.epoch][l] = req.did}
           \/ witnesses[req.epoch][req.method] = NoAnchor
        /\ \A l \in found : /\ witnesses[req.epoch][req.method] # NoAnchor
                            /\ epoch_leaves[req.epoch][l] = req.did
    BY DEF WitnessesOf
  <2> HIDE DEF found
  <2>4. ReaderTypeOK'
    BY <1>1, <2>1, <2>3, ReplyType DEF ReaderInv, ReaderTypeOK, Status, Deliver
  <2>5. ToldInv'
    BY <1>1, <1>2, <2>1, <2>3 DEF ReaderInv, ToldInv, Deliver
  <2> QED
    BY <1>1, <2>1, <2>2, <2>3, <2>4, <2>5, ReplyInv DEF Status
<1> QED
    BY <1>3, <1>4, <1>5

\* The tip handler: a tip that was delivered is known.
LEMMA TipHandler ==
    ASSUME IInv, ReaderInv, ReadPair
    PROVE  ReaderInv'
<1>1. /\ req \in Request /\ req.route = "tip" /\ UNCHANGED <<vars, told>>
    BY DEF ReadPair, ReaderInv, ReaderTypeOK, RouteInv
<1>2. PICK l \in Leaf : req.leaves = {l}
    BY <1>1 DEF ReaderInv, RouteInv
<1>3. PICK status \in {"404", "200", "403"}, body \in SUBSET Leaf :
          /\ Reply(status, body)
          /\ status = "404" =>
                witnesses[req.epoch][req.method] = NoAnchor \/ epoch_leaves[req.epoch][l] = NoDid
    BY <1>2 DEF ReadPair
<1>4. ReaderTypeOK' /\ ToldInv'
    BY <1>1, <1>3, ReplyType DEF ReaderInv, ReaderTypeOK, ToldInv, Status, vars, storeVars
<1>5. status = "404" => \A t \in told : WasTold(t) => t.epoch # req.epoch
    BY <1>2, <1>3 DEF ReaderInv, ToldInv, WasTold
<1> QED
    BY <1>1, <1>3, <1>4, <1>5, ReplyInv DEF Status

\* Every step of the sealer, of a request and of its handler keeps the invariant.
LEMMA ReaderNextInv ==
    ASSUME IInv, ByLeafInv, ReaderInv, [ReaderNext]_readVars
    PROVE  ReaderInv'
<1>1. CASE UNCHANGED readVars
  <2>1. UNCHANGED <<req, told, sealed, pending, epoch_leaves, witnesses>>
    BY <1>1 DEF readVars, vars, storeVars
  <2> QED
    BY <2>1 DEF ReaderInv, ReaderTypeOK, RouteInv, UnionInv, ToldInv, UntoldInv, WasTold
<1>2. CASE ServerStep
    BY <1>2, ServerStepInv
<1>3. CASE ReadStep
    BY <1>3, ByLeafHandler, StalledHandler, UnionHandler, TipHandler DEF ReadStep
<1> QED
    BY <1>1, <1>2, <1>3, ArriveInv DEF ReaderNext

\* The routes write nothing: under them the sealer's invariants hold as before.
LEMMA ReaderKeepsStore ==
    ASSUME IInv, ByLeafInv, [ReaderNext]_readVars
    PROVE  IInv' /\ ByLeafInv'
<1>1. [Next]_vars
    BY DEF ReaderNext, readVars, ServerStep, ReadStep, ReadOwner, ReadTip, ReadLookup, ReadStalled,
        ReadEpoch, ReadPending, ReadList, ReadPair, AskByLeaf, AskUnion, AskTip, Arrive
<1> QED
    BY <1>1, NextInv, ByLeafNext

\* The three invariants together.
THEOREM ReaderInvariance == ReaderSpec => [](IInv /\ ByLeafInv /\ ReaderInv)
<1>1. ReaderInit => IInv /\ ByLeafInv /\ ReaderInv
    BY InitInv, ByLeafInit, ReaderInitInv DEF ReaderInit
<1>2. IInv /\ ByLeafInv /\ ReaderInv /\ [ReaderNext]_readVars => (IInv /\ ByLeafInv /\ ReaderInv)'
    BY ReaderNextInv, ReaderKeepsStore
<1> QED
    BY <1>1, <1>2, PTL DEF ReaderSpec

\* union_for_epoch never answers 200 with less than all of the caller's
\* witnesses of a method the epoch was sealed with: the sealer's writes between
\* get_epoch, is_epoch_pending and the listing cannot make a pending epoch pass
\* for an empty one.
THEOREM UnionIsComplete == ReaderSpec => []UnionComplete
<1>1. ReaderInv => UnionComplete
    BY DEF ReaderInv, UnionInv, UnionComplete, Answered
<1> QED
    BY <1>1, ReaderInvariance, PTL

\* No route takes back a witness that one route delivered, whatever is
\* resubmitted, settled or restarted in between.
THEOREM DeliveredIsKept == ReaderSpec => []DeliveredStays
<1>1. ReaderInv => DeliveredStays
    BY DEF ReaderInv, UntoldInv, WasTold, DeliveredStays, Answered
<1> QED
    BY <1>1, ReaderInvariance, PTL

=============================================================================
