---------------------------- MODULE LedgerProofs ----------------------------
(***************************************************************************)
(* Proof that the sealer implements the ledger, from the inductive         *)
(* invariant of SealerProofs.                                              *)
(***************************************************************************)
EXTENDS SealerProofs, SealerLedger

USE AccumulatorAssumption, PendingAssumption, StoreAssumption,
    ProviderAssumption, SealerAssumption

\* A fresh store is an empty ledger.
LEMMA InitLedger == Init => L!LedgerInit
<1> SUFFICES ASSUME Init PROVE L!LedgerInit
    OBVIOUS
<1>1. /\ sealed = {} /\ epoch_leaves = [e \in Epoch |-> NoLeaves]
      /\ pending = [e \in Epoch |-> NoPending]
      /\ witnesses = [e \in Epoch |-> [m \in Method |-> NoAnchor]]
    BY DEF Init, StoreInit
<1>2. \A e \in Epoch : pending[e].methods = {}
    BY <1>1 DEF NoPending, NewPending
<1>3. Standing = [e \in Epoch |-> [m \in Method |-> "none"]]
    BY <1>1, <1>2 DEF Standing
<1> QED
    BY <1>1, <1>3 DEF L!LedgerInit

\* A step that moves no row of the ledger is a stutter of it.
LEMMA QuietLedger ==
    ASSUME IInv, QuietStep
    PROVE  UNCHANGED L!ledgerVars
<1>1. Standing' = Standing
    BY DEF QuietStep, Standing
<1> QED
    BY <1>1 DEF QuietStep, L!ledgerVars

\* An epoch that is not sealed yet, or is the empty one at the bound, stands
\* nowhere.
LEMMA NotEntered ==
    ASSUME IInv, NEW e \in Epoch, e \notin sealed \/ e = MaxEpoch
    PROVE  \A m \in Method : m \notin pending[e].methods /\ witnesses[e][m] = NoAnchor
<1> TAKE m \in Method
<1>1. pending[e].methods = {} /\ issued[e][m] = 0
    BY DEF IInv, UntouchedInv
<1>2. Balanced(e, m)
    BY DEF IInv, AccountInv
<1>3. unsaved[e][m] \in Nat /\ pending[e].faults[m] \in Nat
    BY DEF IInv, TypeOK, Counts, StoreTypeOK, PendingRecord
<1> QED
    BY <1>1, <1>2, <1>3 DEF Balanced, One

\* Persisting the closed epoch enters it, or writes nothing, or writes the
\* empty epoch at the bound over itself.
LEMMA PersistLedger ==
    ASSUME IInv, NEW o \in Outcome, PersistEpoch(o)
    PROVE  L!LedgerNext \/ UNCHANGED L!ledgerVars
<1> DEFINE e == snap.id
           r == RecordFor(snap)
<1>1. /\ e \in Epoch /\ Above(e) /\ sealed \subseteq Epoch
      /\ snap.leaves \in LeafMap
      /\ e = MaxEpoch => snap.leaves = NoLeaves
      /\ epoch_leaves[MaxEpoch] = NoLeaves
      /\ epoch_leaves \in [Epoch -> LeafMap] /\ pending \in [Epoch -> PendingRecord]
    BY DEF PersistEpoch, IInv, IdInv, TypeOK, StoreTypeOK
<1>2. e \in sealed => e = MaxEpoch
    BY <1>1 DEF Above, Epoch
<1>3. /\ witnesses' = witnesses
      /\ \/ /\ sealed' = sealed \cup {e}
            /\ epoch_leaves' = [epoch_leaves EXCEPT ![e] = snap.leaves]
            /\ pending' = [pending EXCEPT ![e] = r]
         \/ UNCHANGED <<sealed, epoch_leaves, pending>>
    BY DEF PersistEpoch, persist_sealed_epoch_with_pending
<1>4. r.methods \in SUBSET Method
    BY DEF RecordFor, NoPending, NewPending, IInv, TypeOK
<1>5. e = MaxEpoch => r.methods = {}
    BY <1>1 DEF RecordFor, NoPending, NewPending, LeavesIn, NoLeaves
<1>6. \A m \in Method : m \notin pending[e].methods /\ witnesses[e][m] = NoAnchor
    BY <1>1, <1>2, NotEntered
<1> HIDE DEF e, r
<1>7. CASE UNCHANGED <<sealed, epoch_leaves, pending>>
  <2>1. QuietStep
    BY <1>3, <1>7 DEF QuietStep
  <2> QED
    BY <2>1, QuietLedger
<1>8. CASE /\ sealed' = sealed \cup {e}
           /\ epoch_leaves' = [epoch_leaves EXCEPT ![e] = snap.leaves]
           /\ pending' = [pending EXCEPT ![e] = r]
  <2>1. CASE e \in sealed
    <3>1. epoch_leaves' = epoch_leaves
      BY <1>1, <1>2, <1>8, <2>1
    <3>2. \A f \in Epoch : pending'[f].methods = pending[f].methods
      <4>1. pending'[e].methods = pending[e].methods
        <5>1. pending'[e] = r
          BY <1>1, <1>8
        <5>2. pending[e].methods \subseteq Method
          BY <1>1 DEF PendingRecord
        <5>3. pending[e].methods = {}
          BY <1>6, <5>2
        <5> QED
          BY <1>2, <1>5, <2>1, <5>1, <5>3
      <4> QED
        BY <1>1, <1>8, <4>1
    <3>3. QuietStep
      BY <1>3, <1>8, <2>1, <3>1, <3>2 DEF QuietStep
    <3> QED
      BY <3>3, QuietLedger
  <2>2. CASE e \notin sealed
    <3>1. \A f \in sealed : f < e
      <4>1. CASE e = MaxEpoch
        BY <1>1, <2>2, <4>1 DEF Epoch
      <4>2. CASE e # MaxEpoch
        BY <1>1, <4>2 DEF Above
      <4> QED
        BY <4>1, <4>2
    <3>2. Standing' = [Standing EXCEPT ![e] =
                        [m \in Method |-> IF m \in r.methods THEN "pending" ELSE "none"]]
      <4>1. \A f \in Epoch : f # e => pending'[f] = pending[f]
        BY <1>1, <1>8
      <4>2. pending'[e] = r
        BY <1>1, <1>8
      <4> QED
        BY <1>1, <1>3, <1>6, <4>1, <4>2 DEF Standing
    <3>3. L!Enter(e, snap.leaves, r.methods)
      BY <1>8, <3>1, <3>2 DEF L!Enter
    <3> QED
      BY <1>1, <1>4, <3>3 DEF L!LedgerNext
  <2> QED
    BY <2>1, <2>2
<1> QED
    BY <1>3, <1>7, <1>8

\* Writing the witnesses of a method serves it, or writes nothing.
LEMMA ServeLedger ==
    ASSUME IInv, NEW o \in Outcome, Serve(o)
    PROVE  L!LedgerNext \/ UNCHANGED L!ledgerVars
<1> DEFINE r == Remaining(rec, meth)
           a == rec.anchor[meth]
<1>1. pc = "serve" /\ persist_pending_minted(cur, r, meth, a, o)
    BY DEF Serve
<1>2. /\ cur \in Epoch /\ meth \in Method /\ rec \in PendingRecord
      /\ meth \in todo /\ cur # NoEpoch
      /\ a # NoAnchor /\ (~poisoned => rec.methods = pending[cur].methods)
    BY <1>1, InFlight DEF Follows
<1>3. meth \in pending[cur].methods /\ witnesses[cur][meth] = NoAnchor
    BY <1>2 DEF IInv, MemoryInv, PendingOrServed
<1>4. r.methods = rec.methods \ {meth}
    BY <1>2, RemainingRecord
<1> HIDE DEF r, a
<1>5. Applied(o) => ~poisoned
    BY <1>1 DEF persist_pending_minted, Commit, WriteOutcomes, Applied
<1>6. /\ UNCHANGED <<sealed, epoch_leaves>>
      /\ pending' = IF Applied(o) THEN [pending EXCEPT ![cur] = r] ELSE pending
      /\ witnesses' = IF Applied(o) THEN [witnesses EXCEPT ![cur][meth] = a] ELSE witnesses
    BY <1>1 DEF persist_pending_minted
<1>7. /\ pending \in [Epoch -> PendingRecord]
      /\ witnesses \in [Epoch -> [Method -> Anchor \cup {NoAnchor}]]
    BY DEF IInv, TypeOK, StoreTypeOK
<1>8. CASE ~Applied(o)
  <2>1. QuietStep
    BY <1>6, <1>8 DEF QuietStep
  <2> QED
    BY <2>1, QuietLedger
<1>9. CASE Applied(o)
  <2>1. \A e \in Epoch, m \in Method :
           /\ witnesses'[e][m] = IF e = cur /\ m = meth THEN a ELSE witnesses[e][m]
           /\ (m \in pending'[e].methods) <=>
                (m \in pending[e].methods /\ ~(e = cur /\ m = meth))
    BY <1>2, <1>4, <1>5, <1>6, <1>7, <1>9
  <2>2. Standing[cur][meth] = "pending"
    BY <1>2, <1>3 DEF Standing
  <2>3. Standing' = [Standing EXCEPT ![cur] = [Standing[cur] EXCEPT ![meth] = "served"]]
    <3>1. \A e \in Epoch, m \in Method :
             Standing'[e][m] = IF e = cur /\ m = meth THEN "served" ELSE Standing[e][m]
      BY <1>2, <2>1 DEF Standing
    <3>2. /\ Standing \in [Epoch -> [Method -> {"none", "pending", "served"}]]
          /\ Standing' \in [Epoch -> [Method -> {"none", "pending", "served"}]]
      BY DEF Standing
    <3> HIDE DEF Standing
    <3> QED
      BY <1>2, <3>1, <3>2
  <2>4. cur \in sealed
    BY <1>2, <1>3 DEF IInv, UntouchedInv
  <2>5. L!Witness(cur, meth)
    BY <1>6, <2>2, <2>3, <2>4 DEF L!Witness
  <2> QED
    BY <1>2, <2>5 DEF L!LedgerNext
<1> QED
    BY <1>8, <1>9

----------------------------------------------------------------------------

\* seal_once, submissions, restarts and failing writes together implement a
\* ledger that only grows, for any leaves, methods, caps and failures.
THEOREM SealerImplementsLedger == Spec => ImplementsLedger
<1>1. Init => L!LedgerInit
    BY InitLedger
<1>2. IInv /\ [Next]_vars => [L!LedgerNext]_(L!ledgerVars)
  <2> SUFFICES ASSUME IInv, [Next]_vars
               PROVE  L!LedgerNext \/ UNCHANGED L!ledgerVars
    OBVIOUS
  <2>1. CASE \E o \in Outcome : PersistEpoch(o)
    BY <2>1, PersistLedger
  <2>2. CASE \E o \in Outcome : Serve(o)
    BY <2>2, ServeLedger
  <2>3. CASE ~\E o \in Outcome : PersistEpoch(o) \/ Serve(o)
    BY <2>3, OtherStepsQuiet, QuietLedger
  <2> QED
    BY <2>1, <2>2, <2>3
<1> QED
    BY <1>1, <1>2, Invariance, PTL DEF Spec, ImplementsLedger, L!LedgerSpec

=============================================================================
