----------------------------- MODULE SealerInv -----------------------------
(***************************************************************************)
(* The inductive invariant behind the safety properties of Sealer, as a    *)
(* conjunction of named parts.                                             *)
(***************************************************************************)
EXTENDS Sealer

One(b) == IF b THEN 1 ELSE 0

\* Every sealed id is below id, or id has reached the bound.
Above(id) == \A e \in sealed : e < id \/ id = MaxEpoch

\* Ids: a sealed epoch is below the open one, also while one is in flight.
IdInv ==
    /\ Above(epoch_id)
    /\ epoch_id = MaxEpoch => leaves = NoLeaves
    /\ snap.id = MaxEpoch => snap.leaves = NoLeaves
    /\ epoch_leaves[MaxEpoch] = NoLeaves
    /\ sealed # {} => \E e \in sealed : \A f \in sealed : f <= e
    /\ IF pc = "persist"
         THEN snap.id \in Epoch /\ Above(snap.id) /\ epoch_id = NextEpochId(snap.id)
         ELSE snap.id = NoEpoch

\* Acknowledged leaves are kept; acknowledgements carry a boot already seen.
AckInv ==
    /\ \A a \in acked : a.boot <= crashes /\ a.epoch # MaxEpoch
    /\ AckedLeavesKept

\* Nothing is outstanding, paid or served for an epoch that is not sealed (or
\* is the empty one at the bound).
UntouchedInv ==
    \A e \in Epoch : e \notin sealed \/ e = MaxEpoch =>
        /\ pending[e].methods = {}
        /\ \A m \in Method : issued[e][m] = 0

\* How a record r of the current epoch may differ from the stored one, per
\* method: it is equal, or it holds an anchor not saved yet, or it has dropped
\* the stored one and counted the fault.
SameAs(r, m) ==
    /\ r.anchor[m] = pending[cur].anchor[m]
    /\ r.faults[m] = pending[cur].faults[m]

Gained(r, m) ==
    /\ pending[cur].anchor[m] = NoAnchor
    /\ r.anchor[m] # NoAnchor
    /\ r.faults[m] = pending[cur].faults[m]
    /\ unsaved[cur][m] > 0

Dropped(r, m) ==
    /\ pending[cur].anchor[m] # NoAnchor
    /\ r.anchor[m] = NoAnchor
    /\ r.faults[m] = pending[cur].faults[m] + 1

Follows(r) ==
    /\ r.methods = pending[cur].methods
    /\ \A m \in Method : SameAs(r, m) \/ Gained(r, m) \/ Dropped(r, m)

\* An anchor is held only for a pending method below the fault cap.
WellFormed(r) ==
    \A m \in Method :
        r.anchor[m] # NoAnchor => m \in r.methods /\ r.faults[m] < MaxAnchorFaults

\* The in-memory record against the stored one.  Once fjall refuses writes
\* the two may drift apart, but only until the process is restarted.
MemoryInv ==
    /\ pc \in {"idle", "persist"} => cur = NoEpoch
    /\ cur = NoEpoch => todo = {} /\ pc \in {"idle", "settle", "persist"}
    /\ cur # NoEpoch =>
        /\ todo \subseteq pending[cur].methods
        /\ todo \subseteq rec.methods
        /\ ~poisoned => Follows(rec)
        /\ \A m \in todo : m # meth => SameAs(rec, m)
    /\ pc \in {"idle", "settle", "persist"} => meth = NoMethod
    /\ pc = "store" => meth \in todo /\ Gained(rec, meth)
    /\ pc \in {"check", "serve"} =>
          meth \in todo /\ SameAs(rec, meth) /\ rec.anchor[meth] # NoAnchor
    /\ WellFormed(rec)

\* Every anchor ever paid for an (epoch, method) was found at fault, is held,
\* is served, or never reached the store.
Balanced(e, m) ==
    /\ issued[e][m] = pending[e].faults[m] + unsaved[e][m]
                        + One(pending[e].anchor[m] # NoAnchor)
                        + One(witnesses[e][m] # NoAnchor)
    /\ witnesses[e][m] # NoAnchor => pending[e].faults[m] < MaxAnchorFaults

\* Each of the last kind is the work of one crash or one failed store_anchor,
\* or is being stored now.
UnsavedBound(e, m) ==
    unsaved[e][m] <= crashes + storeFails
                       + One(pc = "store" /\ cur = e /\ meth = m)

AccountInv ==
    /\ \A e \in Epoch : WellFormed(pending[e])
    /\ \A e \in Epoch, m \in Method : Balanced(e, m) /\ UnsavedBound(e, m)

IInv ==
    /\ TypeOK
    /\ IdInv
    /\ AckInv
    /\ UntouchedInv
    /\ MemoryInv
    /\ AccountInv
    /\ PendingOrServed

----------------------------------------------------------------------------

\* Every anchor r holds for epoch e exists outside and was made for e.
HeldFor(e, r) ==
    \A m \in Method : r.anchor[m] # NoAnchor =>
        /\ chain[r.anchor[m]].epoch = e
        /\ chain[r.anchor[m]].method = m
        /\ chain[r.anchor[m]].status # "unused"

\* Stored and in-memory records hold their own epoch's anchors only, and what
\* is about to be served is confirmed.  Inductive together with IInv.
ChainInv ==
    /\ \A e \in Epoch : HeldFor(e, pending[e])
    /\ cur # NoEpoch => HeldFor(cur, rec)
    /\ pc = "serve" => chain[rec.anchor[meth]].status = "confirmed"
    /\ ServedIsAnchored

----------------------------------------------------------------------------

\* The cap holds before an epoch is sealed too: in the open epoch and in the
\* snapshot on its way to the store.
CapInv ==
    /\ Cardinality(LeavesIn(leaves)) <= LeafCap
    /\ Cardinality(LeavesIn(snap.leaves)) <= LeafCap
    /\ EpochWithinCap

----------------------------------------------------------------------------
(* What get_tree_by_leaf reads of leaf l under method m. *)

\* The lookup names an epoch that is pending and holds the leaf.
LookupRow(l, m) ==
    pending_leaves[l][m] # NoEpoch =>
        /\ m \in pending[pending_leaves[l][m]].methods
        /\ epoch_leaves[pending_leaves[l][m]][l] # NoDid

\* The tip names an epoch that is served and holds the leaf ...
TipRow(l, m) ==
    leaf_to_tips[l][m] # NoEpoch =>
        /\ witnesses[leaf_to_tips[l][m]][m] # NoAnchor
        /\ epoch_leaves[leaf_to_tips[l][m]][l] # NoDid

\* ... and there is one as soon as any epoch of the leaf is served.
HasTip(l, m) ==
    \A e \in Epoch :
        witnesses[e][m] # NoAnchor /\ epoch_leaves[e][l] # NoDid => leaf_to_tips[l][m] # NoEpoch

\* The newest epoch of the leaf, while it is pending, is the lookup's.
NewestInLookup(l, m) ==
    \A e \in Epoch :
        /\ m \in pending[e].methods /\ epoch_leaves[e][l] # NoDid
        /\ \A f \in Epoch : f > e => ~WitnessedIn(f, l, m)
        => pending_leaves[l][m] = e

OwnerRow(l) == \A e \in sealed : epoch_leaves[e][l] # NoDid => leaf_owner[l] # NoDid

\* Inductive together with IInv, and stronger than ByLeafConsistent: a tip is
\* there for every served epoch of a leaf, not only when that is the newest.
ByLeafInv ==
    /\ \A l \in Leaf, m \in Method :
          LookupRow(l, m) /\ TipRow(l, m) /\ HasTip(l, m) /\ NewestInLookup(l, m)
    /\ \A l \in Leaf : OwnerRow(l)

============================================================================
