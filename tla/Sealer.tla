------------------------------- MODULE Sealer -------------------------------
(***************************************************************************)
(* The aggregator core: leaf submission (routes.rs, submit_leaves) running *)
(* concurrently with the sealer task (sealer.rs, seal_once), over the      *)
(* durable Store, with the anchor providers outside and with process       *)
(* crashes.                                                                *)
(*                                                                         *)
(* One seal tick is seal_once: settle every pending epoch, oldest first    *)
(* (retry_pending); swap the accumulator; persist the closed epoch with    *)
(* every enabled method pending; settle the new epoch.  It awaits provider *)
(* calls and self-checks, so it is cut into the steps between which        *)
(* submissions, reads of the store, the chain and a crash can occur:       *)
(*                                                                         *)
(*   idle --StartTick--> settle <--> store / check / serve                 *)
(*   settle --CloseEpoch--> persist --PersistEpoch--> settle --> idle      *)
(*                                                                         *)
(* The sealer is the only writer of pending records, so the records listed *)
(* at the start of retry_pending are still the stored ones when their turn *)
(* comes; the model keeps the list of ids and loads the record then.       *)
(***************************************************************************)
EXTENDS Store, AnchorProvider

CONSTANTS
    Configs,        \* the sets of methods a deployment may enable
    MaxCrashes      \* bound: crashes in a behaviour

ASSUME SealerAssumption ==
    /\ Configs \subseteq SUBSET Method
    /\ Configs # {}
    /\ MaxCrashes \in Nat

VARIABLES
    enabled,    \* WitnessContext.methods of this process
    pc,         \* where seal_once is
    phase,      \* "retry" in retry_pending, "new" on the epoch just closed
    queue,      \* retry_pending: pending epochs still to visit
    cur,        \* the epoch being settled, or NoEpoch
    rec,        \* its pending record, in memory
    todo,       \* its methods still to settle this tick
    meth,       \* the method in settle_method past its first step
    down,       \* methods whose provider failed this tick
    snap        \* the closed epoch, between the swap and the persist

sealerVars == <<enabled, pc, phase, queue, cur, rec, todo, meth, down, snap>>

\* History variables: no action depends on them (but for the bound on crashes);
\* the properties do.
VARIABLES
    acked,       \* leaves answered 202: [leaf, did, epoch, boot]
    failedSeals, \* epochs of this process whose persist returned an error
    issued,      \* epoch |-> method |-> anchors the provider returned
    unsaved,     \* epoch |-> method |-> of those, never yet in the store
    storeFails,  \* times store_anchor gave up
    crashes      \* crashes so far

historyVars == <<acked, failedSeals, issued, unsaved, storeFails, crashes>>

vars == <<accVars, storeVars, chain, sealerVars, historyVars>>

NoSnap == [id |-> NoEpoch, leaves |-> NoLeaves]

Counts == [Epoch -> [Method -> Nat]]

TypeOK ==
    /\ AccTypeOK
    /\ StoreTypeOK
    /\ ChainTypeOK
    /\ enabled \in SUBSET Method
    /\ pc \in {"idle", "settle", "store", "check", "serve", "persist"}
    /\ phase \in {"retry", "new"}
    /\ queue \in SUBSET Epoch
    /\ cur \in Epoch \cup {NoEpoch}
    /\ rec \in PendingRecord
    /\ todo \in SUBSET Method
    /\ meth \in Method \cup {NoMethod}
    /\ down \in SUBSET Method
    /\ snap \in [id : Epoch \cup {NoEpoch}, leaves : LeafMap]
    /\ acked \in SUBSET [leaf : Leaf, did : Did, epoch : Epoch, boot : Nat]
    /\ failedSeals \in SUBSET Epoch
    /\ issued \in Counts
    /\ unsaved \in Counts
    /\ storeFails \in Nat
    /\ crashes \in Nat

Init ==
    /\ epoch_id = 1
    /\ leaves = NoLeaves
    /\ StoreInit
    /\ ChainInit
    /\ enabled \in Configs
    /\ pc = "idle"
    /\ phase = "retry"
    /\ queue = {}
    /\ cur = NoEpoch
    /\ rec = NoPending
    /\ todo = {}
    /\ meth = NoMethod
    /\ down = {}
    /\ snap = NoSnap
    /\ acked = {}
    /\ failedSeals = {}
    /\ issued = [e \in Epoch |-> [m \in Method |-> 0]]
    /\ unsaved = [e \in Epoch |-> [m \in Method |-> 0]]
    /\ storeFails = 0
    /\ crashes = 0

----------------------------------------------------------------------------
(* Submission: POST /v1/leaves. *)

\* A batch accepted into the open epoch; its 202 names that epoch.
submit_leaves(batch, did) ==
    /\ epoch_id < MaxEpoch
    /\ append_batch(batch, did)
    /\ acked' = acked \cup
          {[leaf |-> l, did |-> leaves'[l], epoch |-> epoch_id, boot |-> crashes] : l \in batch}
    /\ UNCHANGED <<storeVars, chain, sealerVars, failedSeals, issued, unsaved,
                   storeFails, crashes>>

----------------------------------------------------------------------------
(* retry_pending: the loop over pending epochs and their methods. *)

\* A tick starts with the pending epochs it read from the store.
StartTick(listed) ==
    /\ pc = "idle"
    /\ pc' = "settle"
    /\ phase' = "retry"
    /\ queue' = listed
    /\ down' = {}
    /\ pending' = [e \in Epoch |-> Older(pending[e])]
    /\ UNCHANGED <<accVars, chain, historyVars, enabled, cur, rec, todo, meth, snap,
                   sealed, epoch_leaves, pending_leaves, leaf_to_tips, witnesses,
                   leaf_owner, poisoned>>

\* Faulty variant: only the oldest pending epoch is retried.
NextPendingOnlyOldest ==
    /\ pc = "settle" /\ phase = "retry" /\ todo = {}
    /\ \E e \in queue :
          /\ \A f \in queue : e <= f
          /\ queue' = {}
          /\ cur' = e
          /\ rec' = pending[e]
          /\ todo' = pending[e].methods
    /\ UNCHANGED <<accVars, storeVars, chain, historyVars, enabled, pc, phase, meth,
                   down, snap>>

\* The oldest pending epoch not visited yet.
NextPending ==
    /\ pc = "settle" /\ phase = "retry" /\ todo = {}
    /\ \E e \in queue :
          /\ \A f \in queue : e <= f
          /\ queue' = queue \ {e}
          /\ cur' = e
          /\ rec' = pending[e]
          /\ todo' = pending[e].methods
    /\ UNCHANGED <<accVars, storeVars, chain, historyVars, enabled, pc, phase, meth,
                   down, snap>>

----------------------------------------------------------------------------
(* settle_method for one (epoch, method). *)

Settling(m) == pc = "settle" /\ m \in todo

\* The method is done for this tick and the next one starts.
MethodDone(m) ==
    /\ pc' = "settle"
    /\ todo' = todo \ {m}
    /\ meth' = NoMethod

\* m is not enabled in this deployment: left pending.
LeaveDisabled(m) ==
    /\ Settling(m)
    /\ m \notin enabled
    /\ MethodDone(m)
    /\ UNCHANGED <<accVars, storeVars, chain, historyVars, enabled, phase, queue, cur,
                   rec, down, snap>>

\* An anchor is stored: mint from it, without a provider call.
UseStoredAnchor(m) ==
    /\ Settling(m)
    /\ m \in enabled
    /\ rec.anchor[m] # NoAnchor
    /\ pc' = "check"
    /\ meth' = m
    /\ UNCHANGED <<accVars, storeVars, chain, historyVars, enabled, phase, queue, cur,
                   rec, todo, down, snap>>

\* No anchor, and the provider failed earlier this tick or the fault cap is
\* reached: no call.
SkipAnchor(m) ==
    /\ Settling(m)
    /\ m \in enabled
    /\ rec.anchor[m] = NoAnchor
    /\ m \in down \/ rec.faults[m] >= MaxAnchorFaults
    /\ MethodDone(m)
    /\ UNCHANGED <<accVars, storeVars, chain, historyVars, enabled, phase, queue, cur,
                   rec, down, snap>>

\* Faulty variant: the fault cap is not looked at.
MayAnchorUncapped(m) ==
    /\ Settling(m)
    /\ m \in enabled
    /\ rec.anchor[m] = NoAnchor
    /\ m \notin down

MayAnchor(m) ==
    /\ Settling(m)
    /\ m \in enabled
    /\ rec.anchor[m] = NoAnchor
    /\ m \notin down
    /\ rec.faults[m] < MaxAnchorFaults

\* The provider call ends in an error: the method is down for the rest of the
\* tick.  If the provider had sent a transaction before its error nobody learns of
\* it, here or in the code: it is in no record, and `issued` leaves it out.
AnchorFails(m) ==
    /\ MayAnchor(m)
    /\ down' = down \cup {m}
    /\ MethodDone(m)
    /\ UNCHANGED <<accVars, storeVars, chain, historyVars, enabled, phase, queue, cur,
                   rec, snap>>

\* The provider call succeeds: the anchor exists outside, and in memory only.
AnchorSucceeds(m, a) ==
    /\ MayAnchor(m)
    /\ create_timestamp(cur, m, a)
    /\ rec' = set_anchor(rec, m, a)
    /\ pc' = "store"
    /\ meth' = m
    /\ issued' = [issued EXCEPT ![cur][m] = @ + 1]
    /\ unsaved' = [unsaved EXCEPT ![cur][m] = @ + 1]
    /\ UNCHANGED <<accVars, storeVars, enabled, phase, queue, cur, todo, down, snap,
                   acked, failedSeals, storeFails, crashes>>

\* Anchors of r that reach the store with a write of r to epoch e's record.
NowSaved(e, r, o) ==
    [unsaved EXCEPT ![e] = [m \in Method |->
        IF Applied(o) /\ pending[e].anchor[m] = NoAnchor /\ r.anchor[m] # NoAnchor
          THEN unsaved[e][m] - 1 ELSE unsaved[e][m]]]

\* Faulty variant: minting goes on although the anchor was not saved.
store_anchor_ignoring(o) ==
    /\ pc = "store"
    /\ save_pending(cur, rec, o)
    /\ unsaved' = NowSaved(cur, rec, o)
    /\ pc' = "check"
    /\ UNCHANGED <<accVars, chain, enabled, phase, queue, cur, rec, todo, meth, down, snap,
                   acked, failedSeals, issued, storeFails, crashes>>

\* The anchor is saved, with one retry, before anything is minted from it.
\* "fail" is two failed saves; "late" is a save that was applied but not
\* synced, which the retry cannot repair; a failure followed by a success
\* leaves what a success leaves.
store_anchor(o) ==
    /\ pc = "store"
    /\ save_pending(cur, rec, o)
    /\ unsaved' = NowSaved(cur, rec, o)
    /\ IF o = "ok"
         THEN /\ pc' = "check"
              /\ UNCHANGED <<todo, meth, down, storeFails>>
         ELSE /\ MethodDone(meth)
              /\ down' = down \cup {meth}
              /\ storeFails' = storeFails + 1
    /\ UNCHANGED <<accVars, chain, enabled, phase, queue, cur, rec, snap,
                   acked, failedSeals, issued, crashes>>

\* Minting failed, the check panicked or failed without blaming the anchor,
\* or the verdict is not final yet: the anchor is kept for the next tick.
KeepAnchor ==
    /\ pc = "check"
    /\ MethodDone(meth)
    /\ UNCHANGED <<accVars, storeVars, chain, historyVars, enabled, phase, queue, cur,
                   rec, down, snap>>

\* The transaction is unknown past the not-found timeout: abandoned, counted
\* as a fault.  Younger ones are kept (KeepAnchor); records of this version have
\* their first-seen time from set_anchor, so none is saved there.  A failed save
\* is only logged.
settle_missing(o) ==
    /\ pc = "check"
    /\ "missing" \in Verdicts(meth, rec.anchor[meth])
    /\ rec.age[meth] >= NotFoundTimeout
    /\ rec' = drop_anchor(count_anchor_fault(rec, meth), meth)
    /\ save_pending(cur, rec', o)
    /\ unsaved' = NowSaved(cur, rec', o)
    /\ MethodDone(meth)
    /\ UNCHANGED <<accVars, chain, enabled, phase, queue, cur, down, snap,
                   acked, failedSeals, issued, storeFails, crashes>>

\* The anchor itself is at fault: counted, discarded, and no further anchor
\* call for this method in this tick.  A failed save is only logged.
DiscardFaultyAnchor(o) ==
    /\ pc = "check"
    /\ "at_fault" \in Verdicts(meth, rec.anchor[meth])
    /\ rec' = drop_anchor(count_anchor_fault(rec, meth), meth)
    /\ save_pending(cur, rec', o)
    /\ unsaved' = NowSaved(cur, rec', o)
    /\ down' = down \cup {meth}
    /\ MethodDone(meth)
    /\ UNCHANGED <<accVars, chain, enabled, phase, queue, cur, snap,
                   acked, failedSeals, issued, storeFails, crashes>>

\* Faulty variant: a batch that is not verified yet is served.
VerifiedEarly ==
    /\ pc = "check"
    /\ Verdicts(meth, rec.anchor[meth]) \cap {"verified", "not_yet"} # {}
    /\ pc' = "serve"
    /\ UNCHANGED <<accVars, storeVars, chain, historyVars, enabled, phase, queue, cur,
                   rec, todo, meth, down, snap>>

\* Every witness of the batch verified.
Verified ==
    /\ pc = "check"
    /\ "verified" \in Verdicts(meth, rec.anchor[meth])
    /\ pc' = "serve"
    /\ UNCHANGED <<accVars, storeVars, chain, historyVars, enabled, phase, queue, cur,
                   rec, todo, meth, down, snap>>

\* Faulty variant: the method is struck off in memory although the write failed.
ServeForgetting(o) ==
    /\ pc = "serve"
    /\ persist_pending_minted(cur, Remaining(rec, meth), meth, rec.anchor[meth], o)
    /\ unsaved' = NowSaved(cur, Remaining(rec, meth), o)
    /\ rec' = Remaining(rec, meth)
    /\ MethodDone(meth)
    /\ UNCHANGED <<accVars, chain, enabled, phase, queue, cur, down, snap,
                   acked, failedSeals, issued, storeFails, crashes>>

\* The verified witnesses are written for serving; on an error the in-memory
\* record still lists the method.
Serve(o) ==
    /\ pc = "serve"
    /\ persist_pending_minted(cur, Remaining(rec, meth), meth, rec.anchor[meth], o)
    /\ unsaved' = NowSaved(cur, Remaining(rec, meth), o)
    /\ rec' = IF o = "ok" THEN Remaining(rec, meth) ELSE rec
    /\ MethodDone(meth)
    /\ UNCHANGED <<accVars, chain, enabled, phase, queue, cur, down, snap,
                   acked, failedSeals, issued, storeFails, crashes>>

----------------------------------------------------------------------------
(* seal_once: closing the epoch. *)

\* retry_pending is over: swap the accumulator.
CloseEpoch ==
    /\ pc = "settle" /\ phase = "retry" /\ todo = {} /\ queue = {}
    /\ snap' = SealedSnapshot
    /\ swap_and_open_next
    /\ pc' = "persist"
    /\ cur' = NoEpoch
    /\ rec' = NoPending
    /\ UNCHANGED <<storeVars, chain, historyVars, enabled, phase, queue, todo, meth, down>>

\* The pending record of the closed epoch; an empty epoch has none.
RecordFor(s) == IF LeavesIn(s.leaves) = {} THEN NoPending ELSE NewPending(enabled)

\* The closed epoch and its pending record become durable, and it is settled
\* like any pending epoch.  On an error seal_once returns and the snapshot is
\* gone.
PersistEpoch(o) ==
    /\ pc = "persist"
    /\ persist_sealed_epoch_with_pending(snap, RecordFor(snap), o)
    /\ snap' = NoSnap
    /\ IF o = "ok"
         THEN /\ pc' = "settle"
              /\ phase' = "new"
              /\ cur' = snap.id
              /\ rec' = RecordFor(snap)
              /\ todo' = RecordFor(snap).methods
              /\ UNCHANGED <<down, failedSeals>>
         ELSE /\ pc' = "idle"
              /\ failedSeals' = failedSeals \cup {snap.id}
              /\ down' = {}
              /\ UNCHANGED <<phase, cur, rec, todo>>
    /\ UNCHANGED <<accVars, chain, enabled, queue, meth, acked, issued, unsaved,
                   storeFails, crashes>>

\* seal_once returns; the in-memory record and the down set go with it, and the
\* seal loop sends SseEvent::EpochSealed for the epoch just settled.
EndTick ==
    /\ pc = "settle" /\ phase = "new" /\ todo = {}
    /\ pc' = "idle"
    /\ phase' = "retry"
    /\ cur' = NoEpoch
    /\ rec' = NoPending
    /\ down' = {}
    /\ UNCHANGED <<accVars, storeVars, chain, historyVars, enabled, queue, todo, meth, snap>>

----------------------------------------------------------------------------
(* The chain, and the process. *)

Finalize(a) ==
    /\ FinalizeAnchor(a)
    /\ UNCHANGED <<accVars, storeVars, sealerVars, historyVars>>

\* The process dies at any point and is started again: the store survives,
\* the open epoch and the sealer's memory do not, the operator may have
\* changed the enabled methods, and the open epoch is the one after the last
\* sealed one.
Restart ==
    /\ crashes < MaxCrashes
    /\ crashes' = crashes + 1
    /\ epoch_id' = IF sealed = {} THEN 1 ELSE NextEpochId(last_sealed_epoch_id)
    /\ leaves' = NoLeaves
    /\ poisoned' = FALSE
    /\ enabled' \in Configs
    /\ pc' = "idle"
    /\ phase' = "retry"
    /\ queue' = {}
    /\ cur' = NoEpoch
    /\ rec' = NoPending
    /\ todo' = {}
    /\ meth' = NoMethod
    /\ down' = {}
    /\ snap' = NoSnap
    /\ failedSeals' = {}
    /\ UNCHANGED <<chain, acked, issued, unsaved, storeFails, sealed, epoch_leaves,
                   pending, pending_leaves, leaf_to_tips, witnesses, leaf_owner>>

----------------------------------------------------------------------------

Settle(m) ==
    \/ LeaveDisabled(m)
    \/ UseStoredAnchor(m)
    \/ SkipAnchor(m)
    \/ AnchorFails(m)
    \/ \E a \in Anchor : AnchorSucceeds(m, a)

Write(o) ==
    \/ store_anchor(o)
    \/ settle_missing(o)
    \/ DiscardFaultyAnchor(o)
    \/ Serve(o)
    \/ PersistEpoch(o)

SealerStep ==
    \/ StartTick(ListPendingEpochs)
    \/ StartTick({})        \* list_pending_epochs failed: nothing retried
    \/ NextPending
    \/ \E m \in Method : Settle(m)
    \/ KeepAnchor
    \/ Verified
    \/ CloseEpoch
    \/ EndTick
    \/ \E o \in Outcome : Write(o)

Next ==
    \/ \E batch \in (SUBSET Leaf) \ {{}}, did \in Did : submit_leaves(batch, did)
    \/ SealerStep
    \/ \E a \in Anchor : Finalize(a)
    \/ Restart

Spec == Init /\ [][Next]_vars

----------------------------------------------------------------------------
(* Safety. *)

\* The leaf of ack a is where its answer said: in the open epoch, in the
\* epoch just closed, or in the sealed epoch's rows, with the same owner.
Kept(a) ==
    \/ a.epoch = epoch_id /\ leaves[a.leaf] = a.did
    \/ a.epoch = snap.id /\ snap.leaves[a.leaf] = a.did
    \/ a.epoch \in sealed /\ epoch_leaves[a.epoch][a.leaf] = a.did

\* A leaf answered 202 by this process is never lost or handed to another
\* owner, nor moved to another epoch, unless the persist of its epoch failed:
\* the swap and append_batch exclude each other, whatever settle_method is
\* doing meanwhile.
AckedLeavesKept ==
    \A a \in acked :
        a.boot = crashes /\ a.epoch \notin failedSeals => Kept(a)

\* What accumulator.rs promises without the exception: no window in which a
\* submitted leaf disappears between accept and seal.
NoLeafDisappears == \A a \in acked : a.boot = crashes => Kept(a)

\* After a call that returned an anchor, the providers are asked again for that
\* (epoch, method) only after a counted fault, a crash, or a store_anchor that
\* gave up: across ticks, restarts and failing writes, no other path pays for a
\* second anchor of one root.
AnchorBudget ==
    \A e \in Epoch, m \in Method :
        issued[e][m] <= MaxAnchorFaults + crashes + storeFails

\* A served witness carries an anchor that was created for its own epoch and
\* method and that the outside confirmed.
ServedIsAnchored ==
    \A e \in Epoch, m \in Method :
        witnesses[e][m] # NoAnchor =>
            chain[witnesses[e][m]] = [epoch |-> e, method |-> m, status |-> "confirmed"]

\* An (epoch, method) is never both pending and served (the union route
\* answers 202 for the one and 200 for the other), also when a save of the
\* in-memory record follows a failed write of the witnesses.
PendingOrServed ==
    \A e \in Epoch, m \in Method :
        m \in pending[e].methods => witnesses[e][m] = NoAnchor

\* Epoch e has, or will have, witnesses of leaf l under m.
WitnessedIn(e, l, m) ==
    /\ epoch_leaves[e][l] # NoDid
    /\ m \in pending[e].methods \/ witnesses[e][m] # NoAnchor

\* What get_tree_by_leaf reads agrees: a lookup names an epoch that really is
\* pending and holds the leaf; a tip names a served epoch that holds it; and
\* the newest epoch a leaf went to is found by the lookup while it is pending
\* and by a tip once it is served, also when the leaf was resubmitted and its
\* epochs settle in any order.
ByLeafConsistent ==
    \A l \in Leaf, m \in Method :
        LET p == pending_leaves[l][m]
            t == leaf_to_tips[l][m]
        IN  /\ p # NoEpoch => m \in pending[p].methods /\ epoch_leaves[p][l] # NoDid
            /\ t # NoEpoch => witnesses[t][m] # NoAnchor /\ epoch_leaves[t][l] # NoDid
            /\ \A e \in sealed : epoch_leaves[e][l] # NoDid => leaf_owner[l] # NoDid
            /\ \A e \in Epoch :
                  WitnessedIn(e, l, m) /\ (\A f \in Epoch : f > e => ~WitnessedIn(f, l, m))
                      => IF m \in pending[e].methods THEN p = e ELSE t # NoEpoch

\* No epoch is closed with more leaves than the template allows, however the
\* batches fell.
EpochWithinCap ==
    \A e \in sealed : Cardinality(LeavesIn(epoch_leaves[e])) <= LeafCap

----------------------------------------------------------------------------
(* Action properties. *)

\* What is sealed stays: ids are not reused by a restart, leaf sets are not
\* rewritten and served witnesses are not replaced.
SealedIsFinal ==
    [][\A e \in sealed :
          /\ e \in sealed'
          /\ epoch_leaves'[e] = epoch_leaves[e]
          /\ \A m \in Method :
                witnesses[e][m] # NoAnchor => witnesses'[e][m] = witnesses[e][m]]_vars

\* A method leaves an epoch's pending record only by being served: no failed
\* write, stale in-memory record or restart drops it.
PendingUntilServed ==
    [][\A e \in Epoch, m \in Method :
          m \in pending[e].methods /\ m \notin pending'[e].methods
              => witnesses'[e][m] # NoAnchor]_vars

\* The fault cap is reached and no anchor is held: the route's anchor_stalled.
Stalled(e, m) ==
    pending[e].anchor[m] = NoAnchor /\ pending[e].faults[m] >= MaxAnchorFaults

\* A stalled method stays pending and stalled: the answer 503 that polling will
\* not change stays true, and no anchor is paid for after it, whichever record
\* of the epoch is saved later and across restarts.
StalledIsFinal ==
    [][\A e \in Epoch, m \in Method :
          m \in pending[e].methods /\ Stalled(e, m)
              => m \in pending'[e].methods /\ Stalled(e, m)']_vars

----------------------------------------------------------------------------
(* Liveness. *)

\* The sealer task never stops; a transaction is decided some day; and what
\* the sealer retries every tick (reading the pending list, the provider
\* call, storing the anchor, the self-check, writing the witnesses) does not
\* fail every single time.
Fairness ==
    /\ WF_vars(SealerStep)
    /\ \A a \in Anchor : WF_vars(Finalize(a))
    /\ SF_vars(StartTick(ListPendingEpochs))
    /\ SF_vars(\E m \in Method, a \in Anchor : AnchorSucceeds(m, a))
    /\ SF_vars(store_anchor("ok"))
    /\ SF_vars(settle_missing("ok"))
    /\ SF_vars(DiscardFaultyAnchor("ok"))
    /\ SF_vars(Verified)
    /\ SF_vars(Serve("ok"))

FairSpec == Spec /\ Fairness

\* The bound MaxAnchor cuts the behaviour off: an anchor is due, none is left.
CutOff(e, m) ==
    /\ pending[e].anchor[m] = NoAnchor
    /\ \A a \in Anchor : chain[a].status # "unused"

\* Every pending method of a sealed epoch is eventually served, or stalled at
\* the fault cap: neither the shared down set, nor an older epoch at fault,
\* nor an in-memory record lost to a failed save starves it forever.
EventuallySettled ==
    \A e \in Epoch, m \in Method :
        m \in pending[e].methods /\ m \in enabled
            ~> \/ m \notin pending[e].methods
               \/ Stalled(e, m)
               \/ m \notin enabled
               \/ CutOff(e, m)

============================================================================
