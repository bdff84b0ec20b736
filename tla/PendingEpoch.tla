---------------------------- MODULE PendingEpoch ----------------------------
(***************************************************************************)
(* The durable record of an epoch that is sealed but whose witnesses are   *)
(* not all served yet (witness.rs, PendingEpoch): the methods still to     *)
(* settle, and per method the anchor held and the number of anchors found  *)
(* at fault.  Operators only; the state is in Store and Sealer.            *)
(*                                                                         *)
(* first_seen is kept as the anchor's age in seal ticks (now - first_seen),*)
(* the only way the code ever uses it, capped at NotFoundTimeout.          *)
(* A record whose methods are {} stands for "no record".                   *)
(***************************************************************************)
EXTENDS Naturals

CONSTANTS
    Method,             \* anchor methods (evm, qtsa)
    NoMethod,           \* "no method"
    MaxAnchor,          \* bound: anchors the providers create in a behaviour
    MaxAnchorFaults,    \* WitnessContext.max_anchor_faults
    NotFoundTimeout     \* evm_not_found_timeout_secs, in seal ticks

ASSUME PendingAssumption ==
    /\ NoMethod \notin Method
    /\ MaxAnchor \in Nat
    /\ MaxAnchorFaults \in Nat
    /\ NotFoundTimeout \in Nat

Anchor == 1..MaxAnchor
NoAnchor == 0

PendingRecord ==
    [methods : SUBSET Method,
     anchor  : [Method -> Anchor \cup {NoAnchor}],
     age     : [Method -> 0..NotFoundTimeout],
     faults  : [Method -> 0..MaxAnchorFaults]]

\* PendingEpoch::new: every enabled method outstanding, nothing anchored.
NewPending(methods) ==
    [methods |-> methods,
     anchor  |-> [m \in Method |-> NoAnchor],
     age     |-> [m \in Method |-> 0],
     faults  |-> [m \in Method |-> 0]]

NoPending == NewPending({})

set_anchor(rec, m, a) ==
    [rec EXCEPT !.anchor = [@ EXCEPT ![m] = a], !.age = [@ EXCEPT ![m] = 0]]

\* Faulty variant: the method is given up with its anchor.
drop_anchor_and_method(rec, m) ==
    [set_anchor(rec, m, NoAnchor) EXCEPT !.methods = @ \ {m}]

drop_anchor(rec, m) == set_anchor(rec, m, NoAnchor)

\* Faulty variant: the fault is not counted.
count_no_fault(rec, m) == rec

count_anchor_fault(rec, m) ==
    [rec EXCEPT !.faults = [@ EXCEPT ![m] = rec.faults[m] + 1]]

\* Faulty variant: the served method stays listed.
RemainingWithMethod(rec, m) == drop_anchor(rec, m)

\* The record once m's witnesses are served (settle_method, step 4).
Remaining(rec, m) ==
    [drop_anchor(rec, m) EXCEPT !.methods = @ \ {m}]

\* One seal tick passes: every held anchor is one tick older.
Older(rec) ==
    [rec EXCEPT !.age =
        [m \in Method |-> IF rec.anchor[m] # NoAnchor /\ @[m] < NotFoundTimeout
                            THEN @[m] + 1 ELSE @[m]]]

============================================================================
