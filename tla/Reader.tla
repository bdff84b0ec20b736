------------------------------- MODULE Reader -------------------------------
(***************************************************************************)
(* The witness routes (routes.rs) against the running sealer.  A handler   *)
(* answers from several separate reads of the store, each a snapshot of    *)
(* its own; the sealer may write between any two of them.                  *)
(*                                                                         *)
(*   GET /trees/by-leaf/{leaf}?method=   owner -> tip -> lookup -> stalled *)
(*   GET /trees?epoch=&method=           epoch -> pending -> list          *)
(*                                               \-> stalled               *)
(*   GET /trees/{tip}                    pair                              *)
(*                                                                         *)
(* Handlers write nothing, so one request at a time shows everything; what *)
(* was answered before is kept in told.  A tip is the (epoch, leaf,        *)
(* method) it was minted for.  The store is one that this version created: *)
(* every tip in it has its self-checked marker (no 410).                   *)
(***************************************************************************)
EXTENDS Sealer

VARIABLES
    req,    \* the request being answered, or the last one answered
    told    \* history: the tips delivered so far, and to whom

readVars == <<vars, req, told>>

Status == {"none", "200", "202", "403", "404", "503"}

ReadPc == {"done", "owner", "tip", "lookup", "stalled", "epoch", "pending", "list", "pair"}

\* known: history, whether what is asked for was there when the request arrived.
Request ==
    [route : {"none", "by_leaf", "union", "tip"}, pc : ReadPc, did : Did, leaves : SUBSET Leaf, method : Method,
     epoch : Epoch \cup {NoEpoch}, known : BOOLEAN,
     status : Status, body : SUBSET Leaf]

ReaderTypeOK ==
    /\ req \in Request
    /\ told \in SUBSET [did : Did, epoch : Epoch, leaf : Leaf, method : Method]

\* Nothing was asked yet.
Idle(d, m) ==
    [route |-> "none", pc |-> "done", did |-> d, leaves |-> {}, method |-> m,
     epoch |-> NoEpoch, known |-> FALSE, status |-> "none", body |-> {}]

ReaderInit ==
    /\ Init
    /\ req \in {Idle(d, m) : d \in Did, m \in Method}
    /\ told = {}

----------------------------------------------------------------------------
(* Requests arrive. *)

\* The leaf was sealed, and has or awaits a witness under m.
Due(l, m) == \E e \in sealed : WitnessedIn(e, l, m)

Arrive(route, start, d, ls, m, e, known) ==
    /\ req.pc = "done"
    /\ req' = [route |-> route, pc |-> start, did |-> d, leaves |-> ls, method |-> m,
               epoch |-> e, known |-> known, status |-> "none", body |-> {}]
    /\ UNCHANGED <<vars, told>>

AskByLeaf(d, l, m) == Arrive("by_leaf", "owner", d, {l}, m, NoEpoch, Due(l, m))

AskUnion(d, e, m) == Arrive("union", "epoch", d, {}, m, e, e \in sealed)

AskTip(d, e, l, m) ==
    Arrive("tip", "pair", d, {l}, m, e, witnesses[e][m] # NoAnchor /\ epoch_leaves[e][l] # NoDid)

----------------------------------------------------------------------------
(* Steps of a handler. *)

Go(pc_) == req' = [req EXCEPT !.pc = pc_]

Reply(status, body) ==
    req' = [req EXCEPT !.pc = "done", !.status = status, !.body = body]

\* get_leaf_owner: unknown leaf, or a leaf of another DID, ends here.
ReadOwner ==
    /\ req.pc = "owner"
    /\ \E l \in req.leaves :
          CASE leaf_owner[l] = NoDid   -> Reply("404", {})
            [] leaf_owner[l] = req.did -> Go("tip")
            [] OTHER                   -> Reply("403", {})
    /\ UNCHANGED <<vars, told>>

\* The tips of leaves ls in epoch e are delivered to the caller.
Deliver(e, ls) ==
    told' = told \cup
        {[did |-> req.did, epoch |-> e, leaf |-> l, method |-> req.method] : l \in ls}

\* Faulty variant: a newer pending epoch hides the tip.
ReadTipUnlessPending ==
    /\ req.pc = "tip"
    /\ \E l \in req.leaves :
          IF leaf_to_tips[l][req.method] # NoEpoch /\ pending_leaves[l][req.method] = NoEpoch
            THEN Reply("200", {l}) /\ Deliver(leaf_to_tips[l][req.method], {l})
            ELSE Go("lookup") /\ UNCHANGED told
    /\ UNCHANGED vars

\* get_tip_for_leaf: the rows behind a tip are written with it and never
\* change, so a tip is an answer.
ReadTip ==
    /\ req.pc = "tip"
    /\ \E l \in req.leaves :
          IF leaf_to_tips[l][req.method] # NoEpoch
            THEN Reply("200", {l}) /\ Deliver(leaf_to_tips[l][req.method], {l})
            ELSE Go("lookup") /\ UNCHANGED told
    /\ UNCHANGED vars

\* get_pending_epoch_for_leaf.
ReadLookup ==
    /\ req.pc = "lookup"
    /\ \E l \in req.leaves :
          IF pending_leaves[l][req.method] # NoEpoch
            THEN req' = [req EXCEPT !.pc = "stalled",
                                    !.epoch = pending_leaves[l][req.method]]
            ELSE Reply("404", {})
    /\ UNCHANGED <<vars, told>>

\* anchor_stalled: the pending records are read again.
ReadStalled ==
    /\ req.pc = "stalled"
    /\ IF pending[req.epoch].methods # {} /\ Stalled(req.epoch, req.method)
         THEN Reply("503", {})
         ELSE Reply("202", {})
    /\ UNCHANGED <<vars, told>>

\* union_for_epoch: get_epoch.
ReadEpoch ==
    /\ req.pc = "epoch"
    /\ IF req.epoch \in sealed THEN Go("pending") ELSE Reply("404", {})
    /\ UNCHANGED <<vars, told>>

\* Faulty variant: the record is taken for absent once an anchor is held.
ReadPendingHeld ==
    /\ req.pc = "pending"
    /\ Go(IF /\ req.method \in pending[req.epoch].methods
             /\ pending[req.epoch].anchor[req.method] = NoAnchor
            THEN "stalled" ELSE "list")
    /\ UNCHANGED <<vars, told>>

\* is_epoch_pending.
ReadPending ==
    /\ req.pc = "pending"
    /\ Go(IF req.method \in pending[req.epoch].methods THEN "stalled" ELSE "list")
    /\ UNCHANGED <<vars, told>>

\* The caller's leaves with a witness in epoch e under m.
WitnessesOf(d, e, m) ==
    IF witnesses[e][m] = NoAnchor THEN {} ELSE {l \in Leaf : epoch_leaves[e][l] = d}

\* list_witnesses_for_did_in_epoch.
ReadList ==
    /\ req.pc = "list"
    /\ LET found == WitnessesOf(req.did, req.epoch, req.method)
       IN  Reply("200", found) /\ Deliver(req.epoch, found)
    /\ UNCHANGED vars

\* get_tree_by_tip: one read decides.
ReadPair ==
    /\ req.pc = "pair"
    /\ \E l \in req.leaves :
          IF witnesses[req.epoch][req.method] = NoAnchor \/ epoch_leaves[req.epoch][l] = NoDid
            THEN Reply("404", {})
            ELSE IF epoch_leaves[req.epoch][l] = req.did
                   THEN Reply("200", {l}) ELSE Reply("403", {})
    /\ UNCHANGED <<vars, told>>

ReadStep ==
    \/ ReadOwner
    \/ ReadTip
    \/ ReadLookup
    \/ ReadStalled
    \/ ReadEpoch
    \/ ReadPending
    \/ ReadList
    \/ ReadPair

\* The rest of the system goes on; a restart drops the request.
ServerStep ==
    /\ Next
    /\ req' = IF crashes' = crashes THEN req ELSE Idle(req.did, req.method)
    /\ UNCHANGED told

ReaderNext ==
    \/ \E d \in Did, m \in Method :
          \/ \E l \in Leaf : AskByLeaf(d, l, m)
          \/ \E e \in Epoch : AskUnion(d, e, m)
          \/ \E e \in Epoch, l \in Leaf : AskTip(d, e, l, m)
    \/ ReadStep
    \/ ServerStep

ReaderSpec == ReaderInit /\ [][ReaderNext]_readVars

----------------------------------------------------------------------------
(* Properties. *)

Answered(route, statuses) ==
    req.pc = "done" /\ req.route = route /\ req.status \in statuses

\* A 200 of the union route holds a witness for every leaf the caller has in
\* the epoch, or the epoch was sealed without the method: no sealer write
\* between the handler's reads lets a pending epoch pass for an empty one.
UnionComplete ==
    Answered("union", {"200"}) =>
        \/ req.body = {l \in Leaf : epoch_leaves[req.epoch][l] = req.did}
        \/ /\ req.method \notin pending[req.epoch].methods
           /\ witnesses[req.epoch][req.method] = NoAnchor

\* Once a witness was delivered to a DID by one route, no route takes it back:
\* by-leaf never again says that there is none or that it is pending, and the
\* tip route knows the tip, whatever is resubmitted, settled or restarted.
DeliveredStays ==
    \A t \in told :
        t.did = req.did /\ t.method = req.method /\ t.leaf \in req.leaves =>
            /\ ~Answered("by_leaf", {"202", "404", "503"})
            /\ ~(Answered("tip", {"404"}) /\ t.epoch = req.epoch)

\* What routes.rs says of the by-leaf answers: 404 keeps meaning "unknown /
\* not sealed".
NotFoundMeansUnknown == Answered("by_leaf", {"404"}) => ~req.known

----------------------------------------------------------------------------
(* The inductive form of UnionComplete and DeliveredStays. *)

\* Which steps a request goes through.
RouteInv ==
    /\ req.pc \in {"epoch", "pending", "list"} => req.route = "union"
    /\ req.pc \in {"owner", "tip", "lookup"} => req.route = "by_leaf"
    /\ req.pc = "pair" => req.route = "tip"
    /\ req.pc # "done" => req.status = "none"
    /\ req.route \in {"by_leaf", "tip"} => \E l \in Leaf : req.leaves = {l}
    /\ req.route \in {"union", "tip"} => req.epoch \in Epoch

\* What the union handler has read stays true while it reads on: a sealed epoch
\* stays sealed, and a method that is not pending in it never will be.
UnionInv ==
    req.route = "union" =>
        /\ req.pc \in {"pending", "list"} => req.epoch \in sealed
        /\ req.pc = "list" => req.method \notin pending[req.epoch].methods
        /\ req.pc = "done" /\ req.status = "200" =>
              /\ req.epoch \in sealed
              /\ req.method \notin pending[req.epoch].methods
              /\ \/ req.body = {l \in Leaf : epoch_leaves[req.epoch][l] = req.did}
                 \/ witnesses[req.epoch][req.method] = NoAnchor

\* What was delivered is in the store.
ToldInv ==
    \A t \in told : witnesses[t.epoch][t.method] # NoAnchor /\ epoch_leaves[t.epoch][t.leaf] # NoDid

\* A delivered witness of what this request asks for.
WasTold(t) == t \in told /\ t.did = req.did /\ t.method = req.method /\ t.leaf \in req.leaves

\* A by-leaf request that found no tip, and one that was answered so, was never
\* given one.
UntoldInv ==
    /\ req.route = "by_leaf" /\ (req.pc \in {"lookup", "stalled"} \/ req.status \in {"202", "404", "503"})
          => \A t \in told : ~WasTold(t)
    /\ req.route = "tip" /\ req.status = "404" => \A t \in told : WasTold(t) => t.epoch # req.epoch

ReaderInv == ReaderTypeOK /\ RouteInv /\ UnionInv /\ ToldInv /\ UntoldInv

=============================================================================
