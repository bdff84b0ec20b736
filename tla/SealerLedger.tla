---------------------------- MODULE SealerLedger ----------------------------
(***************************************************************************)
(* The sealer implements the ledger: the refinement mapping.               *)
(***************************************************************************)
EXTENDS SealerInv

\* Where method m of epoch e stands for a reader of the store.
Standing ==
    [e \in Epoch |-> [m \in Method |->
        IF witnesses[e][m] # NoAnchor THEN "served"
        ELSE IF m \in pending[e].methods THEN "pending"
        ELSE "none"]]

L == INSTANCE Ledger WITH
        Content <- LeafMap, Empty <- NoLeaves,
        entered <- sealed, content <- epoch_leaves, standing <- Standing

\* The store of the aggregator is such a ledger, whatever seal_once,
\* submissions, failing writes and restarts do: epoch ids only grow, an epoch's
\* leaves never change, and a method of it only goes from pending to served.
ImplementsLedger == L!LedgerSpec

=============================================================================
