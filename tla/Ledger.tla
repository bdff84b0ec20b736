------------------------------- MODULE Ledger -------------------------------
(***************************************************************************)
(* What the aggregator promises of sealed epochs, without accumulator,     *)
(* seal loop, providers, store failures or crashes: a ledger that only     *)
(* grows.  An epoch is entered once, after all earlier ones, with its      *)
(* leaves and the methods that are to witness it; each of these is pending *)
(* until it is served, and served for good.                                *)
(***************************************************************************)
EXTENDS Naturals

CONSTANTS
    Epoch,      \* epoch ids
    Method,     \* anchor methods
    Content,    \* what an epoch may hold
    Empty       \* the content of an epoch not entered

VARIABLES
    entered,    \* the sealed epochs
    content,    \* epoch |-> what it holds
    standing    \* epoch |-> method |-> "none", "pending" or "served"

ledgerVars == <<entered, content, standing>>

LedgerInit ==
    /\ entered = {}
    /\ content = [e \in Epoch |-> Empty]
    /\ standing = [e \in Epoch |-> [m \in Method |-> "none"]]

Enter(e, c, methods) ==
    /\ \A f \in entered : f < e
    /\ entered' = entered \cup {e}
    /\ content' = [content EXCEPT ![e] = c]
    /\ standing' = [standing EXCEPT ![e] =
                        [m \in Method |-> IF m \in methods THEN "pending" ELSE "none"]]

Witness(e, m) ==
    /\ e \in entered
    /\ standing[e][m] = "pending"
    /\ standing' = [standing EXCEPT ![e] = [standing[e] EXCEPT ![m] = "served"]]
    /\ UNCHANGED <<entered, content>>

LedgerNext ==
    \E e \in Epoch :
        \/ \E c \in Content, methods \in SUBSET Method : Enter(e, c, methods)
        \/ \E m \in Method : Witness(e, m)

LedgerSpec == LedgerInit /\ [][LedgerNext]_ledgerVars

=============================================================================
