-------------------------- MODULE AnchorProvider --------------------------
(***************************************************************************)
(* What the aggregator sees of the outside: the anchor providers           *)
(* (anchors.rs, the trait; the chain and the TSA behind it are external)   *)
(* and what the SDK's verification says about an anchor (selfcheck.rs).    *)
(*                                                                         *)
(* An anchor carries the root of one epoch under one method.  An on-chain  *)
(* transaction is first "waiting", then final: "confirmed", "gone"         *)
(* (dropped or reorged out) or "bad" (reverted, or not what was asked      *)
(* for).  A TSA token is final when it is returned.                        *)
(***************************************************************************)
EXTENDS Accumulator, PendingEpoch

CONSTANT OnChain    \* the methods anchored by a transaction (evm)

ASSUME ProviderAssumption == OnChain \subseteq Method

VARIABLE chain  \* anchor |-> [epoch, method, status]

AnchorStatus == {"unused", "waiting", "confirmed", "gone", "bad"}

AnchorEntry ==
    [epoch : Epoch \cup {NoEpoch}, method : Method \cup {NoMethod}, status : AnchorStatus]

ChainTypeOK == chain \in [Anchor -> AnchorEntry]

ChainInit ==
    chain = [a \in Anchor |->
                [epoch |-> NoEpoch, method |-> NoMethod, status |-> "unused"]]

\* The status a fresh anchor of method m can have.
FreshStatus(m) == IF m \in OnChain THEN {"waiting"} ELSE {"confirmed", "bad"}

\* Anchors are numbered in the order they are created.
NextAnchor(a) ==
    /\ chain[a].status = "unused"
    /\ \A b \in Anchor : b < a => chain[b].status # "unused"

\* AnchorProvider::create_timestamp succeeds for the root of epoch e.
create_timestamp(e, m, a) ==
    /\ NextAnchor(a)
    /\ \E s \in FreshStatus(m) :
          chain' = [chain EXCEPT ![a] = [epoch |-> e, method |-> m, status |-> s]]

\* The chain decides on a waiting transaction.
FinalizeAnchor(a) ==
    /\ chain[a].status = "waiting"
    /\ \E s \in {"confirmed", "gone", "bad"} :
          chain' = [chain EXCEPT ![a].status = s]

\* check_evm and check_tsa: the verdicts on the witnesses minted from a.  An
\* RPC error or too few confirmations is "not_yet" and a transaction the node
\* does not know, or has not heard of yet, is "missing", whatever the chain
\* decided; a TSA token is never either, and an error of its host is blamed on
\* the token.
Verdicts(m, a) ==
    LET final == CASE chain[a].status = "confirmed" -> {"verified"}
                   [] chain[a].status = "bad"       -> {"at_fault"}
                   [] OTHER                         -> {}
    IN  IF m \in OnChain THEN final \cup {"not_yet", "missing"} ELSE final \cup {"at_fault"}

============================================================================
