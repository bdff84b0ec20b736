---------------------------- MODULE BondingCurve ----------------------------
(***************************************************************************)
(* The adaptive seal loop (run_sealer_with_bonding_curve) and its balance  *)
(* oracle.  Each poll counts one virtual block, asks the node for the      *)
(* balance and then for the gas price, and seals when enough blocks passed *)
(* since the last seal for what the wallet can afford.                     *)
(*                                                                         *)
(*   sleep --Wake--> balance --GetBalance--> gas --Decide--> seal --> sleep*)
(*                                                                         *)
(* Money is counted in gas units: the price of one transaction is the gas  *)
(* price.  What a seal cycle does to an epoch is module Sealer; here it    *)
(* closes the open epoch and sends the transactions of the epochs without  *)
(* an anchor.                                                              *)
(***************************************************************************)
EXTENDS Naturals

CONSTANTS
    MaxBalance,     \* bound: what the wallet holds
    MaxGas,         \* bound: gas price
    Multiplier,     \* min_balance_multiplier
    BlockInterval,  \* (balance, gas price) |-> block_interval(publication_rate)
    MaxWaiting      \* bound: sealed epochs without their anchor

\* The curve asks for one block at least, and for no more of them the more
\* transactions the balance pays for.
ASSUME BondingCurveAssumption ==
    /\ MaxBalance \in Nat
    /\ MaxGas \in Nat \ {0}
    /\ Multiplier \in Nat
    /\ MaxWaiting \in Nat \ {0}
    /\ BlockInterval \in [(1..MaxBalance) \X (1..MaxGas) -> Nat \ {0}]
    /\ \A b, c \in 1..MaxBalance, g, h \in 1..MaxGas :
          b * h <= c * g => BlockInterval[c, h] <= BlockInterval[b, g]

VARIABLES
    balance,    \* the wallet
    gas_price,  \* of the chain
    bc_pc,
    since,      \* virtual_block - last_seal_block
    seen,       \* the balance the oracle read
    open,       \* the open epoch has a leaf
    waiting     \* sealed epochs whose transaction is still to be sent

bcVars == <<balance, gas_price, bc_pc, since, seen, open, waiting>>

\* Longer waits differ in nothing.
MaxSince == BlockInterval[1, MaxGas]

BcTypeOK ==
    /\ balance \in 0..MaxBalance
    /\ gas_price \in 1..MaxGas
    /\ bc_pc \in {"sleep", "balance", "gas", "seal"}
    /\ since \in 0..MaxSince
    /\ seen \in 0..MaxBalance
    /\ open \in BOOLEAN
    /\ waiting \in 0..MaxWaiting

BcInit ==
    /\ balance = 0
    /\ gas_price = 1
    /\ bc_pc = "sleep"
    /\ since = 0
    /\ seen = 0
    /\ open = FALSE
    /\ waiting = 0

----------------------------------------------------------------------------
(* The outside. *)

\* The balance after a deposit of n.
Deposited(n) == IF balance + n > MaxBalance THEN MaxBalance ELSE balance + n

GasMoves ==
    /\ gas_price' \in 1..MaxGas
    /\ UNCHANGED <<balance, bc_pc, since, seen, open, waiting>>

LeafArrives ==
    /\ ~open
    /\ waiting < MaxWaiting
    /\ open' = TRUE
    /\ UNCHANGED <<balance, gas_price, bc_pc, since, seen, waiting>>

----------------------------------------------------------------------------
(* The loop. *)

To(pc_, since_, seen_) ==
    /\ bc_pc' = pc_
    /\ since' = since_
    /\ seen' = seen_
    /\ UNCHANGED <<balance, gas_price, open, waiting>>

Wake ==
    /\ bc_pc = "sleep"
    /\ To("balance", IF since < MaxSince THEN since + 1 ELSE since, seen)

\* A request of the oracle fails: the cycle is skipped.
OracleFails ==
    /\ bc_pc \in {"balance", "gas"}
    /\ To("sleep", since, 0)

GetBalance ==
    /\ bc_pc = "balance"
    /\ To("gas", since, balance)

\* The node reports a price of zero: the cycle is skipped.
ZeroGas ==
    /\ bc_pc = "gas"
    /\ To("sleep", since, 0)

\* The balance read and the price read after it: an empty wallet is an error of
\* the oracle, a balance below the margin skips the cycle.
Affords ==
    /\ seen > 0
    /\ seen >= Multiplier * gas_price

\* The curve, asked again in every cycle.
block_interval == BlockInterval[seen, gas_price]

Due == Affords /\ since >= block_interval

\* Faulty variant: every poll counts as a seal.
SkipForgets ==
    /\ bc_pc = "gas"
    /\ ~Due
    /\ To("sleep", 0, 0)

Skip ==
    /\ bc_pc = "gas"
    /\ ~Due
    /\ To("sleep", since, 0)

Decide ==
    /\ bc_pc = "gas"
    /\ Due
    /\ To("seal", since, 0)

\* seal_once: the epochs whose transaction was not sent are tried first, the
\* open epoch is closed and its transaction sent; sent of the attempts succeed,
\* as many as the wallet pays for at most.  Failed or not, the block counts as
\* the last seal.
SealCycle(sent) ==
    LET n == waiting + (IF open THEN 1 ELSE 0)
    IN  /\ bc_pc = "seal"
        /\ sent <= n
        /\ sent * gas_price <= balance
        /\ balance' = balance - sent * gas_price
        /\ waiting' = n - sent
        /\ open' = FALSE
        /\ bc_pc' = "sleep"
        /\ since' = 0
        /\ UNCHANGED <<gas_price, seen>>

\* The write that seals the epoch fails: its leaves are gone (see Sealer), the
\* transactions of the earlier epochs were sent.
SealFails(sent) ==
    /\ bc_pc = "seal"
    /\ sent <= waiting
    /\ sent * gas_price <= balance
    /\ balance' = balance - sent * gas_price
    /\ waiting' = waiting - sent
    /\ open' = FALSE
    /\ bc_pc' = "sleep"
    /\ since' = 0
    /\ UNCHANGED <<gas_price, seen>>

BcStep ==
    \/ Wake
    \/ OracleFails
    \/ GetBalance
    \/ ZeroGas
    \/ Skip
    \/ Decide
    \/ \E sent \in 0..MaxWaiting : SealCycle(sent) \/ SealFails(sent)

\* The process dies: the open epoch is gone, sealed ones stay.
BcCrash ==
    /\ bc_pc' = "sleep"
    /\ since' = 0
    /\ seen' = 0
    /\ open' = FALSE
    /\ UNCHANGED <<balance, gas_price, waiting>>

=============================================================================
