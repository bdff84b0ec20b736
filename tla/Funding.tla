------------------------------ MODULE Funding ------------------------------
(***************************************************************************)
(* A server process from its start, with the two tasks that look at the    *)
(* service wallet: the watcher, which credits the transfers to it, and the *)
(* bonding-curve sealer, which spends them.  A transfer mined on the chain *)
(* funds the wallet at once; the watcher and the oracle see it when they   *)
(* next ask.                                                               *)
(***************************************************************************)
EXTENDS Boot, BondingCurve, Watcher

CONSTANTS
    TransferValue   \* what one transfer adds to the balance

ASSUME FundingAssumption == TransferValue \in Nat

fundingVars == <<bootVars, bcVars, vars>>

FundingTypeOK == BootTypeOK /\ BcTypeOK /\ TypeOK

FundingInit == BootInit /\ BcInit /\ Init

Runs(t) == t \in tasks

\* The chain is explored where a task looks at it.
Watched == Runs("watcher") \/ Runs("bonding_curve")

BootMoves == BootStep /\ UNCHANGED <<bcVars, vars>>

WatcherMoves == Runs("watcher") /\ Step /\ UNCHANGED <<bootVars, bcVars>>

SealerMoves == Runs("bonding_curve") /\ BcStep /\ UNCHANGED <<bootVars, vars>>

\* A block with transfers to the service wallet.
Transfer(transfers) ==
    /\ Watched
    /\ Mine(transfers)
    /\ balance' = Deposited(TransferValue * MapThenSumSet(LAMBDA s : transfers[s], Sender))
    /\ UNCHANGED <<bootVars, gas_price, bc_pc, since, seen, open, waiting>>

OutsideMoves ==
    /\ Runs("bonding_curve")
    /\ GasMoves \/ LeafArrives
    /\ UNCHANGED <<bootVars, vars>>

\* The process dies, at any point, and is started again.
ProcessRestarts ==
    /\ boot_pc # "load"
    /\ Restart
    /\ BcCrash
    /\ boot_pc' = "load"
    /\ provider' = Nothing
    /\ host' = Nothing
    /\ tasks' = {}
    /\ UNCHANGED cfg

FundingNext ==
    \/ BootMoves
    \/ WatcherMoves
    \/ SealerMoves
    \/ \E transfers \in [Sender -> 0..MaxPerBlock] : Transfer(transfers)
    \/ OutsideMoves
    \/ ProcessRestarts

\* The runtime runs the loop.  The node answers again and again, and again and
\* again a cycle seals its epoch and gets every transaction sent that it tries.
LoopRuns == SealerMoves /\ (Wake \/ Skip \/ Decide)
NodeAnswers == SealerMoves /\ GetBalance
PriceAnswers == SealerMoves /\ (Skip \/ Decide)
CycleEnds == SealerMoves /\ bc_pc = "seal"
CycleSends ==
    /\ SealerMoves
    /\ \E sent \in 0..MaxWaiting : SealCycle(sent)
    /\ waiting' = 0

FundingSpec ==
    /\ FundingInit
    /\ [][FundingNext]_fundingVars
    /\ WF_fundingVars(LoopRuns)
    /\ WF_fundingVars(CycleEnds)
    /\ SF_fundingVars(NodeAnswers)
    /\ SF_fundingVars(PriceAnswers)
    /\ SF_fundingVars(CycleSends)

----------------------------------------------------------------------------
(* Properties. *)

\* The wallet pays for the margin whatever the gas price.
Funded == balance >= Multiplier * MaxGas

\* With the bonding curve, every sealed epoch gets its transaction, and an open
\* epoch with leaves meets a seal cycle, however the gas price moves and however
\* often the oracle or a cycle fails, as long as the wallet stays funded and the
\* process up: a skipped poll does not put the next seal off for ever.  The cycle
\* that an open epoch meets seals it, or loses its leaves if the write fails
\* (NoLeafDisappears, module Sealer): those are not among the sealed, and not promised here.
FundedIsPublished ==
    /\ Runs("bonding_curve") /\ waiting > 0
         ~> waiting = 0 \/ ~Funded \/ ~Runs("bonding_curve")
    /\ Runs("bonding_curve") /\ open
         ~> ~open \/ ~Funded \/ ~Runs("bonding_curve")

============================================================================
