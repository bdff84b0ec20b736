------------------------------ MODULE Watcher ------------------------------
(***************************************************************************)
(* The funding watcher (watcher.rs): a task that polls the chain, scans    *)
(* the new blocks for transfers to the service wallet, adds them to the    *)
(* contributors' totals and advances its watermark.                        *)
(*                                                                         *)
(*   boot --> idle --Poll--> scan --ScanOk--> write --> idle               *)
(*                                                                         *)
(* The chain only grows (no reorganisation); a node may lag behind it.     *)
(* Every transfer is worth one unit.  Store writes fail as in module       *)
(* Store: "fail", or "late" and then no write until the next start.        *)
(***************************************************************************)
EXTENDS Naturals, FiniteSets, FiniteSetsExt

CONSTANTS
    Sender,         \* wallets
    MaxPerBlock,    \* bound: transfers of one wallet in a block
    MaxBlock,       \* bound: blocks
    Window,         \* blocks per scan (100)
    StoreFaults,    \* the write failures explored
    ReadFaults,     \* TRUE: reading a row may fail
    MaxBare,        \* bound: blocks left behind for want of their transactions
    MaxCrashes      \* bound: restarts

ASSUME WatcherAssumption ==
    /\ MaxPerBlock \in Nat
    /\ MaxBlock \in Nat
    /\ Window \in Nat \ {0}
    /\ StoreFaults \subseteq {"fail", "late"}
    /\ ReadFaults \in BOOLEAN
    /\ MaxBare \in Nat
    /\ MaxCrashes \in Nat

Block == 1..MaxBlock
NoMark == MaxBlock + 1      \* no watermark row

VARIABLES
    head,               \* newest block of the chain
    blocks,             \* block |-> wallet |-> transfers to the service
    contributor_stats,  \* wallet |-> fuel_contributed_wei, 0 without a row
    watcher_watermark,  \* the stored watermark, or NoMark
    poisoned,           \* fjall refuses writes since a sync failed
    pc,                 \* where the task is
    watermark,          \* its own watermark
    scan_end,           \* last block of the scan under way
    bare                \* blocks of it that came without their transactions

\* History variables.
VARIABLES
    first,      \* where the task that stored the first watermark began
    counted,    \* block |-> times it was added to the totals
    passed,     \* blocks left behind because they came bare
    again,      \* a stored watermark could not be read
    crashes

vars == <<head, blocks, contributor_stats, watcher_watermark, poisoned, pc,
          watermark, scan_end, bare, first, counted, passed, again, crashes>>

TypeOK ==
    /\ head \in 0..MaxBlock
    /\ blocks \in [Block -> [Sender -> 0..MaxPerBlock]]
    /\ contributor_stats \in [Sender -> Nat]
    /\ watcher_watermark \in 0..NoMark
    /\ poisoned \in BOOLEAN
    /\ pc \in {"boot", "idle", "scan", "write"}
    /\ watermark \in 0..MaxBlock
    /\ scan_end \in 0..MaxBlock
    /\ bare \in SUBSET Block
    /\ passed \in SUBSET Block
    /\ first \in 0..MaxBlock
    /\ counted \in [Block -> Nat]
    /\ again \in BOOLEAN
    /\ crashes \in 0..MaxCrashes

NoTransfers == [s \in Sender |-> 0]

Init ==
    /\ head = 0
    /\ blocks = [b \in Block |-> NoTransfers]
    /\ contributor_stats = [s \in Sender |-> 0]
    /\ watcher_watermark = NoMark
    /\ poisoned = FALSE
    /\ pc = "boot"
    /\ watermark = 0
    /\ scan_end = 0
    /\ bare = {}
    /\ passed = {}
    /\ first = 0
    /\ counted = [b \in Block |-> 0]
    /\ again = FALSE
    /\ crashes = 0

----------------------------------------------------------------------------
(* The outside. *)

\* A block with any transfers to the service.
Mine(transfers) ==
    /\ head < MaxBlock
    /\ head' = head + 1
    /\ blocks' = [blocks EXCEPT ![head + 1] = transfers]
    /\ UNCHANGED <<contributor_stats, watcher_watermark, poisoned, pc, watermark,
                   scan_end, bare, first, counted, passed, again, crashes>>

\* The process dies and is started again; the store is reopened.
Restart ==
    /\ crashes < MaxCrashes
    /\ crashes' = crashes + 1
    /\ pc' = "boot"
    /\ watermark' = 0
    /\ scan_end' = 0
    /\ bare' = {}
    /\ poisoned' = FALSE
    /\ UNCHANGED <<head, blocks, contributor_stats, watcher_watermark, first, counted, passed,
                   again>>

\* What a node may answer as its newest block.
latest_block == 0..head

----------------------------------------------------------------------------
(* spawn_watcher: the start. *)

Begin(w) ==
    /\ pc = "boot"
    /\ pc' = "idle"
    /\ watermark' = w
    /\ first' = IF watcher_watermark = NoMark THEN w ELSE first
    /\ UNCHANGED <<head, blocks, contributor_stats, watcher_watermark, poisoned,
                   scan_end, bare, counted, passed, crashes>>

BootStored ==
    /\ watcher_watermark # NoMark
    /\ Begin(watcher_watermark)
    /\ UNCHANGED again

\* No watermark yet: from the current block on, or from 0 when the node fails.
BootFresh ==
    /\ watcher_watermark = NoMark
    /\ \E w \in latest_block \cup {0} : Begin(w)
    /\ UNCHANGED again

\* The stored watermark cannot be read: from 0.
BootUnread ==
    /\ ReadFaults
    /\ Begin(0)
    /\ again' = (again \/ watcher_watermark # NoMark)

----------------------------------------------------------------------------
(* spawn_watcher: the loop. *)

\* The first block of a scan.
scan_start == watermark + 1

\* latest_block fails, or shows nothing new.
PollNothing == pc = "idle" /\ UNCHANGED vars

\* A poll that sees new blocks.
Poll(latest) ==
    /\ pc = "idle"
    /\ latest > watermark
    /\ pc' = "scan"
    /\ scan_end' = Min({latest, watermark + Window})
    /\ UNCHANGED <<head, blocks, contributor_stats, watcher_watermark, poisoned,
                   watermark, bare, first, counted, passed, again, crashes>>

Leave(pc_) ==
    /\ pc' = pc_
    /\ UNCHANGED <<head, blocks, contributor_stats, watcher_watermark, poisoned,
                   watermark, scan_end, first, counted, passed, again, crashes>>

\* A block could not be fetched: the whole scan is given up.
ScanFails == pc = "scan" /\ Leave("idle") /\ UNCHANGED bare

\* Faulty variant: the cap leaves the last block out.
ScannedShort == scan_start..Min({scan_end, scan_start + Window - 2})

\* scan_blocks looks at from..=to, capped at Window blocks.
Scanned == scan_start..Min({scan_end, scan_start + Window - 1})

HasTransfers(b) == \E s \in Sender : blocks[b][s] > 0

\* Every block is fetched.  One that comes without its transactions is skipped,
\* which only matters if it has some for the service.
ScanOk(skipped) ==
    /\ pc = "scan"
    /\ skipped \subseteq {b \in Scanned : HasTransfers(b)}
    /\ Cardinality(passed \cup skipped) <= MaxBare
    /\ bare' = skipped
    /\ Leave("write")

\* filter_transfers: the wallets found in the scanned blocks.
Found == {s \in Sender : \E b \in Scanned \ bare : blocks[b][s] > 0}

\* The row each found transfer leads to: what is stored plus that transfer.
\* Rows of one wallet replace each other in the batch, the last one stays.  A
\* row that cannot be read counts as absent.
NewTotal(s, read) == IF read THEN contributor_stats[s] + 1 ELSE 1

WriteOutcomes == IF poisoned THEN {"fail"} ELSE {"ok"} \cup StoreFaults

Commit(o) ==
    /\ o \in WriteOutcomes
    /\ poisoned' = (poisoned \/ o = "late")

\* The scanned blocks are added, unless nothing was written; the skipped ones are
\* left behind when the task goes on.
Count(o) ==
    /\ counted' = [b \in Block |->
          IF o # "fail" /\ b \in Scanned \ bare THEN counted[b] + 1 ELSE counted[b]]
    /\ passed' = IF o # "fail" \/ Found = {} THEN passed \cup bare ELSE passed
    /\ bare' = {}

\* Faulty variant: the watermark is not part of the batch.
upsert_without_watermark(o, rows) ==
    /\ Commit(o)
    /\ contributor_stats' = IF o # "fail" THEN rows ELSE contributor_stats
    /\ UNCHANGED watcher_watermark

\* Totals and watermark in one batch.
upsert_contributors_and_watermark(o, rows) ==
    /\ Commit(o)
    /\ contributor_stats' = IF o # "fail" THEN rows ELSE contributor_stats
    /\ watcher_watermark' = IF o # "fail" THEN scan_end ELSE watcher_watermark

\* The watermark alone.
set_watermark(o) ==
    /\ Commit(o)
    /\ watcher_watermark' = IF o # "fail" THEN scan_end ELSE watcher_watermark
    /\ UNCHANGED contributor_stats

\* Transfers found.  After an error the task keeps its watermark and will scan
\* the same blocks again.
ProcessTransfers(o, unread) ==
    /\ pc = "write" /\ Found # {}
    /\ unread \subseteq Found
    /\ unread # {} => ReadFaults
    /\ upsert_contributors_and_watermark(o, [s \in Sender |->
          IF s \in Found THEN NewTotal(s, s \notin unread) ELSE contributor_stats[s]])
    /\ Count(o)
    /\ watermark' = IF o = "ok" THEN scan_end ELSE watermark
    /\ pc' = "idle"
    /\ UNCHANGED <<head, blocks, scan_end, first, again, crashes>>

\* Nothing found: an error is only logged, the task goes on.
ProcessNothing(o) ==
    /\ pc = "write" /\ Found = {}
    /\ set_watermark(o)
    /\ Count(o)
    /\ watermark' = scan_end
    /\ pc' = "idle"
    /\ UNCHANGED <<head, blocks, scan_end, first, again, crashes>>

Step ==
    \/ BootStored
    \/ BootFresh
    \/ BootUnread
    \/ PollNothing
    \/ \E latest \in latest_block : Poll(latest)
    \/ ScanFails
    \/ \E skipped \in SUBSET Block : ScanOk(skipped)
    \/ \E o \in {"ok", "fail", "late"} :
          \/ \E unread \in SUBSET Sender : ProcessTransfers(o, unread)
          \/ ProcessNothing(o)

Next ==
    \/ \E transfers \in [Sender -> 0..MaxPerBlock] : Mine(transfers)
    \/ Step
    \/ Restart

Spec == Init /\ [][Next]_vars

----------------------------------------------------------------------------
(* Properties. *)

\* As long as the stored watermark can be read, no block's transfers are added
\* twice: not after a scan or a write that failed, nor one that was applied and
\* then reported as failed, nor a restart.
CountedOnce ==
    ~again => \A b \in Block : HasTransfers(b) => counted[b] <= 1

\* No block with transfers is passed over: what lies behind the watermark was
\* added, since the first watermark was stored, and also when rows cannot be
\* read, unless the node kept its transactions back (scan_blocks goes on).
NoBlockSkipped ==
    watcher_watermark # NoMark =>
        \A b \in Block :
            first < b /\ b <= watcher_watermark /\ HasTransfers(b) /\ b \notin passed
                => counted[b] >= 1

\* Transfers of wallet s in processed blocks.
Contributed(s) ==
    MapThenSumSet(LAMBDA b : blocks[b][s], {b \in Block : counted[b] > 0})

\* What is processed is in the totals: a wallet's fuel_contributed_wei is the
\* sum of its transfers in the blocks behind the watermark.
ProcessedIsCounted == \A s \in Sender : contributor_stats[s] = Contributed(s)

============================================================================
