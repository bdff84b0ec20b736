--------------------------- MODULE FundingProofs ---------------------------
(***************************************************************************)
(* A server process and the service wallet: no block is credited twice     *)
(* while the stored watermark can be read and none with transfers is       *)
(* passed over, for any chain, window, failures and restarts; and a        *)
(* process that seals can serve what it anchors, for any deployments.      *)
(***************************************************************************)
EXTENDS Funding, TLAPS

(***************************************************************************)
(* The watcher: its inductive invariant.                                   *)
(***************************************************************************)

\* What the argument needs of the types; the last conjunct: the scan under way
\* is the window after the task's watermark.
Shape ==
    /\ head \in 0..MaxBlock
    /\ watcher_watermark \in Nat
    /\ watcher_watermark <= head \/ watcher_watermark = NoMark
    /\ poisoned \in BOOLEAN
    /\ pc \in {"boot", "idle", "scan", "write"}
    /\ watermark \in Nat /\ watermark <= head
    /\ scan_end \in Nat /\ scan_end <= head
    /\ first \in Nat
    /\ counted \in [Block -> Nat]
    /\ again \in BOOLEAN
    /\ pc \in {"scan", "write"} => watermark < scan_end /\ scan_end <= watermark + Window

\* Only blocks behind the stored watermark were credited, and once; a task that
\* can still write stands at the stored watermark or after it.
OnceInv ==
    ~again =>
        /\ \A b \in Block :
              /\ counted[b] <= 1
              /\ counted[b] > 0 => watcher_watermark # NoMark /\ b <= watcher_watermark
        /\ pc # "boot" /\ ~poisoned /\ watcher_watermark # NoMark
              => watcher_watermark <= watermark

\* Behind the task's own watermark, too, no transfer is left out.
OwnInv ==
    \A b \in Block :
        first < b /\ b <= watermark /\ HasTransfers(b) /\ b \notin passed => counted[b] >= 1

WInv == Shape /\ OnceInv /\ OwnInv /\ NoBlockSkipped

----------------------------------------------------------------------------
(***************************************************************************)
(* Lemmas on the operators.                                                *)
(***************************************************************************)

\* The smaller of two naturals.
LEMMA MinPair ==
    ASSUME NEW a \in Nat, NEW b \in Nat
    PROVE  /\ Min({a, b}) \in Nat
           /\ Min({a, b}) <= a
           /\ Min({a, b}) <= b
           /\ Min({a, b}) = a \/ Min({a, b}) = b
<1>1. \E x \in {a, b} : \A y \in {a, b} : x <= y
  <2>1. CASE a <= b
    BY <2>1
  <2>2. CASE b <= a
    BY <2>2
  <2>. QED  BY <2>1, <2>2
<1>2. Min({a, b}) \in {a, b} /\ \A y \in {a, b} : Min({a, b}) <= y
  BY <1>1 DEF Min
<1>. QED  BY <1>2

\* A scan looks at every block up to the end the poll chose.
LEMMA ScannedAll ==
    ASSUME Shape, pc \in {"scan", "write"}
    PROVE  Scanned = (watermark + 1)..scan_end
<1>1. Window \in Nat /\ watermark \in Nat /\ scan_end \in Nat /\ scan_end <= watermark + Window
  BY WatcherAssumption DEF Shape
<1>2. watermark + 1 + Window - 1 \in Nat /\ scan_end <= watermark + 1 + Window - 1
  BY <1>1
<1>3. Min({scan_end, watermark + 1 + Window - 1}) = scan_end
  BY <1>1, <1>2, MinPair
<1>. QED  BY <1>3 DEF Scanned, scan_start

\* Transfers found nowhere in the window are in none of the blocks that came with
\* their transactions.
LEMMA NothingFound ==
    ASSUME Found = {}
    PROVE  \A b \in Scanned : HasTransfers(b) => b \in bare
BY DEF Found, HasTransfers

----------------------------------------------------------------------------

\* A fresh store and chain satisfy the invariant.
LEMMA InitWInv == Init => WInv
<1>. SUFFICES ASSUME Init PROVE WInv
  OBVIOUS
<1>. USE WatcherAssumption DEF Init, NoMark
<1>1. Shape
  <2>1. poisoned \in BOOLEAN /\ again \in BOOLEAN
    BY Zenon
  <2>2. counted \in [Block -> Nat]
    OBVIOUS
  <2>. QED  BY <2>1, <2>2 DEF Shape
<1>2. OnceInv
  BY DEF OnceInv
<1>3. OwnInv
  BY DEF OwnInv, Block
<1>4. NoBlockSkipped
  BY DEF NoBlockSkipped
<1>. QED  BY <1>1, <1>2, <1>3, <1>4 DEF WInv

\* A new block is ahead of everything the watcher looked at.
LEMMA MineWInv ==
    ASSUME WInv, NEW transfers, Mine(transfers)
    PROVE  WInv'
<1>. USE WatcherAssumption DEF WInv, Mine, NoMark
<1>1. Shape'
  BY DEF Shape
<1>2. OnceInv'
  BY DEF OnceInv
<1>3. \A b \in Block : b <= head => HasTransfers(b)' = HasTransfers(b)
  BY DEF HasTransfers, Shape, Block
<1>4. OwnInv'
  BY <1>3 DEF OwnInv, Shape, Block
<1>5. NoBlockSkipped'
  BY <1>3 DEF NoBlockSkipped, Shape, Block
<1>. QED  BY <1>1, <1>2, <1>4, <1>5

\* A restart reopens the store and forgets the task.
LEMMA RestartWInv ==
    ASSUME WInv, Restart
    PROVE  WInv'
<1>. USE WatcherAssumption DEF WInv, Restart, NoMark
<1>1. Shape'
  <2>1. poisoned' \in BOOLEAN
    BY Zenon
  <2>. QED  BY <2>1 DEF Shape
<1>2. OnceInv'
  BY DEF OnceInv
<1>3. OwnInv'
  BY DEF OwnInv, Shape, Block
<1>4. NoBlockSkipped'
  BY DEF NoBlockSkipped, HasTransfers
<1>. QED  BY <1>1, <1>2, <1>3, <1>4

\* A start leaves the totals alone; at a stored watermark, or before it only
\* when that could not be read.
LEMMA BeginWInv ==
    ASSUME WInv, NEW w \in Nat, w <= head, Begin(w), again' \in BOOLEAN,
           again => again',
           ~again' /\ watcher_watermark # NoMark => w = watcher_watermark,
           watcher_watermark # NoMark => w = watcher_watermark \/ w = 0
    PROVE  WInv'
<1>. USE WatcherAssumption DEF WInv, Begin, NoMark
<1>1. Shape'
  BY DEF Shape
<1>2. OnceInv'
  BY DEF OnceInv, Shape
<1>3. \A b \in Block : HasTransfers(b)' = HasTransfers(b)
  BY DEF HasTransfers
<1>4. OwnInv'
  BY <1>3 DEF OwnInv, NoBlockSkipped, Shape, Block
<1>5. NoBlockSkipped'
  BY <1>3 DEF NoBlockSkipped, Shape, Block
<1>. QED  BY <1>1, <1>2, <1>4, <1>5

\* A poll chooses a window after the task's watermark.
LEMMA PollWInv ==
    ASSUME WInv, NEW latest \in latest_block, Poll(latest)
    PROVE  WInv'
<1>. USE WatcherAssumption DEF WInv, Poll, NoMark
<1>1. latest \in Nat /\ latest <= head /\ watermark + Window \in Nat
  BY DEF latest_block, Shape
<1>2. /\ scan_end' \in Nat /\ scan_end' <= latest /\ scan_end' <= watermark + Window
      /\ scan_end' = latest \/ scan_end' = watermark + Window
  BY <1>1, MinPair
<1>3. Shape'
  BY <1>1, <1>2 DEF Shape
<1>4. OnceInv'
  BY DEF OnceInv
<1>5. OwnInv' /\ NoBlockSkipped'
  BY DEF OwnInv, NoBlockSkipped, HasTransfers
<1>. QED  BY <1>3, <1>4, <1>5

\* The end of a scan writes nothing by itself.
LEMMA LeaveWInv ==
    ASSUME WInv, pc = "scan", NEW pc_ \in {"idle", "write"}, Leave(pc_)
    PROVE  WInv'
<1>. USE WatcherAssumption DEF WInv, Leave, NoMark
<1>1. Shape'
  BY DEF Shape
<1>2. OnceInv'
  BY DEF OnceInv
<1>3. OwnInv' /\ NoBlockSkipped'
  BY DEF OwnInv, NoBlockSkipped, HasTransfers
<1>. QED  BY <1>1, <1>2, <1>3

\* The end of a scan, with or without transfers: the blocks of the window are
\* counted exactly when the watermark behind them is stored; the task moves on
\* when the write succeeded, or when there was nothing to credit.
LEMMA WriteWInv ==
    ASSUME WInv, pc = "write", NEW o \in {"ok", "fail", "late"},
           Commit(o), Count(o),
           watcher_watermark' = IF o # "fail" THEN scan_end ELSE watcher_watermark,
           watermark' = scan_end \/ watermark' = watermark,
           o = "ok" => watermark' = scan_end,
           watermark' = scan_end /\ o = "fail" => Found = {},
           pc' = "idle", UNCHANGED <<head, blocks, scan_end, first, again>>
    PROVE  WInv'
<1>. USE WatcherAssumption DEF WInv, NoMark
<1>1. Scanned = (watermark + 1)..scan_end
  BY ScannedAll
<1>2. /\ watermark \in Nat /\ scan_end \in Nat /\ watermark < scan_end
      /\ scan_end <= head /\ head \in 0..MaxBlock /\ head \in Nat
  BY DEF Shape
<1>3. poisoned' \in BOOLEAN /\ (poisoned => o = "fail") /\ (o = "late" => poisoned')
      /\ (poisoned => poisoned')
  BY DEF Commit, WriteOutcomes, Shape
<1>4. /\ counted' \in [Block -> Nat]
      /\ \A b \in Block : counted'[b] =
            IF o # "fail" /\ b \in ((watermark + 1)..scan_end) \ bare THEN counted[b] + 1 ELSE counted[b]
  BY <1>1 DEF Count, Shape
<1>11. /\ \A b : b \notin passed' => b \notin passed
       /\ o # "fail" \/ Found = {} => \A b : b \notin passed' => b \notin bare
  BY DEF Count
<1>5. Shape'
  BY <1>2, <1>3, <1>4 DEF Shape
<1>6. OnceInv'
  BY <1>2, <1>3, <1>4 DEF OnceInv, Shape, Block
<1>7. \A b \in Block : HasTransfers(b)' = HasTransfers(b)
  BY DEF HasTransfers
<1>8. watermark' = scan_end /\ o = "fail" =>
          \A b \in (watermark + 1)..scan_end : HasTransfers(b) => b \in bare
  BY <1>1, NothingFound
<1>9. OwnInv'
  <2>. SUFFICES ASSUME NEW b \in Block, first < b, b <= watermark', HasTransfers(b), b \notin passed'
                PROVE  counted'[b] >= 1
    BY <1>7 DEF OwnInv
  <2>1. b \in Nat /\ counted[b] \in Nat
    BY DEF Shape, Block
  <2>2. CASE b <= watermark
    <3>1. counted[b] >= 1
      BY <1>11, <2>2 DEF OwnInv
    <3>. QED  BY <1>4, <2>1, <3>1
  <2>3. CASE ~(b <= watermark)
    <3>1. b \in (watermark + 1)..scan_end /\ watermark' = scan_end
      BY <1>2, <2>1, <2>3
    <3>2. o # "fail" /\ b \notin bare
      BY <1>8, <1>11, <3>1
    <3>. QED  BY <1>4, <2>1, <3>1, <3>2
  <2>. QED  BY <2>2, <2>3
<1>10. NoBlockSkipped'
  <2>. SUFFICES ASSUME watcher_watermark' # NoMark, NEW b \in Block, first < b, b <= watcher_watermark',
                       HasTransfers(b), b \notin passed'
                PROVE  counted'[b] >= 1
    BY <1>7 DEF NoBlockSkipped
  <2>1. b \in Nat /\ counted[b] \in Nat /\ b \notin passed /\ counted'[b] \in Nat
    BY <1>4, <1>11 DEF Shape, Block
  <2>2. CASE o = "fail"
    BY <1>4, <2>1, <2>2 DEF NoBlockSkipped
  <2>3. CASE o # "fail" /\ b <= watermark
    BY <1>4, <2>1, <2>3 DEF OwnInv
  <2>4. CASE o # "fail" /\ ~(b <= watermark)
    <3>1. b \in ((watermark + 1)..scan_end) \ bare
      BY <1>2, <1>11, <2>1, <2>4
    <3>. QED  BY <1>4, <2>1, <2>4, <3>1
  <2>. QED  BY <2>2, <2>3, <2>4
<1>. QED  BY <1>5, <1>6, <1>9, <1>10

\* Every step of the watcher, of the chain and of the process keeps WInv.
LEMMA NextWInv == WInv /\ [Next]_vars => WInv'
<1>. SUFFICES ASSUME WInv, [Next]_vars PROVE WInv'
  OBVIOUS
<1>1. CASE UNCHANGED vars
  BY <1>1 DEF vars, WInv, Shape, OnceInv, OwnInv, NoBlockSkipped, HasTransfers
<1>2. CASE \E transfers \in [Sender -> 0..MaxPerBlock] : Mine(transfers)
  BY <1>2, MineWInv
<1>3. CASE Restart
  BY <1>3, RestartWInv
<1>4. CASE BootStored
  BY <1>4, BeginWInv DEF BootStored, WInv, Shape
<1>5. CASE BootFresh
  <2>1. PICK w \in latest_block \cup {0} : Begin(w)
    BY <1>5 DEF BootFresh
  <2>2. w \in Nat /\ w <= head
    BY <2>1, WatcherAssumption DEF latest_block, WInv, Shape
  <2>. QED  BY <1>5, <2>1, <2>2, BeginWInv DEF BootFresh, WInv, Shape
<1>6. CASE BootUnread
  <2>1. 0 <= head /\ again \in BOOLEAN
    BY WatcherAssumption DEF WInv, Shape
  <2>2. again' \in BOOLEAN /\ (again => again') /\ (~again' => watcher_watermark = NoMark)
    BY <1>6, <2>1 DEF BootUnread
  <2>. QED  BY <1>6, <2>1, <2>2, BeginWInv DEF BootUnread
<1>7. CASE PollNothing
  BY <1>7 DEF PollNothing, vars, WInv, Shape, OnceInv, OwnInv, NoBlockSkipped, HasTransfers
<1>8. CASE \E latest \in latest_block : Poll(latest)
  BY <1>8, PollWInv
<1>9. CASE ScanFails
  BY <1>9, LeaveWInv DEF ScanFails
<1>10. ASSUME NEW skipped, ScanOk(skipped) PROVE WInv'
  BY <1>10, LeaveWInv DEF ScanOk
<1>11. ASSUME NEW o \in {"ok", "fail", "late"}, NEW unread \in SUBSET Sender,
              ProcessTransfers(o, unread)
       PROVE  WInv'
  <2>1. /\ pc = "write" /\ Commit(o) /\ Count(o) /\ pc' = "idle"
        /\ watcher_watermark' = IF o # "fail" THEN scan_end ELSE watcher_watermark
        /\ watermark' = IF o = "ok" THEN scan_end ELSE watermark
        /\ UNCHANGED <<head, blocks, scan_end, first, again>>
    BY <1>11 DEF ProcessTransfers, upsert_contributors_and_watermark
  <2>2. watermark < scan_end /\ watermark \in Nat /\ scan_end \in Nat
    BY <2>1 DEF WInv, Shape
  <2>. QED  BY <2>1, <2>2, WriteWInv
<1>12. ASSUME NEW o \in {"ok", "fail", "late"}, ProcessNothing(o)
       PROVE  WInv'
  <2>1. /\ pc = "write" /\ Commit(o) /\ Count(o) /\ pc' = "idle"
        /\ watcher_watermark' = IF o # "fail" THEN scan_end ELSE watcher_watermark
        /\ watermark' = scan_end /\ Found = {}
        /\ UNCHANGED <<head, blocks, scan_end, first, again>>
    BY <1>12 DEF ProcessNothing, set_watermark
  <2>. QED  BY <2>1, WriteWInv
<1>. QED
  BY <1>1, <1>2, <1>3, <1>4, <1>5, <1>6, <1>7, <1>8, <1>9, <1>10, <1>11, <1>12
  DEF Next, Step

----------------------------------------------------------------------------

\* The watcher credits no block twice as long as its stored watermark can be
\* read (spawn_watcher, upsert_contributors_and_watermark).
THEOREM NoBlockCountedTwice == Spec => []CountedOnce
<1>1. WInv => CountedOnce
  BY DEF WInv, OnceInv, CountedOnce
<1>. QED  BY <1>1, InitWInv, NextWInv, PTL DEF Spec

\* The watcher passes over no block with transfers behind the watermark it
\* stores, whatever fails (spawn_watcher, scan_blocks).
THEOREM NoTransferLeftBehind == Spec => []NoBlockSkipped
<1>1. WInv => NoBlockSkipped
  BY DEF WInv
<1>. QED  BY <1>1, InitWInv, NextWInv, PTL DEF Spec

----------------------------------------------------------------------------
(***************************************************************************)
(* The start of the process.                                               *)
(***************************************************************************)

\* Every step of the start keeps BootInv.
LEMMA BootStepInv == ASSUME BootInv, BootStep PROVE BootInv'
<1> USE DEF Go, Refuse
<1>1. CASE from_env
  BY <1>1 DEF from_env, BootInv
<1>2. CASE Checks
  BY <1>2 DEF Checks, BootInv, check_evm_chain_source
<1>3. CASE OpenStore \/ StoreFails
  BY <1>3 DEF OpenStore, StoreFails, BootInv, check_evm_chain_source
<1>4. CASE Wire
  <2> DEFINE p == [m \in AnchorMethod |-> Wired(m, cfg.injected)]
             h == [m \in AnchorMethod |-> Wired(m, cfg.injectedHost)]
  <2>1. boot_pc = "wire" /\ cfg' = cfg /\ tasks = {} /\ tasks' = {} /\ boot_pc' \in {"spawn", "refused"}
    BY <1>4 DEF Wire, BootInv
  <2>2. boot_pc' = "spawn" => provider' = p /\ host' = h
    BY <1>4 DEF Wire
  <2>3. \A m \in AnchorMethod : p[m] = Wired(m, cfg.injected) /\ h[m] = Wired(m, cfg.injectedHost)
    OBVIOUS
  <2>4. \A m, o : Wired(m, o) # "none" <=> m \in cfg.enabled
    BY DEF Wired
  <2> HIDE DEF p, h
  <2> QED
    BY <2>1, <2>2, <2>3, <2>4 DEF BootInv, check_evm_chain_source
<1>5. CASE Spawn
  BY <1>5 DEF Spawn, BootInv, check_evm_chain_source
<1>6. CASE Bind \/ BindFails
  BY <1>6 DEF Bind, BindFails, BootInv, check_evm_chain_source
<1> QED
  BY <1>1, <1>2, <1>3, <1>4, <1>5, <1>6 DEF BootStep

\* So does everything else: the process is left alone, or starts anew.
LEMMA FundingBootInv == BootInv /\ [FundingNext]_fundingVars => BootInv'
<1> SUFFICES ASSUME BootInv, [FundingNext]_fundingVars PROVE BootInv'
  OBVIOUS
<1>1. CASE BootMoves
  BY <1>1, BootStepInv DEF BootMoves
<1>2. CASE UNCHANGED bootVars
  BY <1>2 DEF bootVars, BootInv, check_evm_chain_source
<1>3. CASE ProcessRestarts
  BY <1>3 DEF ProcessRestarts, BootInv
<1>4. CASE WatcherMoves \/ SealerMoves \/ OutsideMoves
  BY <1>2, <1>4 DEF WatcherMoves, SealerMoves, OutsideMoves
<1>5. ASSUME NEW transfers, Transfer(transfers) PROVE BootInv'
  BY <1>2, <1>5 DEF Transfer
<1>6. CASE UNCHANGED fundingVars
  BY <1>2, <1>6 DEF fundingVars
<1> QED
  BY <1>1, <1>3, <1>4, <1>5, <1>6 DEF FundingNext

\* A process that runs a seal task has, for every enabled method and no other, a
\* provider and a host, and its EVM anchors name the chain they are looked up on,
\* for any deployments (build_app_with_anchors, check_evm_chain_source).
THEOREM SealerCanServe == FundingSpec => []SealsWhatItCanServe
<1>1. FundingInit => BootInv
  BY DEF FundingInit, BootInit, BootInv
<1>2. ASSUME BootInv PROVE SealsWhatItCanServe
  <2> SUFFICES ASSUME tasks # {}
               PROVE  /\ \A m \in AnchorMethod :
                            /\ provider[m] # "none" <=> m \in cfg.enabled
                            /\ host[m] # "none" <=> m \in cfg.enabled
                      /\ "evm" \in cfg.enabled =>
                            /\ cfg.timeout
                            /\ {ReadBack(evm_chain(cfg.chain))} \cup cfg.labels = {evm_chain(cfg.chain)}
    BY DEF SealsWhatItCanServe
  <2>1. boot_pc \in {"bind", "up"}
    BY <1>2 DEF BootInv
  <2>2. check_evm_chain_source(cfg)
    BY <1>2, <2>1 DEF BootInv
  <2>3. \A m \in AnchorMethod :
           /\ provider[m] # "none" <=> m \in cfg.enabled
           /\ host[m] # "none" <=> m \in cfg.enabled
    BY <1>2, <2>1 DEF BootInv
  <2> QED
    <3>1. "evm" \in cfg.enabled => cfg.timeout
      BY <2>2, Zenon DEF check_evm_chain_source
    <3>2. "evm" \in cfg.enabled => /\ ReadBack(evm_chain(cfg.chain)) = evm_chain(cfg.chain)
                                   /\ \A l \in cfg.labels : l = evm_chain(cfg.chain)
      BY <2>2, Zenon DEF check_evm_chain_source
    <3>3. "evm" \in cfg.enabled =>
              {ReadBack(evm_chain(cfg.chain))} \cup cfg.labels = {evm_chain(cfg.chain)}
      BY <3>2
    <3>4. "evm" \in cfg.enabled =>
              /\ cfg.timeout
              /\ {ReadBack(evm_chain(cfg.chain))} \cup cfg.labels = {evm_chain(cfg.chain)}
      BY <3>1, <3>3, Zenon
    <3> QED
      BY <2>3, <3>4, Zenon
<1> QED
  BY <1>1, <1>2, FundingBootInv, PTL DEF FundingSpec

----------------------------------------------------------------------------
(***************************************************************************)
(* The watcher in the process.                                             *)
(***************************************************************************)

\* The process and its wallet take steps of the watcher, of its chain and of its
\* restarts: whatever else runs beside it.
THEOREM FundingRefinesWatcher == FundingSpec => Spec
<1>1. FundingInit => Init
  BY DEF FundingInit
<1>2. [FundingNext]_fundingVars => [Next]_vars
  <2> SUFFICES ASSUME [FundingNext]_fundingVars PROVE [Next]_vars
    OBVIOUS
  <2>1. CASE BootMoves \/ SealerMoves \/ OutsideMoves
    BY <2>1 DEF BootMoves, SealerMoves, OutsideMoves
  <2>2. CASE WatcherMoves
    BY <2>2 DEF WatcherMoves, Next
  <2>3. ASSUME NEW transfers \in [Sender -> 0..MaxPerBlock], Transfer(transfers) PROVE Next
    BY <2>3 DEF Transfer, Next
  <2>4. CASE ProcessRestarts
    BY <2>4 DEF ProcessRestarts, Next
  <2>5. CASE UNCHANGED fundingVars
    BY <2>5 DEF fundingVars
  <2> QED
    BY <2>1, <2>2, <2>3, <2>4, <2>5 DEF FundingNext
<1> QED
  BY <1>1, <1>2, PTL DEF FundingSpec, Spec

\* In the running process, too, every transfer behind the stored watermark is
\* credited, and none twice while that watermark can be read.
THEOREM WatcherInProcess == FundingSpec => [](CountedOnce /\ NoBlockSkipped)
BY FundingRefinesWatcher, NoBlockCountedTwice, NoTransferLeftBehind, PTL

============================================================================
