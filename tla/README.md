# A TLA+ development for aqua-timestamps

aqua-timestamps is an aggregating timestamp server for Aqua revisions. Clients
submit 32-byte leaves over HTTP; once per epoch the server closes the set of
leaves collected so far, computes one Merkle root, has that root anchored by
one or more methods (an Ethereum transaction, `evm`; a qualified TSA token,
`qtsa`), and serves every leaf a witness (inclusion proof + anchor) once the
anchor has been verified. The repository also has a client library, an
end-to-end harness and a small funding/leaderboard subsystem.

This directory holds the specifications, the TLC instances that check them,
and the TLAPS proofs. `PROJECT.json` maps each definition to the lines of code
it models. All paths below are relative to `crates/`.

## 1. Inventory

| Component | State it keeps | Operations | What makes it correct |
|---|---|---|---|
| Accumulator (`aqua-timestamp-core/src/accumulator.rs`) | the open epoch's id and leaves (first submitter per leaf), in memory, under a mutex | `append_batch`, `swap_and_open_next` | a batch is taken whole or not at all; the cap holds; a leaf is in the epoch its answer named |
| Sealer (`.../sealer.rs`) | the record being settled, methods that failed this tick | `seal_once`, `retry_pending`, `settle_method`, `store_anchor`, `settle_missing`, the seal loops | every closed epoch is made durable, every method is eventually served or visibly stalled, no anchor is paid for without need, nothing unverified is served |
| Pending epochs, minting (`.../witness.rs`) | per epoch: methods outstanding, anchor, first_seen, fault count | `PendingEpoch::*`, `EpochBatch::mint` | a record never loses a method except by serving it |
| Store (`.../storage.rs`) | fjall partitions: epochs, leaves, pending records, witnesses, tips, owners, contributors | `persist_sealed_epoch_with_pending`, `save_pending`, `persist_pending_minted`, `upsert_contributors_and_watermark`, reads | each batch is all-or-nothing for readers; lookups and records agree |
| Anchor providers, self-check (`.../anchors.rs`, `selfcheck.rs`) | none (chain and TSA are external) | `create_timestamp`, `check_evm`, `check_tsa` | the verdict is about the anchor that will be served |
| HTTP API (`aqua-timestamp/src/routes.rs`) | none; reads the store in several separate reads | `submit_leaves`, the epoch, tree and union routes, `schedule`, SSE | answers built from several reads are consistent |
| Start-up (`aqua-timestamp/src/main.rs`, `lib.rs`, `config.rs`, `identity.rs`) | the configuration, the key, providers and hosts, the spawned tasks | `main`, `check_enabled_anchors`, `check_evm_chain_source`, `from_env`, `build_app_with_anchors`, `WitnessContext::validate` | what is sealed can be served; epoch ids are never reused after a restart |
| Event bus (`.../events.rs`) | a bounded broadcast ring | send, subscribe | what `EpochSealed` announces is there |
| Bonding curve, balance oracle (`.../bonding_curve.rs`, `oracle.rs`) | virtual blocks since the last seal | `run_sealer_with_bonding_curve`, `balance_and_gas_cost` | an oracle error, a moving gas price or a failed cycle does not put sealing off for ever |
| Funding watcher, leaderboard (`aqua-timestamp/src/watcher.rs`, `leaderboard.rs`) | watermark and contributor totals | block scan, upsert | a transfer is counted exactly once |
| Server auth (`aqua-timestamp/src/auth.rs`) | challenges, sessions | `challenge`, `session`, `BearerDid` | a challenge is used once; only its DID gets the session |
| Client token cache (`aqua-timestamp-client/src/auth.rs`) | cached token, in-flight flag, notifier | `ensure_token`, `run_refresh` | one refresh at a time; every caller returns |
| Client (`.../client.rs`) | the pinned DID, the token cache | `build`, `submit_many`, `try_fetch_witness`, `await_witness`, `schedule` | a witness handed out is settled and of the pinned DID; an error means that something failed |
| Known servers, trust (`.../known_servers.rs`, `trust.rs`, `identity.rs`) | a file with one line per server | `open`, `lookup`, `record`, `flush`, `discover`, `apply_rotation_policy` | a recorded identity is never silently replaced |
| End-to-end test (`aqua-timestamp-e2e`) | the identity directory, the run directory | `live`, `selfcheck`, `seal`, `seal-replay` | one identity; a pass is sound and can be replayed; what was submitted stays on disk; runs end |

How the parts interact. HTTP handlers run concurrently with one sealer task
and one watcher task (the bonding-curve loop takes the place of the interval
loop when it is enabled). Handlers and sealer share the accumulator (mutex) and
the store (fjall, no transactions across reads). The sealer awaits provider
calls and self-checks; between two awaits anything else can run. The process
may be killed at any point; what survives is the store. The providers' chain
is outside and moves on its own. The client and the end-to-end test are other
programs: they see the server through its routes only, and may outlive it.

The hard behaviours, each with its line in `PROJECT.json` under `hazards`: the
swap racing submissions; the only copy of the closed epoch living in memory
until it is persisted; an anchor that exists outside but was not saved; a
record in memory that differs from the stored one after a failed write; fjall
refusing all writes after a failed sync; a method shared by several pending
epochs; a transaction abandoned by timeout that confirms after all; one leaf
in several pending epochs; ids recomputed at start-up; a chain named in several
places of the configuration; a seal interval recomputed in every poll; a
success status that is not a witness yet; a file of trusted servers rewritten
by programs that die; runs racing for one identity; deadlines that meet a late
answer; a run directory filled file by file around one POST.

## 2. Modules

| Module | Models | EXTENDS |
|---|---|---|
| `Accumulator` | the open epoch | |
| `PendingEpoch` | the pending record and its updates (operators only) | |
| `Store` | the partitions the sealer uses, their write batches and how a write fails | `Accumulator`, `PendingEpoch` |
| `AnchorProvider` | the chain, the TSA and the verdicts of the self-check (external, as used) | `Accumulator`, `PendingEpoch` |
| `Sealer` | submission, seal tick, restart over all of these; the properties | `Store`, `AnchorProvider` |
| `SealerInv` | the inductive invariants | `Sealer` |
| `SealerProofs`, `ServedProofs` | the proofs | `SealerInv`, TLAPS; `SealerProofs` |
| `Ledger` | what the aggregator promises of sealed epochs (abstract) | |
| `SealerLedger` | the refinement mapping from `Sealer` to `Ledger` | `SealerInv` (and `Ledger` by INSTANCE) |
| `LedgerProofs` | the proof of the refinement | `SealerProofs`, `SealerLedger` |
| `Reader` | the witness routes, cut at their store reads, over the running `Sealer` | `Sealer` |
| `ReaderProofs` | the proofs about the rows that by-leaf reads and about the routes | `Reader`, `SealerProofs` |
| `TokenCache` | concurrent calls of the client's `ensure_token` | |
| `KnownServers` | a program's runs over its known-servers file, with discovery and rotation | |
| `Client` | tasks sharing one client: build, submit, fetch, await; the server's sessions and the leaf as the client meets them | `TokenCache`, `KnownServers` |
| `ClientProofs` | the proofs about the token cache, the known servers and the client they make up | `Client`, TLAPS |
| `Watcher` | the funding watcher, its chain and its two partitions | |
| `BondingCurve` | the adaptive seal loop and its oracle | |
| `Boot` | the start of a server process over all deployments | |
| `Funding` | a process from its start, with the two tasks that look at the wallet | `Boot`, `BondingCurve`, `Watcher` |
| `FundingProofs` | the proofs about the watcher, the start and the process | `Funding`, TLAPS |
| `StandingIdentity` | runs of the end-to-end test creating and loading the identity | |
| `Poll` | reads repeated until a deadline | |
| `Flow` | the `live` and `selfcheck` runs | `Poll` |
| `SealRun` | the `seal` run, its run directory, its seven steps and `seal-replay` | |
| `E2e` | the test as a program: a command, its identity, its run | `StandingIdentity`, `Flow`, `SealRun` |
| `SealRunInv`, `SealRunProofs` | the inductive invariant of `SealRun`; the proofs about it | `SealRun`; `SealRunInv`, TLAPS |
| `E2eProofs` | the proofs about the identity, the polls, the flow and the program | `E2e`, `SealRunProofs` |
| `MCSealer`, `MCReader`, `MCTokenCache`, `MCWatcher`, `MCClient`, `MCFunding`, `MCE2e` | TLC instances | the module each is named after (`MCSealer`: `SealerLedger`) |

Definitions called "Faulty variant" are plausible mistakes in the definition
that follows them. No specification uses them; they exist so that each
property can be shown to fail when the code is wrong in that way.

### Correspondence with the code

* *Submission.* `submit_leaves` is one step: the handler calls `append_batch`
  once, under the mutex, and answers with the epoch id read under the same
  lock. Refusals (epoch full, bad input, not on the allowlist) change nothing
  and are not steps. `Did` is the set of allowed submitters; the per-request
  limit is left out since a batch is any non-empty set of leaves.
* *Seal tick.* `seal_once` is cut at its awaits and at each store write; `pc`
  says where it is, and the comment at the head of `Sealer` gives the
  automaton. Within one epoch the methods are visited in any order (the code
  visits them in the order of the record, and the properties do not depend on
  it). Epochs are visited oldest first, as in the code.
* *settle_method.* Each early return is an action: method disabled, provider
  already down or fault cap reached, provider error, save of the anchor given
  up, minting or self-check inconclusive (`KeepAnchor`), transaction missing
  and young (`KeepAnchor`) or old (`settle_missing`), anchor at fault, verified,
  served. Errors of minting, of `build_record` and of `EpochBatch::prepare` are
  among the outcomes of the action they belong to: `PersistEpoch("fail")` is
  also an epoch whose record could not be built.
* *Time.* `first_seen` is only ever used as `now - first_seen`; it is kept as an
  age in ticks, capped at the timeout, advanced when a tick starts. So it may
  only grow between ticks, which is when the code looks at it.
* *Writes.* A store write is "ok", "fail" (nothing written) or "late" (applied,
  then the sync failed: the caller sees an error and readers see the rows; all
  further writes of the process fail). A "late" write survives the death of the
  process. The death of the machine, which could undo it, is not modelled.
* *Restart.* Memory is lost, the store survives, the operator may change the
  enabled methods, and the next id follows the last stored one (`lib.rs`).
* *Reading routes.* Each store read of a handler is a step; the whole of
  `Sealer`'s `Next` runs between any two. Handlers write nothing, so one request
  at a time is enough. The several reads behind one tip (pair, marker,
  revisions) are one step: they are written in one batch and never change.
  Witnesses of versions before the self-check (410) do not exist in the model.
* *Token cache.* A step per await and per atomic. With `threads = "one"` nothing
  runs between the failed claim and the creation of the `notified()` future,
  which is what a current-thread runtime guarantees; with `"many"` other callers
  may. `notify_waiters` wakes exactly the futures created before it.
* *Watcher.* Start, poll, scan and write are the steps; the sleep between polls
  is the freedom to wait. Every transfer is one unit and the window of 100
  blocks is the constant `Window`. The chain only grows, as the code assumes. A
  block that comes without its full transactions is skipped (`bare`), as in
  `scan_blocks`, and is left behind when the watermark moves (`passed`).
* *Client.* A task's call is cut at its awaits: token, request, answer. The
  server side is the handlers of `auth.rs` (a challenge is consumed by the session
  it makes, sessions are capped, and both are in memory) and how far the one leaf
  is: unknown, open, sealed and pending, stalled, served. `Answer` gives by-leaf's
  status for it. A caller submits the leaf again only while it is unknown or open.
  A persist that fails closes the epoch and loses its leaf, and a restart reopens
  the id after the last one stored, so a receipt may name an epoch that never comes.
  A session may end once the client would renew it anyway; at a restart of the
  server all are gone.
* *Known servers.* `flush` writes the temporary file one line at a time and renames
  it; the program may die between any two. One program runs at a time.
* *Start.* `Deployment` is what `main` or an in-process caller may pass: enabled
  methods, presence of URLs, chain name and the other places that name a chain,
  injected providers and hosts, driver. Each step refuses as the code does, with
  what was done before left done; `Spawn` comes before `Bind`, as in `main`.
* *Bonding curve.* A poll is a virtual block; the balance is read before the gas
  price and either read may fail. The curve itself is the constant `BlockInterval`
  with the two facts the formula gives (at least one block; no longer the more
  transactions the balance pays for); the instance uses its values for
  `n_half = 2`. `SealCycle` sends any number of the transactions due, up to what
  the wallet holds, and counts the block as the last seal whether or not it failed.
* *Funding.* The watcher and the loop share only the chain. So the instance takes
  them one deployment at a time, after the start over all deployments.
* *Polls and flow.* Time is in ticks, a request of a poll takes none. The three
  polls of `run_full_flow` (schedule, two witnesses, which run concurrently) are
  nested loops; an answer that is neither a failure nor "not yet" ends them.
  `wait_for_seal` looks at the clock before each read, the first one too: its
  deadline, `seal_wait`, is fixed by `main` before sign-in, the requests in between
  take time (`Delay`), and a short `--seal-wait-secs` is over before the wait begins.
  The one-shot requests before and after are a sequence, each answered or not.
* *Seal run.* A file's content is what it was made from, as a tuple of names, so
  that a stale, torn, altered or reformatted file is told from the right one. All
  writes go through `todo`, one file at a time, none atomic. A step is its reads,
  its verdict (`stepN_ok`, with every check of the code that the model can tell
  apart) and its writes; the SDK's sealing, evaluation and verification are
  external and class a body by what they say of it. The same steps judge live and
  in a replay; only `artifact`, `Reproduced` and the DID pin depend on the mode. The
  tampered copies of steps 4b and 5 are refused by the SDK exactly when the original
  is accepted; their probe files are written and never read, and left out. A host
  that does not answer for the chain fails steps 1, 2, 3 and 6, as the e2e README says
  of the last three for a replay; step 5 compares its reading with step 2's, so that
  it fails if the host answered only one of them.
  A server whose version moved fails all steps of the run (`Closing`).
* *Damage and --out.* Before a replay one file may be lost, cut short, altered in
  any one of the things it says (`Forged`), or changed in its bytes only
  ("reformatted", which also stands for a change where nothing reads, such as the
  folder's payload under an unchanged key). A replay's `--out` may be absent,
  beside the run directory, the directory itself, a link into it, or a dangling link.
* *Identity.* A step per system call: each file is created empty by `create_new`
  and written afterwards. The user may remove the key or open the modes.
* *Abstracted.* Hashes, proofs, signatures and the Merkle tree: an anchor is a
  number, and `witnesses[e][m] = a` says that all rows written for epoch `e` and
  method `m` carry anchor `a`. Times of day, wording, logs and metrics.

## 3. Properties

| Property | Says | Checked by | Proved |
|---|---|---|---|
| `AckedLeavesKept` | a leaf answered 202 stays in the epoch the answer named, with its first owner, unless that epoch's persist failed | `submit` | `LeavesKept` |
| `AnchorBudget` | anchors returned for one (epoch, method) never exceed the fault cap plus one per crash and per failed save | `settle` | `BudgetKept` |
| `ServedIsAnchored` | what is served carries a confirmed anchor of its own epoch and method | `settle` | `ServedAnchored` |
| `PendingOrServed` | never pending and served at once | `settle` | `NeverPendingAndServed` |
| `PendingUntilServed` | a method leaves a pending record only in the write that serves it | `settle` | `PendingStays` |
| `SealedIsFinal` | sealed epochs, their leaves and served witnesses are never rewritten | `submit` | `SealedStays` |
| `ByLeafConsistent` | the per-leaf lookups and tips agree with the epochs, for resubmitted leaves as well | `reader` | `ByLeafAgrees` |
| `ImplementsLedger` | every step is a step of `Ledger`, or changes nothing a reader can see | `submit` | `SealerImplementsLedger` |
| `EpochWithinCap` | no epoch is sealed above the cap | `submit` | `CapKept` |
| `EventuallySettled` | a pending, enabled method is eventually served or stalled at the cap | `live` | no |
| `StalledIsFinal` | once a method is stalled (503 to readers) it is neither anchored nor served again | `settle` | `StalledStays` |
| `IInv` | the inductive invariant | `settle` | `Invariance` |
| `UnionComplete` | a 200 of the union route has all the caller's leaves of the epoch and no others | `reader` | `UnionIsComplete` |
| `DeliveredStays` | a witness once delivered is never denied or called pending again | `reader` | `DeliveredIsKept` |
| `SingleFlight` | one refresh at a time, dropped calls included | `client` | `OneRefresh` |
| `FlagHeldByRefresher` | unless a refreshing call was dropped, the in-flight flag is set only while a call refreshes | `client` | `FlagReleased` |
| `ReturnsOnOneThread` | on a current-thread runtime no caller of `ensure_token` waits forever, unless a refreshing call was dropped | `token_live` | no |
| `RotationNoticed` | a client built for a URL with a recorded DID is pinned to it or reports the rotation away from it | `client` | `RotationIsNoticed` |
| `WitnessIsPinned` | a witness handed out is settled and signed by the DID pinned at build | `client` | `PairsArePinned` |
| `CountedOnce` | no block's transfers are added twice, as long as the stored watermark can be read | `funding` | `NoBlockCountedTwice` |
| `NoBlockSkipped` | no block with transfers is passed over behind the watermark, unless it came without its transactions | `funding` | `NoTransferLeftBehind` |
| `SealsWhatItCanServe` | a process with a seal task has a provider and a host for each enabled method and no other, and its EVM anchors name, in payload and labels, the chain they are looked up on | `funding` | `SealerCanServe` |
| `FundedIsPublished` | while the wallet is funded, sealed epochs get their transaction, and an open epoch meets a seal cycle (which may lose it: see `leaf_lost`) | `funding` | no |
| `OneIdentity` | at most one identity ever comes out of a directory | `seal_run` | `StandingIdentityIsOne` |
| `GivesUpLate` | a poll times out only if the answer was not readable an interval before the deadline, or the time was up before the first read | `seal_run` | `PollsGiveUpLate` |
| `FlowPassIsSound` | a flow passes only with both witnesses settled, genuine and the server's, and refusals refused | `seal_run` | `FlowPassSound` |
| `FlowEnds` | every flow ends | `seal_run` | no |
| `SubmittedStaysOnDisk` | once the server may hold a run's leaves, their prepared seals are on disk, whole | `seal_run` | `SealsOutliveTheRun` |
| `PassIsSound` | a seal run passes only if the server served what it must | `seal_run` | `SealPassSound` |
| `PassIsReplayable` | the directory of a passed run is complete | `seal_run` | `SealPassReplayable` |
| `ReplayAgrees` | a replay of an untouched directory finds what the run found, step by step, if the chain can be read, the DID is the pinned one and the version did not move | `seal_run` | `ReplayFindsTheSame` |
| `DamageIsCaught` | a replay does not pass if a file is missing or cut short, by a death in the run or later; if local state, a witness or a derived file says something else; or if a derived file has other bytes | `seal_run` | `ReplayCatchesDamage` |
| `RunDirUntouched` | a replay changes nothing in the run directory, wherever its `--out` leads | `seal_run` | `ReplayTouchesNothing` |

Four runs show a disagreement between the code and what it says of itself:

* `leaf_lost` (`NoLeafDisappears`): `accumulator.rs` promises that no submitted leaf
  disappears between accept and seal. `seal_once` swaps first and persists
  second; when the persist fails the snapshot is dropped with the leaves in it.
* `token_lost_wakeup` (`EveryCallReturns` on several threads): the refresher
  notifies between a caller's failed claim and its `notified()`; unless another
  refresh follows, that caller never returns.
* `watcher_lost` (`ProcessedIsCounted`): two transfers of one wallet in one scan are
  both added to the stored total, and the second row replaces the first.
* `client_pending` (`ErrorMeansFailure`): the server answers 202 with a status body
  for a sealed leaf whose anchor is pending; the client takes every success for
  a witness, fails to read the body as one, and `await_witness`, which asks as soon
  as the epoch is sealed, ends in an error although nothing failed.

More were met while modelling and have no run of their own:

* `events.rs` says `EpochSealed` is emitted after all witness revisions are in the
  store; the seal loop emits it whenever `seal_once` returns, which it also does
  with every method still pending (`EndTick`).
* `leaf_owner` has one row per leaf, which a later epoch with the leaf from
  another DID overwrites (`persist_sealed_epoch_with_pending`): by-leaf then
  answers 403 to the first submitter. The design document keys it by leaf and
  epoch. The tip and union routes still serve the first submitter.
* A refreshing call that is dropped at its await, or whose signer panics, leaves
  the in-flight flag set (`Cancel`), although the comment in `ensure_token` says the
  lock is always released.
* Nothing keeps the contributor pool within `max_pool_size`: a row is inserted for
  every sender.
* By-leaf reads the tip, then the pending row (`ReadTip`, `ReadLookup`). When the
  sealer moves the leaf from the second to the first between the two reads, a
  leaf that is sealed and now served gets a 404, which `routes.rs` says means
  "unknown / not sealed". Reading in the opposite order would not show this. The
  test's polls take a 404 for final.
* After a restart of the server the client keeps its cached token and gets 401
  until the token is due, although the design document tells clients to
  authenticate again on 401.
* Two programs that share a known-servers file share its temporary file and lose
  each other's entries.
* `retry_pending` runs inside `seal_once` only, so with the bonding curve and a low
  balance pending qTSA witnesses, which cost no gas, are not retried either,
  although a comment in `sealer.rs` speaks of every tick. A deployment with only
  qTSA and the curve enabled never seals with an empty wallet.
* The balance is read before the gas price, and one cycle may send the
  transactions of several pending epochs although the margin was checked for one.
* The client's pin comes from the advertised DID, which uses `identity.chain_id`;
  witnesses name `eip155:1` always. With another chain id no witness verifies.
* `check_run_dir` is asked before the preflight and the directory is used after it;
  in between another run may fill it. `run.json` is rewritten in place after the
  POST: a death there loses the record of the answer, while the prepared seals
  stay (`SubmittedStaysOnDisk`).
* Step 4a does not compare the attester of the second seal with the pinned DID.
* A run that failed only because `/version` moved replays as passed: a replay asks
  no server, and does not look at the versions in `run.json`. `ReplayAgrees` leaves
  such runs out.
* What a replay does not notice: other answers in `run.json`, `fetch-status.json`, the
  epoch's listings or `aqua-identity.json` (which only `--expect-server-did` holds),
  and other bytes of the local state and the witnesses that say the same.
  `DamageIsCaught` names the files it is about (`Bound`).
* A block that a node returns without full transactions is skipped by `scan_blocks`
  and never scanned again.
* A provider that reports an error after its transaction was broadcast is asked
  again in the next tick; what it spent is not counted (`AnchorBudget` speaks of the
  anchors it returned).
* `await_witness` of a leaf lost by a failed persist polls 404 until its timeout.

## 4. Runs and bounds

| Run | Instance | Why it is enough |
|---|---|---|
| `settle` | 1 leaf, 1 epoch with leaves, 2 methods, 3 anchors, 2 faults, both kinds of write failure, 1 crash | methods of one record disturb each other through the shared record, `down` and `poisoned`; two methods and a crash show every such pair |
| `submit` | 2 leaves, 2 DIDs, cap 1, 2 epochs with leaves, write failures, 1 crash (symmetric in leaves and DIDs) | the cap is met by a single leaf and exceeded by a batch of two |
| `live` | 2 epochs of one method, 2 anchors, 2 faults, failing writes, no crash | an older epoch that fails with a newer one behind it, and the retry of every write; a restart leads to a state in which a tick starts |
| `reader` | 1 leaf, 2 DIDs, 2 epochs, 1 method that may be off (symmetric in DIDs) | a handler has at most four reads of one leaf's rows; two epochs give it an older and a newer one to mix up, and the two DIDs own the leaf in turn |
| `token_live` | 3 callers, 2 calls each, 1 expiry, both runtimes, dropped calls | a refresher, a waiter and one that arrives in between |
| `client` | 2 callers with 2 calls each on several threads, 1 server, 2 DIDs, 2 runs of the program, 1 session, 2 tokens, 1 restart (symmetric in callers and DIDs) | a refresher and a waiter, a first contact and a later one, a key change before, between and after them, a session pushed out by another |
| `funding` | all wirings through the start; then the watcher (1 wallet, 3 blocks, window 2, failing reads, failing and late writes, 1 block without transactions, 1 restart) or the curve (balance to 8, gas price to 2, margin 2, 2 epochs waiting) | a full window with a partial one before or after it, repeated after a failure, and the start again with or without the watermark; intervals that change while the loop waits; the wallet pays for two transactions and is still funded, so that both waiting epochs are owed theirs |
| `seal_run` | 3 runs racing for the identity, one remote, with 3 keys; budgets of 3 ticks, reads every 2, up to 4 ticks of delay before the wait, 14 ticks in all; 2 seal runs in one directory, 1 fault of the server or the chain host, 1 of 6 files damaged in any way, a replay with any `--out` | a deadline that is no multiple of the interval cuts the last sleep, and one that is over before the wait skips the read; one fault at a time shows each check, and the files that may be damaged stand for every kind (local state, witness, status, first and second seal) |

`client_pending` is `client` with one caller. 
`MaxEpoch` is always one more than the number of epochs with leaves: no leaf is
accepted in the last one, so it stands for all later empty epochs and the
bound never stops the sealer. `MaxAnchor` bounds the anchors of a behaviour:
where it cuts one off, `EventuallySettled` says so (`CutOff`), and the safety
properties are proved for every value.

Deadlock is checked in the runs over `Sealer` and `Reader`, which never stop. In
`token_live` and `client` callers may be left
waiting (`token_lost_wakeup`, and the dropped refresher above); in `funding` a
start may be refused; in `seal_run` a run ends.

### Fairness

`FairSpec` assumes: the sealer task keeps running (`WF(SealerStep)`: tokio polls
a ready task and the loop has no exit); a waiting transaction is decided some
day (`WF(Finalize)`); and each thing the code retries on every tick does not
fail every single time (`SF` on reading the pending list, the provider call,
the saves, the self-check, the final write). Nothing is assumed of submitters,
of crashes or of the persist of a new epoch, which the code does not retry.

`TokenCache`'s `FairSpec` assumes that a call that can go on does
(`WF(ensure_token(c))`): tokio polls a woken task, and the HTTP exchange returns
some day with a session or an error. It may fail every time.

`FundingSpec` assumes that the loop keeps running and that a cycle ends (`WF`: a
tokio task without an exit, requests with timeouts), and that the node answers
and a cycle sends its transactions again and again if tried again and again
(`SF` on the two oracle reads and on the cycle): the code tries both in every
poll. Nothing is assumed of the start, the chain, the gas price or the watcher.

`E2eFairSpec` assumes that the run goes on (`WF`: requests end with an answer, an
error or their timeout) and that time does. Nothing is assumed of the server,
which may fail every read and keep every anchor pending: `FlowEnds` is about that.

## 5. Proofs

Every safety invariant and every action property of the passing runs is a theorem,
for all values of the constants that satisfy the assumptions named in the modules.
Each inductive invariant was checked by TLC on the instance of its run before it
was proved. A proof has one lemma per action, and each conjunct an action can
disturb is a step of it.

The assumptions say what the constants are, and little else: numbers are naturals,
`NoDid` and the like are not values, `OnChain` methods are methods. Those with
content are:

* `Leaf` is finite (`AccumulatorAssumption`): a leaf is a hash of 32 bytes. Only the
  counting in `CapKept` needs it; no proof uses the size of `Leaf`, `Did` or `Method`.
* The name of a run is not the word that marks a torn file (`SealRunAssumption`): a
  run's content is told from damage.
* A client follows one server (`ClientAssumption`), and a deployment that comes
  through `main` injects nothing (`BootAssumption`), which is how `main` calls.

### Aggregator (`SealerProofs`, `ServedProofs`, `LedgerProofs`)

None of the properties is inductive alone. `IInv` adds:

* `IdInv`: sealed ids are below the open one, and the snapshot's id is between.
  Without it a persist could overwrite an epoch (`SealedIsFinal`).
* `UntouchedInv`: nothing is pending, paid or served for an id not sealed yet, so
  a persist writes a fresh row.
* `MemoryInv`: per method, the record in memory equals the stored one, or has
  gained an anchor not saved yet, or has dropped the stored anchor and counted
  it. Once fjall refuses writes the methods already visited may drift further;
  the ones still to visit (`todo`) may not. This is what makes the next save of
  the record harmless.
* `AccountInv`: every anchor ever paid for was found at fault, is held, is served,
  or never reached the store; each of the last kind is due to one crash or one
  failed save. `AnchorBudget` follows by arithmetic.

`CapInv` adds the open epoch and the snapshot to `EpochWithinCap`: a batch is counted
against the leaves that are there when it is taken, so that the union stays within
the cap, and the swap and the persist only move the set.

`ServedProofs` shows `ChainInv` inductive relative to `IInv`: all held anchors
exist outside and belong to the epoch and method they are held for, so the one
that is confirmed when the check ends is still right when the write follows. It
also proves `StalledStays`: a stalled method holds no anchor in the store and none
in memory (`MemoryInv`), so no later write can bring one back.

`LedgerProofs` proves that `Sealer` implements `Ledger`: under `IInv`, the persist of
an epoch, applied or late, is `Enter` (its id is above all sealed ones, `IdInv`, and
nothing stands for it yet, `UntouchedInv`), the final write of a method is `Witness`
(`MemoryInv` says that the record in memory, which is what is written, has the
stored record's methods), and every other action, a restart included, leaves the
three mapped variables alone.

### Reading routes (`ReaderProofs`)

`ByLeafInv` is what the rows of `get_tree_by_leaf` always say, over all epochs of a
leaf: a lookup names a pending epoch with the leaf, a tip a served one, every
served epoch of a leaf has left it a tip, and the newest epoch of the leaf is in
the lookup while it is pending. It is stronger than `ByLeafConsistent`, which speaks
of the newest epoch only and says nothing of a tip when an older epoch of the leaf
is served after a newer one has been persisted.

`ReaderInv` says what a request has learned and why that stays true while the sealer
runs between its reads: a sealed epoch stays sealed and a method that is no longer
pending in it never is again (`UnionInv`); what was delivered is in the store
(`ToldInv`), so a request that finds no tip was not told one before (`UntoldInv`, by
`HasTip`). All steps of `Sealer` come in by one lemma, `SettledStep`: sealed epochs,
their leaves and served witnesses stay, and no method becomes pending in them.

### Client (`ClientProofs`)

`FlightInv`: every refresher holds the flag, there is at most one, and only a dropped
call can leave the flag behind. `KsInv`: the file is what was last recorded (only
the rename changes it, and the temporary file is complete then), so what `lookup`
returns is what the user trusted. Both are proved of the component alone, for any
set of callers or servers, and again under the client's steps (`SharedClientSafe`).

`UseInv` ties the tasks to the program: calls other than build run only after it,
one task builds, and a witness handed out does not outlive the program whose pin it
was checked against. The key of the server may change in between; the served
witness and the pin do not, which is why `PairsArePinned` holds.

### Process (`FundingProofs`)

`WInv` says that only blocks behind the stored watermark were credited, that a task
which can still write stands at the stored watermark or after it (so a batch whose
sync failed is not added again: the same failure stops all further writes), and
that no transfer is left out behind the task's own watermark either, except in a
block that came without its transactions. The first
watermark is stored only after the first scan; a restart before that starts again
from the newest block. The code documents this, and `NoBlockSkipped` counts from the
last such start.

`BootInv` carries what the checks established to the steps after them, up to `Spawn`;
no task runs earlier. `FundingRefinesWatcher` shows that the start, the curve and the
restart of the whole process are steps of `Watcher` or leave its state alone, and
`WatcherInProcess` draws the conclusion.

### End-to-end test (`E2eProofs`, `SealRunProofs`)

`IdInv` of `StandingIdentity`: keys handed out equal the record, and while the record
is empty its creator alone can fill it. The key file does not occur in the
argument: it may be lost and drawn again.

`PollInv` measures a sleep against the deadline: an answer that came during it and is
not excused came so early that the sleep ends in time for one more read; a wait that
begins after its deadline is excused from the start.
`FlowInv` says what each stage of the flow has established.

`SealInv` describes the run directory at every point of a run, of the runs after it
and of a replay:

* `DirInv`: a file is missing until the run gets to it, and from then on there or
  among the writes under way (`TodoInv`), with the content the run derives. Only
  `run.json` is written again (`RunJsonInv`).
* `LogInv`, `KeptInv`, `ReplayInv`: a verdict that was given is a statement about the
  files (`Found`, `FoundAgain`) that can be read off again at any later time. For
  each step there is a lemma that its writes do not touch what earlier steps read.
  `PassIsSound`, `PassIsReplayable` and `ReplayAgrees` compare such statements. What
  step 2 left for step 5 (`Step2Left`) is read off the files as well. A failed verdict
  says that the files are wrong only if the chain was read and the version did not
  move: this is where the conditions of `ReplayAgrees` come from.
* `StartInv`: a run that goes past the check of the directory found it empty, so
  nothing was submitted from it; with the above this keeps earlier seals on disk.
* `FitInv`: in an undamaged directory every derived file is what the local state and
  the witnesses make, and the local state is the one `run.json` names (`Fits`).
  `SpoiltInv`: changing one `Bound` file breaks that. A replay that passes finds
  `Fits` again, step by step, which is `ReplayCatchesDamage`; files that are missing
  or cut short are refused by `verify_complete`.
* `ReplayInv` also carries that `--out` leads elsewhere, from `ensure_outside` to the
  writes of the steps (`artifact`): `ReplayTouchesNothing`.

The steps of the whole program are steps of these three specifications
(`E2eIdentity`, `E2eFlow`, `E2eSeal`), so that their theorems hold of it.

### Only model-checked

`EventuallySettled`, `ReturnsOnOneThread`, `FundedIsPublished` and `FlowEnds`: liveness
under fairness is out of the prover's reach. The properties of the four runs that
end in a violation do not hold.

## 6. Not modelled

* Merkle and hashing code, the epoch record, the clock, the HTML pages,
  serialisation, configuration parsing and defaults: no state and no
  interleavings of their own.
* The routes that answer from one read (epoch list, schedule, leaderboard, pool
  status, health): nothing can come between.
* Lagging subscribers of the event bus: the broadcast ring is tokio's, and the
  code forwards what it gets.
* The bonding curve's rate: floating-point arithmetic.
* What the SDK does inside a step of the seal run: it is another repository, and
  appears by its verdicts.
* `selfcheck-all` repeats `selfcheck` with other key types.
* Two seal runs at the same time in one directory (the window above), and the refusal
  of a `--run-dir` inside the identity directory.
* `settle_missing`'s save of a missing `first_seen`: it is for records written by older
  versions, and every record made by this code has one.

## 7. Plan

1. (done) Core: `Accumulator`, `PendingEpoch`, `Store`, `AnchorProvider`, `Sealer`, the
   safety proofs; `Reader`; `TokenCache`; `Watcher`.
2. (done) `Ledger` and the refinement; `BondingCurve`, `Boot`, `Funding`;
   `KnownServers`, `Client`; `StandingIdentity`, `Poll`, `Flow`, `SealRun`, `E2e`; the
   proofs about the watcher, the known servers, the identity and the ledger.
3. (done) Proofs of all other safety properties: the cap, the by-leaf rows, `Reader`,
   `Client`, `Boot`, the flow, `SealRun`; the compositions `Funding`, `Client`, `E2e`.
4. An abstract specification of the seal run (submitted, judged, replayed) and of a
   reading client's view of the ledger, and the proofs that `SealRun` and `Reader`
   implement them.
