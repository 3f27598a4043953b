# Junkcoin Core: a TLA+ model

Junkcoin Core is a full node of a proof-of-work currency, derived from Bitcoin
Core through Dogecoin Core. This directory models the parts of it that decide
which chain is active, what is unspent, what is on disk, what is in the memory
pool, which headers are acceptable and whom to ask for blocks. TLC checks the
models on small instances; TLAPS proves most of their safety properties for every
value of the constants.

File names below are relative to `src/src/`; a bare line number is one of
`validation.cpp`. `PROJECT.json` maps every definition to the lines it models and
lists every part of the program with its status, the hazards each part is exposed
to, and the properties that would notice them.

## 1. The system

| Part | State | Operations | Module |
|---|---|---|---|
| block index, chain selection (`validation.cpp`, `chain.h`) | `mapBlockIndex`, status bits, `setBlockIndexCandidates`, `mapBlocksUnlinked`, `chainActive` | `AcceptBlock(Header)`, `ActivateBestChain`, `FindMostWorkChain` | `ChainState` |
| operator overrides (`rpc/blockchain.cpp`) | `nBlockReverseSequenceId`, `gFailedBlocks` | `invalidateblock`, `reconsiderblock`, `preciousblock` | `ChainState` |
| fork warnings | `pindexBestForkTip`, `pindexBestInvalid`, two flags | `CheckForkWarningConditions(OnNewFork)` | `ForkWarning` |
| coins (`coins.cpp`, `undo.h`, `txdb.cpp`) | two cache layers with DIRTY and FRESH, the coin database | `ModifyCoins`, `BatchWrite`, `UpdateCoins`, `DisconnectBlock` | `CoinsView`, `CoinsCache`, `Utxo` |
| block files, flushing, start-up | block and undo files, index database, coin database | `FindBlockPos`, `FlushStateToDisk`, pruning, `LoadBlockIndexDB` | `Persistence` |
| script checks (`checkqueue.h`) | `queue`, `nTodo`, `nIdle`, `nTotal`, `fAllOk` | `Add`, `Wait`, `Loop` | `CheckQueue` |
| memory pool (`txmempool.cpp`) | entries, links, totals over ancestors and descendants | accept, replace, trim, reorganise | `Mempool` |
| block download (`net_processing.cpp`) | `mapBlocksInFlight`, `CNodeState` | one handler per message, `SendMessages` | `BlockDownload` |
| header rules (`pow.cpp`, `versionbits.cpp`, `chain.cpp`) | index entries with `pskip`, two caches of rule-change states | `GetNextWorkRequired`, `GetStateFor`, `GetAncestor` | `HeaderTree`, `Difficulty`, `VersionBits`, `Headers` |

How they meet: a header passes `Headers`' rules and enters the index; its block is
asked for (`BlockDownload`), stored (`Persistence`), linked and activated
(`ChainState`); activation runs the block through the coins (`Utxo` on `CoinsCache`)
and its scripts through `CheckQueue`, and tells the pool (`Mempool`). Each module
keeps what its neighbours do to it as an action of its own: `Utxo` connects any
child of the tip that is not known to be invalid, `Mempool` moves the tip along the
tree, `BlockDownload` reduces validation to what it makes of the chain.

## 2. Modules

`BlockTree` is the tree of headers as constants (`pprev`, ancestors, heights, work),
with `CBlockIndexWorkComparator` and the walks of `FindFork` and `LastCommonAncestor`,
step by step along `pprev`; `ChainState`, `Mempool` and `BlockDownload` extend
it. A module whose name begins with `MC` gives the constants of a component their
values for TLC. A module whose name ends in `Proofs` holds theorems.

### ChainState

Each status bit of `CBlockIndex` is a set of blocks: `haveData`, `haveUndo`,
`failedValid`, `failedChild`; `validity` is `nStatus & BLOCK_VALID_MASK`;
`processed` stands for `nTx > 0` and `linked` for `nChainTx > 0`. `tip` stands
for `chainActive`, which is the line of its ancestors. `csMain` is the thread
that holds `cs_main`; `pc`, `pindexMostWork` and `step` are the locals of a
thread inside `ActivateBestChain`. `halted` is set when an `assert` fails, a
null pointer would be read, or `AbortNode` is called, and nothing happens then.

| Action | Code |
|---|---|
| `AcceptHeader`, `RejectHeader` | `AcceptBlockHeader`, with the walk over `gFailedBlocks` and its assert |
| `IgnoreBlock`, `RejectBlock`, `AcceptBlock` | the three outcomes of `AcceptBlock` as `ProcessNewBlock` calls it; each is followed by `ActivateBestChain` where the code goes on to it |
| `PruneOneBlockFile` | a flush that prunes |
| `InvalidateBlock`, `InvalidateBlockFails`, `ResetBlockFailureFlags`, `PreciousBlock` | the RPCs, each under one hold of `cs_main` |
| `LockMain` | a turn of `ActivateBestChain`'s loop takes `cs_main` |
| `FindMostWorkChain`, `DropCandidate` | the choice of a candidate, or one turn of the walk that drops an unusable one |
| `DisconnectTip`, `ConnectTip`, `InvalidBlockFound`, `ConnectWithoutData` | one block of `ActivateBestChainStep` |
| `Connected`, `FinishStep` | the end of the step: warnings, release of `cs_main`, decision to return |

Everything a thread does under one hold of `cs_main` is atomic to the others. The
hold of `ActivateBestChain` is nevertheless split into its iterations, so that
pruning by the flush inside `ConnectTip` and `DisconnectTip` can fall between two
blocks.

Abstracted: blocks are model values, and `Verdict` says which check a block fails
(none, one of `AcceptBlock`, one of `ConnectBlock`); a block file holds one block;
whether a flush prunes is a free choice; `ProcessNewBlock` hands its block to
`ActivateBestChain` in memory, where the model reads it from disk, which differs only
if it is pruned in between; `mapBlocksUnlinked` is a multimap that may hold a pair
twice, in the model a set; `ConnectBlock` failing with `CorruptionPossible`, disk
errors other than pruned data, and a shutdown request inside `ActivateBestChain` are
left out.

### CoinsView, CoinsCache, Utxo

`CoinsView` is the abstract specification: a view, the tip and the database are plain
maps from transactions to coins; a flush copies one into the next, dropping forgets,
a crash takes the tip back to the database. `CoinsCache` is `CCoinsViewCache`: two
layers (`view`, `tip`) of entries with `DIRTY` and `FRESH` over `db`, with one action
per operation (`AccessView`, `AccessTip`, `Uncache`, `ModifyCoins`, `ModifyNewCoins`,
`GetBestBlock`, `SetBestBlock`, `FlushView`, `DropView`, `FlushTip`, `Restart`).
`ImplementsPlainMaps` is the refinement: what is read through the layers behaves as
`CoinsView`.

`Utxo` adds the callers. `job` is what `ConnectTip`, `DisconnectTip` or
`TestBlockValidity` is doing: how many transactions are tested against BIP30
(`unique`), applied (`done`), how many inputs of the next are found (`have`) and
spent (`spent`), and the undo data so far. `CheckNew`, `HaveInputs`, `Spend`,
`AddOutputs`, `FinishConnect`, `Reject` and `JustChecked` are `ConnectBlock`;
`RemoveOutputs`, `ApplyTxInUndo`, `FinishDisconnect` are `DisconnectBlock`;
`ApplyView` and `UpdateTip` end both; `WriteBlockIndex`, `FlushCoins` and `FlushFails`
are `FlushStateToDisk`, which saves the entries in `dirty` (`setDirtyBlockIndex`) and no
others; `LookUp` and `GiveUp` the memory pool's use of `pcoinsTip`;
`CrashAndLoad` a crash or stop at any point with the next `LoadBlockIndexDB`.
In `Spec` a write succeeds, is not begun for want of disk space, or is cut off by a
crash; that `WriteBatchSync` or the batch of coins reports a failure and the process goes
on is left to `SpecIndexFailures` and `SpecWriteFailures` (section 4).
The reference, `Unspent`, `IsValidBlock` and `Chain`, is stated by quantifiers on the
blocks alone and shares no step with the actions.

Abstracted: amounts, lock times, maturity and scripts are the constant `BadScripts`;
coins keep height, kind and the set of their outputs. `DisconnectBlock` goes on after a
mismatch and reports it at the end, the model stops at the first, which
`CoinsAsExpected` shows never comes. `CBlockUndo` has no entry for the coinbase, the
model an empty one.

### Persistence

One chain of blocks 1, 2, ..., arriving in any order into files of `BlocksPerFile`.
`blk` and `rev` are the files as the operating system shows them, `synced` what
`FileCommit` has made safe, `treeDB` the index database, `coinsDB` and `coinsSafe` the
best block of the coin database and the one a power loss may go back to. `flush` is
where `FlushStateToDisk` is: `StartFlush` (with the files to prune), `FlushBlockFile`,
`WriteBatchSync`, `UnlinkPrunedFiles`, `FlushCoins`; `OutOfDiskSpace` is its early
return. `Crash` ends the process or the power, loses what was not committed, and
loads again. A write to leveldb is atomic; `CoinsReachDisk` is leveldb's log reaching
the disk without a sync.

### CheckQueue

Threads are at a place of `Loop` (`pc`); the queue and each thread's batch are sets of
checks, since the code says the order "doesn't matter". `Begin` makes the control
object, `Add` and `Wait` are the master's, `FirstRun`, `CleanUp`, `Return`, `Sleep`,
`Wake`, `Take`, `Execute` the sections of `Loop`, `SpuriousWakeup` and `Interrupt` the
library's. `round`, `executed` and `answer` are history for the properties.

### Mempool

`mapTx` maps the transactions of the pool to entries with their links and totals,
which `AcceptToMemoryPool`, `PrioritiseTransaction`, `ConnectTip`, `DisconnectTip`,
`FinishStep` (`removeForReorg`, `UpdateTransactionsFromBlock`, `LimitMempoolSize`) and
`FinishInvalidate` keep by additions and subtractions, as the code does, never by
computing them anew. Left out: scripts and other policy (a transaction may be refused
at any time), sequence locks, the rolling minimum fee, the limit of 100 replacements,
the fee estimator, signature operations and priorities, memory usage (size stands
for it), and the return at 2517 after a system error, which skips `removeForReorg`.

### BlockDownload

`node` is `mapNodeState` with what `CNode` keeps; `mail` is what is under way: news,
`getheaders`, requested blocks, compact blocks and `blocktxn`. `Sends` handles a message of a peer
(headers, inv, block, cmpctblock, blocktxn), `GivesUp` the disconnections of
`SendMessages` (a ban, the timeouts of stalling and blocks, the timeout of headers), `SendFetch` its requests; `SubmitBlock`
is the RPC. A direct fetch of one block by a peer in `Compact` asks for a compact block
(`AsCompact`), if the block below has been connected (`valid`, for `BLOCK_VALID_CHAIN`);
the answer, `CmpctReply`, is handled as any `cmpctblock`, or is the full block. A peer
outside `Slow` answers in time: it meets the timeout of blocks only when it has answered
everything it was asked. Left out: `fImporting`, witness,
`fClient`, `fOneShot`, `fAddnode`, `nUnconnectingHeaders`, invalid blocks and
`mapBlockSource`, transactions, addresses and serving.

### HeaderTree, Difficulty, VersionBits, Headers

`HeaderTree` has the entries with `pskip`, `GetMedianTimePast`, and `GetAncestor`, whose
walk counts heights by itself and does not look at those of the entries it meets;
`Difficulty` the compact form of targets with its rounding and all of
`GetNextWorkRequired`; `VersionBits` `GetStateFor` with its cache and
`GetStateSinceHeightFor`; `Headers` composes them: `AcceptBlockHeader` with
`ContextualCheckBlockHeader`, `ConnectTip` with the warnings of `UpdateTip`,
`DisconnectTip`, `Restart` and `UnloadBlockIndex`, after which addresses are used again.
`GetNextWorkRequired` takes one set of consensus parameters for all heights; the limits it
interpolates in doubles are exact integers in the model. States of rule changes that
`ContextualCheckBlock` asks for are asked for at connection. The rules
of test networks (`fPowAllowMinDifficultyBlocks`) are modelled and not run.

## 3. Runs

| Run | Instance | States | Checks |
|---|---|---|---|
| `chain_network` | seven blocks in three branches, one failing `ConnectBlock` and one `AcceptBlock`; one thread | 5,357 | `CandidatesExact`, `BestChainActive`, `WarningsNotStale`, `SortKeyStable`, `ActivationReturns` |
| `chain_operator` | two branches that tie; `invalidateblock`, `preciousblock` | 23,451 | `AssertionsHold`, `FailedHasCause` |
| `chain_threads` | five blocks, one invalid; two threads, `preciousblock` | 41,448 | `LinkedIffReceived`, `ScriptsValidBelow`, `ActiveChainNotFailed` |
| `chain_reconsider` | a line of three; `invalidateblock`, `reconsiderblock` | 6,743 | `LinkedIsReceived` |
| `chain_prune` | a light long and a heavy short branch; pruning, `invalidateblock` | 158,434 | `UnlinkedExact` |
| `check_queue` | four checks, one bad; one master, two workers, batches of two | 163,065 | `ResultExact`, `NothingLeftOver`, `WaitReturns` |
| `utxo` | eight blocks, four transactions: a coinbase on two branches and again once it is spent, a chain of spends inside a block, an overwriting block, a double spend, a bad script | 257,098 | `CacheFlagsHonest`, `UtxoExact`, `UndoComplete`, `CoinsAsExpected`, `VerdictExact`, `ImplementsPlainMaps` |
| `persistence` | three blocks, two files of two, two restarts | 1,070,792 | `IndexBacked`, `Readable`, `DirtyExact`, `CoinsInIndex`, `RecentBlocksKept` |
| `block_download` | five blocks in two branches, a slow and a prompt peer, both with compact blocks, one block that may come by `submitblock`; window, transit and headers of two | 31,966 | `InFlightExact`, `CountersExact`, `StallerOwes`, `RequestsOpen`, `CommonBlockExact`, `SyncCompletes` |
| `headers` | every line of eight headers and every tree of seven with one fork; periods of two; targets of three base-4 digits; all three tiers of the limits | 72,708 | `AncestorExact`, `StatesExact`, `Reacceptable`, `RetargetsSound` |
| `mempool` | two branches of two blocks, thirteen transactions that depend and conflict | 8,181 | `PoolConsistent`, `InputsAvailable`, `ReorgSettled`, `ReplacementPays` |
| `bug_stale_target` | a line of three, two threads | stops early | violates `BestChainActive` (section 4) |

What the properties say is written above each definition. In short:

* `CandidatesExact`, `LinkedIffReceived` (one-sided: `LinkedIsReceived`),
  `UnlinkedExact`, `FailedHasCause`, `ScriptsValidBelow`: what `CheckBlockIndex`
  (4192 ff.) asserts, which runs only with `-checkblockindex`. `AssertionsHold`: no
  other assert fails. `BestChainActive`: no complete chain free of known invalid
  blocks beats the active one when no thread is at work. `ActiveChainNotFailed`: no
  block marked invalid is active. `SortKeyStable`: the key of a member of a
  `std::set` does not change. `WarningsNotStale`: a warning on show is deserved.
* `ResultExact`, `NothingLeftOver`: `Wait` answers for exactly the checks of its round
  and leaves nothing to the next.
* `UtxoExact`, `UndoComplete`, `CoinsAsExpected`, `VerdictExact`: the database and
  `pcoinsTip` hold exactly what is unspent, every block of the chain has its undo data,
  neither direction meets coins it does not expect, and the verdict reached input by
  input is the one of the rules on the whole block.
* `IndexBacked`, `Readable`, `DirtyExact`, `CoinsInIndex`, `RecentBlocksKept`: whatever
  the databases say after a crash can be read and started from.
* `InFlightExact`, `CountersExact`, `StallerOwes`, `RequestsOpen`, `CommonBlockExact`:
  the bookkeeping of requests agrees with itself and with what peers were asked.
  `RequestsOpen` allows for one case, a block that `submitblock` brings while a peer is
  asked for it; without that it is `AnswersCounted`, which fails (section 4).
* `AncestorExact`, `StatesExact`, `RetargetsSound`, `Reacceptable`: skip pointers,
  rule-change states, retargets and header checks agree with references that do not
  walk, cache or round; a header taken once is taken at any later time.
* `PoolConsistent`, `InputsAvailable`, `ReorgSettled`, `ReplacementPays`: what
  `CTxMemPool::check` asks and more, at every step of a reorganisation; what is left
  after it can be mined; a replacement leaves more fees than it takes. The deltas of
  `prioritisetransaction` are positive in the run.

`BestChainActive` and `CandidatesExact` are not checked with pruning, where a
reorganisation may stop half way for want of data, nor with two threads or
`reconsiderblock`, where they fail (section 4).

### Fairness

* `ActivationReturns`: weak fairness of `ActivateBestChain(t)`. Once inside, a thread
  is scheduled and gets `cs_main`; the property is checked with one thread, so fairness
  of the lock is not in play. Arrivals and RPCs are not fair.
* `WaitReturns`: a thread that can run runs, and one that wants the mutex while it is
  released again and again gets it (strong fairness of taking the mutex, weak of the
  rest). Nothing makes a condition variable wake by itself.
* `SyncCompletes`: closed connections are removed, `SendMessages` gives up late peers,
  and a peer that is not slow is connected again and answers. `SendFetch` is strongly
  fair in asking: `ThreadMessageHandler` visits a copy of `vNodes` in the order of
  connection (`net.cpp` 1107, 2007, 1285, 2020), so a slow peer that reconnects does not
  overtake a prompt one for ever. The property excludes a peer whose chain is behind the
  best header (`net_processing.cpp` 3140-3144), which the code does not ask.

### Bounds

Limits of the code are scaled so that small instances reach them: `ConnectBatch` 2 (for
32), `ForkDropDepth` 2 (100), `InvalidLead` 1 (30), `ForkMinLength` 0 (7),
`ForkMaxDepth` 2 (72), `MIN_BLOCKS_TO_KEEP` 1 or 2 (1440), `nPruneAfterHeight` 1 or 2
(518400 on the main network, 100000 on the others; at least `MIN_BLOCKS_TO_KEEP`
everywhere, without which the unsigned subtraction at 3593 would wrap), block download
window and transit 2 (1024 and 16), headers per message 2 (2000), retarget and
signalling periods 2. `MaxSequenceId` (8) is above what seven blocks need except for
blocks stored again after pruning; `MaxPrecious` (1) allows two precious blocks in a
row; `MaxRestarts` (2) lets a crash follow recovery from a crash; `MaxForks` (1) lets
two branches share cached states; the tree of `utxo` makes every rule of `ConnectBlock`
accept and reject and every kind of undo record occur.

Deadlock is not checked where the system may really stop: in `chain_reconsider` after
an assert, and in `chain_prune` after `AbortNode`.

Larger instances were tried for the invariants of the proofs: block download with both
peers growing (`MCGrowingTips`, 280,006 states), with two blocks of one branch or of both
by `submitblock` (53,074 and 78,893 states) and with the slow peer whitelisted;
`chain_threads` with two precious blocks (245,702 states); the tree of `chain_network`
with `preciousblock` (1,302,769 states). All pass.

## 4. Where the code and its comments disagree

`bug_stale_target` is a run of its own: a thread resumes with a `pindexMostWork` chosen
before it released `cs_main`, disconnects a better chain another thread has activated,
and returns, although "The result is either failure or an activated best chain".

The others appear when the property named takes the place of those in the
configuration named, with the changes given, `SPECIFICATION Spec` unless another is
named, and `CHECK_DEADLOCK FALSE`.

| Configuration | Property | What TLC shows |
|---|---|---|
| `bug_stale_target`, `Rpc = {"invalidateblock"}` | `ActiveChainNotFailed` | the same stale choice puts a block marked by `invalidateblock` back into the active chain (`rpc/blockchain.cpp` 1750: "Permanently marks a block as invalid") |
| the same | `AssertionsHold` | the stale choice was erased from the candidates, and `setBlockIndexCandidates` ends up empty (assert at 2464) |
| `chain_reconsider`, `pprev <- MidFork`, `Rpc = {"invalidateblock"}` | `LinkedIffReceived` | a block received above an invalid one is not entered into `mapBlocksUnlinked` (2865) and its `nChainTx` stays 0 (assert at 4264) |
| `chain_reconsider` | `AssertionsHold` | `reconsiderblock` leaves the block in `gFailedBlocks`; the next header above it fails the assert at 3298 |
| `chain_reconsider`, `pprev <- MidFork` | `FailedHasCause` | `reconsiderblock` leaves other descendants of the ancestor it cleared marked `BLOCK_FAILED_CHILD` |
| the same | `UnlinkedExact` | `reconsiderblock` does not make up for the missing entry in `mapBlocksUnlinked` |
| the same | `CandidatesExact` | `reconsiderblock` of a descendant clears an ancestor's mark and does not make the ancestor a candidate |
| `chain_reconsider` | `BestChainActive` | so the chain stays below that ancestor although it is complete and no longer marked (2567: "an activated best chain") |
| `chain_reconsider`, `Verdict <- BadA1`, `Rpc = {}`, `ForkMinLength = 1` | `LargeForkRemembered` | the step reports the lowest block of its batch as the tip of an invalid fork (2538), so a long fork may pass for a short one (1332: "fork of at least 7 blocks") |
| `utxo` | `ViewAtParent` | after a flush fails inside `ConnectTip` (2382) the coins are one block ahead of `chainActive`, and the next `ConnectBlock` fails its assert at 1832 before the shutdown comes |
| `utxo`, `SpecWriteFailures` | `DatabaseExact` | `BatchWrite` has erased the cache when the batch fails (`txdb.cpp` 47-68), and `pcoinsTip` then names a block whose coins it does not have (`coins.h` 316) |
| `utxo`, `SpecIndexFailures` | `UndoComplete` | when `WriteBatchSync` fails, `setDirtyBlockIndex` is empty already (2158-2165); a flush before the shutdown, or at it, writes coins of blocks whose undo positions never reach the disk |
| `utxo`, `fEnforceBIP30 = FALSE` | `UtxoExact`, `VerdictExact` | with BIP34 neither started nor active (1897-1898) a duplicate transaction overwrites unspent outputs (1884: "BIP30 has been active since inception") |
| `persistence`, `SpecIndexFailures` | `CoinsInIndex` | when `WriteBatchSync` fails the dirty sets are already cleared (2153-2165); a later flush writes coins the index does not know (2172: "This can only be done if the blocks / block index write was also done") |
| `persistence` | `UndoDurable` | `FlushBlockFile` commits the undo file of the last block file only, and undo data goes to earlier ones too (2147: "First make sure all block and undo data is flushed to disk") |
| `block_download` | `AnswersCounted` | `submitblock` brings a block that a direct fetch has asked for as a compact block (`net_processing.cpp` 2602-2605); the `cmpctblock` that answers returns at 2248-2249 without `MarkBlockAsReceived`, the request stays in flight, and the peer that answered may be disconnected for it (3455-3466) |
| `headers` | `OutdatedRejected` | a version is outdated only if a deployment is in two states at once (3151-3163), so nothing is rejected |
| `headers` | `WarnedForUnknown` | the chain id 0x2020 sets bit 21 and merged mining bit 8, so an ordinary merged-mined chain raises the warning of unknown rules (1764) |

Noted while modelling, without a property: `ConnectBlock` 1924-1938 enforces DERSIG and
CLTV while a deployment is started or active and not while it is locked in, with BIP65
and BIP66 exchanged, and 3196-3198 does the same for the height in the coinbase;
`miner.cpp`'s base version 4 always signals BIP65; `pow.cpp` 154 "Force high difficulty
for invalid timestamps" returns the easiest target; a header too far in the future is
refused as `bad-diffbits` before `time-too-new` is looked at; the fallback after
`PermittedDifficultyTransition` is dead code, which `RetargetsSound` shows; below height
69360 the interval is twelve timespans and the division is by one;
`LoadBlockIndexDB` passes `BLOCK_FAILED_CHILD` on only to blocks with transactions;
comments at 1282-1284 speak of 360 and about 6 blocks where the code has 100 and 30;
`removeForReorg` reads coins before it tests for null (`txmempool.cpp` 555), which
`InputsAvailable` makes harmless; the limits of chains in the pool can be exceeded
after a reorganisation; `nPendingHeaderRequests` stays positive if a peer ignores
`getheaders`; a crash between writing the index and unlinking pruned files leaves the
files behind.

## 5. Proofs

Everything here is for every value of the constants that satisfies the named
assumptions: trees of any size, any number of threads, peers, workers, transactions
and files, any limits.

| Module | About | Theorems |
|---|---|---|
| `BlockTreeProofs` | `BlockTree` | `FindForkExact`, `LastCommonAncestorExact` |
| `ChainStateProofs` | `ChainState` | `TypeCorrect`, `LinkedCorrect`, `FindMostWorkChainSafe`, `ActiveChainCorrect`, `ScriptsCorrect` |
| `ChainSelectionProofs` | `ChainState` | `FailedHasCauseAlways`, `SortKeyStableAlways`, `LinkedIffReceivedAlways`, `UnlinkedExactAlways`, `NeverAborts`, `WarningsNotStaleAlways`, `AssertionsHoldAlways`, `BestChainActiveAlways`, `CandidatesExactAlways` |
| `UtxoProofs` | `CoinsCache`, `Utxo` | `CacheFlagsHonestAlways`, `FlushNeverThrowsAlways`, `CachesImplementPlainMaps`; `LedgerInvariance`, `UtxoExactAlways`, `UndoCompleteAlways`, `VerdictExactAlways`, `CoinsAsExpectedAlways`, `NodeFlagsHonest`, `NodeImplementsPlainMaps` |
| `PersistenceProofs` | `Persistence` | `TypeCorrect`, `ReadableAlways`, `IndexBackedAlways`, `DirtyExactAlways`, `CoinsInIndexAlways`, `RecentBlocksKeptAlways` |
| `CheckQueueProofs` | `CheckQueue` | `ResultExactAlways`, `NothingLeftOverAlways`, `NoCheckTwiceAlways`, `IdleBoundedAlways` |
| `DownloadStateProofs` | lemmas for the next: the invariant, the calls, the handlers of `inv`, `headers`, `block`, `blocktxn`, and `submitblock` | |
| `BlockDownloadProofs` | `BlockDownload` | `Invariance`, `TypeCorrect`, `InFlightExactAlways`, `CountersExactAlways`, `StallerOwesAlways`, `RequestsOpenAlways`, `CommonBlockExactAlways` |

**Block tree.** From `BlockTreeAssumption` (finitely many blocks; ancestors form a line
down to the genesis) heights are shown to number a chain, and two chains to have a
highest block in common. The walks of `FindFork` and `LastCommonAncestor` are shown to
end there: the walk is a recursive function, every step of it keeps the block in common
below, and goes down. Induction on heights is done
by looking at a least counterexample (`LeastNatural`), since the induction theorems of
the library cannot be instantiated.

**Chain selection.** The invariants build on each other.

* `TypeInv`: types, and that the index is closed under ancestors, and that a thread
  past `FindMostWorkChain` has a target. `LinkInv`: what is linked was received, because an
  entry leaves `mapBlocksUnlinked` only when its predecessor has been linked. `RuleInv`,
  without `invalidateblock`: every mark has its cause in a `Verdict`, and a block with
  such a cause below it is never connected, stale targets included.
* `CauseInv`, without `reconsiderblock`: a mark has a block found invalid at or below
  it, and `gFailedBlocks` holds such blocks only. With `reconsiderblock` both fail.
* `ReceivedInv`, without pruning: what waits in `mapBlocksUnlinked` is not linked, and
  what was received is still there. A block therefore gets its `nSequenceId` once,
  before it becomes a candidate. With pruning a candidate could be received again and
  numbered again, so the theorem does not cover it.
* `CompleteInv`, without pruning, `invalidateblock` and `reconsiderblock`: a received
  block whose predecessor is linked is linked, and one that is not linked waits, unless
  a block below it is marked and was never received. It gives
  `LinkedIffReceived` and `UnlinkedExact`, which fail with either RPC (section 4).
* `UndoInv`, without pruning: everything below the tip has block and undo data, and a
  thread's fork point is below the tip, so `AbortNode` is never called for want of
  data. `WarnInv` adds that a warning on show is deserved unless
  `ActivateBestChainStep` is just moving the tip, in which case its last act sees to it.
* `OrderInv`, without operator calls and pruning: no candidate is worse than the tip,
  and every linked block not marked invalid is a candidate or is beaten by a candidate
  that obeys all rules, known to the node or not. That the winner obeys them is what makes it
  inductive: candidates above an invalid block are dropped without a replacement. So the
  candidates are never empty, and `AssertionsHold` follows for any number of threads. `preciousblock` is excluded because `nBlockReverseSequenceId` starts again
  when the chain grows, and a block may then rise in the order without an earlier one
  being a candidate; TLC finds no violation with it, but the invariant is not inductive.
* `SelectInv`, for one thread: `pindexMostWork`, while it is kept across a release of
  `cs_main`, has no better candidate, and neither has the tip when the thread is idle.
  `BestChainActive` and `CandidatesExact` follow. With two threads this is false:
  `bug_stale_target` is the counterexample.

**Coins.** `CacheInv` says the flags are honest: an entry that is not `DIRTY` equals
what is below it, and below a `FRESH` one is nothing. That makes every operation a
step or a stutter of `CoinsView`. `LedgerInv` adds what the plain maps hold:

* `Ledger`: `pcoinsTip` and the database are `Unspent` of their best blocks; chains are
  valid and have undo data, in memory and on disk; undo data, wherever it is, is
  `BlockUndo`, what the blocks say it must be; the disk has no undo data that memory lacks;
  and what memory has and the disk has not is in `dirty`.
* `JobInv`: in the middle of `ConnectBlock` or `DisconnectBlock` the view is
  `Mid(b, n, m)`, the parent's coins with `n` transactions applied and `m` inputs of
  the next spent. Connecting goes up along `Mid`, disconnecting comes down the same
  way, and the lemmas on `Mid` show that a spend and its undo record are inverse, also
  for outputs made and spent in one block. A failed check means that the block breaks
  the rule stated on the whole block.
* `TipInv`, `FlushInv`: no block is worked on unless the view stands for the tip, and
  between the two writes of a flush the index on disk already has the undo data.

Neither `TipInv` nor the last part of `Ledger` can be left out: without them a rejected
block, or a flush, leaves the invariant. The theorems assume `fEnforceBIP30`, without which
they are false (section 4). `NodeUsesCaches` shows that every step of the node is a step
of `CoinsCache` or leaves the layers alone, which carries the refinement over to the node.
Assumed of blocks and transactions: heights count from the parent
(`BlocksAssumption`), only the first transaction of a block has no inputs and none
spends an output twice (`TransactionsAssumption`, what `CheckBlock` and
`CheckTransaction` enforce).

**Persistence.** Every write goes above all that the index on disk knows of the file
(`SizesGrow`), unless the file is abandoned; blocks are committed before the index
refers to them (`CommittedFirst`); files are removed after nothing refers to them, in
memory and then on disk (`PrunedUnused`); the transactions of the chain are on disk
before the coins (`ChainKnown`). `PruneAssumption` is the one of section 3.

**Check queue.** `nTodo` counts the checks that are queued or in a batch, all of this
round (`TodoExact`); while `fAllOk` stands, all others were run and are good, and a
result that is false has a bad check of this round behind it (`ResultSoFar`); one thread
has the mutex, one master the control object (`Exclusive`); `nIdle` and `nTotal` are the
sizes of the sets of threads they stand for, an interrupted worker included.

**Block download.** `DownloadInv` says for each peer that its list, both counters and
`mapBlocksInFlight` name the same requests, each asked for and unanswered, that a
stalling peer owes the block it is timed for, that a peer is credited only with blocks
it has had, and that the three global counters are cardinalities. Handlers are chains
of calls on a record (`Received`, `GetData`, ...), and each call has its lemma in
`DownloadStateProofs`; inside a handler a block may be in flight without having been
asked for, which the parameter `X` of `Good` allows for as long as the handler runs.
A block that is stored is in flight from nobody unless `submitblock` may bring it
(`Landed`), which confines the exception in `RequestsOpen` to such blocks. A peer asked
for a compact block has it in its chain (`MailOK`), so the answer does not credit it with
a block it never had.

Every one of these invariants was checked with TLC on the instances of section 3
before it was proved.

**Only model-checked.**

* Liveness (`ActivationReturns`, `WaitReturns`, `SyncCompletes`): out of the prover's
  reach.
* `Headers` and `Mempool`: their operators walk chains and graphs with recursive
  definitions (`GetAncestor`, `GetStateFor`, `TrimToSize`), and `HeaderTree` uses bitwise
  operations, neither of which the prover handles. What they compute is compared with
  references on every reachable state of the runs.
* What the theorems' premises leave out: chain selection with pruning, with the RPCs
  named, and with several threads where only one is covered; the runs cover each on a
  small instance.

## 6. Not modelled

Merged mining proofs, subsidies, cryptography and encodings are functions without
state. Connections, RPC and HTTP servers, notifications and command line tools are
input and output around the operations modelled here. The wallet is a client that
changes none of this state. The address manager, adjusted time, scheduler, block
assembly and bounded containers are small or read-only. Of persistence, `-reindex`,
`VerifyDB`, `RewindBlockIndex` and the transaction index are left out; of peer
messages, transaction relay, addresses, serving and bloom filters. `PROJECT.json`
gives the reason for each.
