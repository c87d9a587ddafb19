# Formal models of Meowcoin Core

Meowcoin Core is a fork of Bitcoin Core with Ravencoin-style assets and two
proof-of-work algorithms. The models cover what is specific to it and hardest to
test (the asset state that every block reads and changes, spread over four layers
in memory and on disk, and the asset side of the mempool), and the parts of the
inherited node on which it stands and where threads, crashes or clocks meet: the
coins caches and their database, the script check queue, the tracker of
transaction requests, and the background indexes. All source paths below are
relative to `src/src/`.

## 1. Inventory

### The system's parts

| Part | Source | State | Operations |
|---|---|---|---|
| Asset rules | `consensus/tx_verify.cpp`, `assets/assets.cpp` | none | `CheckTxAssets` and the `ContextualCheck*` functions |
| Asset store | `assets/assets.cpp`, `assets/assetdb.cpp`, `assets/restricteddb.cpp` | a `CAssetsCache` per block, `passets`, five LRU caches, two LevelDBs, the best-block marker | `Add*`, `Flush`, `DumpCacheToDatabase`, `CheckIf*`/`CheckFor*`/`Get*`, `LoadAssets` |
| Block connection | `validation.cpp` | coins cache, active chain | `ConnectTip`, `ConnectBlock`, `DisconnectTip`, `DisconnectBlock`, `FlushStateToDisk` |
| Start-up and rebuild | `init.cpp`, `validation.cpp` | start-up arguments | step 8b of `AppInitMain`, `ReindexAssets`, `Shutdown` |
| Asset mempool index | `mempool_asset.cpp`, `txmempool.cpp` | forward and reverse maps | stage, register, unregister |
| Block template | `node/miner.cpp` | none | `CreateNewBlock`, `TestBlockValidity` |
| Messages, rewards, snapshots | `assets/messages.cpp`, `assets/rewards.cpp`, `assets/*snapshot*.cpp` | LevelDBs and LRU caches | scan blocks, write snapshots |
| Coins | `coins.cpp`, `coins.h`, `txdb.cpp`, `validation.cpp` | layered `CCoinsViewCache`s, the coins database | lookups, `AddCoin`, `SpendCoin`, `Flush`, `Sync`, `BatchWrite`, `ReplayBlocks` |
| Script check queue | `checkqueue.h` | queue, counters, result | `Add`, `Loop`, `Complete`, the destructor |
| Transaction requests | `txrequest.cpp` | announcements indexed three ways, statistics per peer | the operations of `TxRequestTracker` |
| Indexes | `index/base.cpp`, `index/coinstatsindex.cpp` | best block, `m_synced`, records by height and by hash, the last commit | `Sync`, `BlockConnected`, `ChainStateFlushed`, `Rewind`, `Commit`, `Init` |
| Notifications | `validationinterface.cpp`, `scheduler.cpp` | a queue of callbacks | enqueue, run in order, drain |
| Other parts of Bitcoin Core | `node/*`, `headerssync.cpp`, `net*.cpp`, `versionbits.cpp`, `wallet/` | see `PROJECT.json` | |

### How they interact

`ConnectTip` creates an empty `CAssetsCache` and hands it to `ConnectBlock`,
which checks each transaction with `CheckTxAssets` and applies it to the cache.
Lookups fall through the block's cache, `passets`, the LRU caches and the
databases; a lookup that reaches a database leaves what it found in an LRU
cache. When the block is valid the cache is folded into `passets` (`Flush`).
`FlushStateToDisk` later writes the coins, then `passets` entry by entry
(`DumpCacheToDatabase`), then the hash of the coins tip as a marker. At start-up
the marker is compared with the coins tip; when they differ both asset databases
are wiped, and after `ImportBlocks` a background thread rebuilds them from the
blocks on disk (`ReindexAssets`).

Between blocks the mempool checks transactions against the same layers, and
against its own maps of the claims that waiting transactions make (a name being
issued, a global freeze, a tag). `addNewTransaction` registers what the outputs
claim, `RegisterAssetMempoolTxInputs` what the inputs rely on, and
`removeUnchecked` takes both out again. A block removes its transactions and what
spends the same inputs (`removeForBlock`); a reorganisation queues the
transactions of disconnected blocks and offers them again
(`MaybeUpdateMempoolForReorg`). `CreateNewBlock` picks from the mempool and has
`TestBlockValidity` look at the result.

Beside the assets, `ConnectTip` and `DisconnectTip` change the coins through a
cache of their own on top of that of the chain state, which `FlushStateToDisk`
writes to the database in batches; `ReplayBlocks` repairs at start-up what a crash
between two batches left. `ConnectBlock` hands the scripts of a block to the check
queue and waits for its verdict with `cs_main` held. Each connected block and each
flush is queued as a notification, from which the indexes are kept up to date once
a thread of theirs has caught up with the chain. Transactions reach the mempool
from peers that announce them; the tracker decides whom to ask, and when to ask
somebody else.

### What makes it hard

Crashes between the writes of a flush; writes that fail half-way through a dump,
with LRU entries already put; dirty entries that must hide stale ones below;
LRU evictions at any lookup; reorganisations, for which `DisconnectBlock` undoes
no asset; a rebuild that is interrupted, that skips a block, or that starts after
new blocks were connected; start-up arguments that wipe one database and not
another. In the mempool: two maps per kind of claim that must agree through
replacement, packages, eviction and reorganisation, and transactions re-added
below children that never left. In the coins: flags that let an entry be dropped
unwritten, blocks that fail in the middle, batches torn by a crash, and a second
crash during the repair. In the check queue: a count that is lowered one batch late,
notifications outside of the lock, and threads shared by successive blocks. In the
tracker: loops that change the index they walk over, requests that expire while the
answer is on its way, and a clock that goes backwards. In the indexes: the moment in
which one thread stops and another takes over, with a backlog from a branch that is
no longer there. `PROJECT.json` lists each under `hazards` with its line.

## 2. Modules

| Module | Models |
|---|---|
| `AssetRules` | transactions, the consensus rules on them, and their effect on a ledger |
| `AssetLedger` | the abstract promise: a chain, the block being connected, and lookups that answer with the ledger of the chain |
| `AssetStore` | the four layers, flushing, stopping, crashing, starting and rebuilding |
| `MCAssetStore` | small instances, and the steady node with one more behaviour of the program each |
| `AssetStoreProofs` | theorems about every behaviour of `AssetStore` |
| `AssetReorgProofs` | theorems about `ReorgSpec`, the node with reorganisations |
| `AssetSteadyProofs` | theorems about `SteadySpec`, the node without them, and the refinement of `AssetLedger` |
| `AssetMempool` | the mempool's transactions and asset maps, blocks and reorganisations as they act on them, and templates |
| `MCAssetMempool` | a small set of transactions |
| `AssetMempoolProofs` | theorems about `AssetMempool` |
| `CoinsRules` | transactions, coins, undo data, chains and the coins they leave |
| `CoinsLedger` | the abstract promise: the coins of a chain, and a durable chain to which a crash falls back |
| `CoinsViews` | the caches, the database and its batches, `ReplayBlocks` |
| `MCCoinsViews`, `CoinsViewsProofs` | five transactions; theorems about `CoinsViews` |
| `CheckQueue` | `CCheckQueue` with its master and workers |
| `MCCheckQueue`, `CheckQueueProofs` | two workers and two rounds; theorems |
| `Announcements` | what the two trackers share: peers, transactions, times and priorities |
| `TxRequestRules` | the abstract promise: the naive tracker of the fuzz test |
| `TxRequest` | `TxRequestTracker::Impl`, loop by loop |
| `MCTxRequest`, `TxRequestProofs` | three peers; theorems |
| `BaseIndex` | the life of an index between the chain, the sync thread and the notifications, with `CoinStatsIndex` as the index proper |
| `MCBaseIndex`, `BaseIndexProofs` | four blocks with a fork; theorems |

### State and actions of AssetStore

| Variable | Code |
|---|---|
| `chain` | the chain of `CoinsTip()`, flattened to its transactions; each entry carries the ledger it leaves, a history no guard reads |
| `pending` | the block inside `ConnectTip` |
| `local` | its `CAssetsCache` (in `ReindexAssets`, that of the block being re-read) |
| `passets` | the global dirty cache |
| `lru` | `passetsCache`, `passetsRestrictionCache`, `passetsGlobalRestrictionCache` |
| `db` | `passetsdb` and `prestricteddb` |
| `marker`, `coinsDB` | the best block of `passetsdb`; the chain whose coins are on disk |
| `mode` | running, stopping, down, importing before a rebuild, rebuilding |
| `flush` | the loop of `DumpCacheToDatabase` that is running, or the marker still to write |
| `rpos` | the transactions `ReindexAssets` has processed |

Blocks: `BeginBlock`, `ConnectTx`, `RejectBlock`, `FinishBlock` (`ConnectTip`),
`DisconnectTip`. `PreChecks` is a lookup by the mempool. Disk: `FlushCoins`,
`DumpNewAsset`, `DumpReissue`, `DumpRestricted`, `DumpGlobal` (each a single
database write that may fail), `DumpNext`, `DumpDone`, `WriteBestBlock`.
Life cycle: `StopRequest`, `Crash`, `Restart`, `RestartReindexChainstate`.
Rebuild: `StartReindex`, `ReindexTx`, `ReindexSkipBlock`, `ReindexInterrupted`.

`cs_main` is held through `ConnectTip`, `FlushStateToDisk` and `ReindexAssets`,
so their steps interleave with a crash only; that is what `Idle` expresses.

Abstractions: amounts are in units of `10^-MaxUnit`; IPFS hashes, heights and
block hashes of metadata are left out, as no rule reads them. Any LRU entry may be
the one evicted. A dump may follow any block of a rebuild (the code: every
10000th). The conditions on time and cache size that decide when
`FlushStateToDisk` writes are left open. Assets are deployed from genesis on. The
`setNew*ToRemove` sets are always empty in the program (their writers have no
callers) and are left out.

`SteadyNext` is the node whose environment is kind: the chain only grows, a
rebuild is not disturbed, and no reindexing argument is given. `ReorgNext` adds
`DisconnectTip`. `Next` is everything the program can do.

### State and actions of AssetMempool

| Variable | Code |
|---|---|
| `mp.mapTx`, `mp.links` | `mapTx`, and the parents and children of its entries |
| `mp.mapAssetToHash` | the same |
| `mp.byValue`, `mp.byHash` | the maps from values to transaction ids and back, each entry tagged with the map it is in |
| `chain`, `utxo` | the blocks above the first; the coins of `CoinsTip()` |
| `view`, `tags` | what lookups of assets and of qualifier tags answer |
| `disconnectpool`, `vHashUpdate` | the same; earliest transaction first |
| `phase` | idle, or the part of a reorganisation that runs |

`AcceptSingleTransaction` and `AcceptMultipleTransactions` are the two ways in:
checks, replacement, `Apply`, registration of inputs and `LimitMempoolSize` in one
step, as `cs_main` and the mempool's lock are held throughout. `ConnectTip` and
`DisconnectTip` include `removeForBlock` and the overflow of the disconnect pool.
`Resubmit` is one turn of the loop of `MaybeUpdateMempoolForReorg`, and
`FinishReorg` its end.

Abstractions: a transaction has one asset operation and one address it pays.
What depends on fees, ages, sizes, standardness or the rules for version-3
transactions is left open: any transaction may be refused, and any set closed
under children may be evicted. A package is a parent and a child (the code takes
several parents, which are checked and added in the same loops). The asset state
is that of a steady node, except that `DisconnectTip` leaves `view` and `tags` as
they are, as the code does. Coinbases, which hold no asset and never enter the
mempool, are left out. A block is any sequence of transactions whose inputs and
assets are valid, so blocks come from the node's own mempool or from elsewhere.

### State and actions of CoinsViews

| Variable | Code |
|---|---|
| `chain` | the chain of `CoinsTip().GetBestBlock()`, flattened to its transactions with their undo data; each entry carries the coins it leaves, a history no guard reads |
| `view`, `tip` | the cache on the stack of `ConnectTip` or `DisconnectTip`; `CoinsTip()`, or the cache of `ReplayBlocks`: for each outpoint whether there is an entry, its coin, `DIRTY` and `FRESH` |
| `db` | the coins on disk, and `DB_HEAD_BLOCKS` or `DB_BEST_BLOCK` |
| `job` | the loop over the transactions of blocks that is running |
| `wr` | `CCoinsViewDB::BatchWrite` while it runs: what is left to write |
| `mode` | up, down, or replaying |

Blocks: `BeginConnect`, `ConnectTx`, `RejectBlock`, `ConnectTip`, `BeginDisconnect`,
`DisconnectTx`, `DisconnectTip`. `AccessCoin` and `UncacheCoin` are what the
mempool does to the cache. Disk: `FlushStateToDisk` with `Flush` or `Sync`,
`WritePartial` (any set of the entries), `WriteFinal`, and `WriteFails` in
`FaultSpec` only. Life cycle: `Crash`, `Restart`, and the steps of `ReplayBlocks`
(`RollbackTx`, `RolledBack`, `RollforwardTx`, `ReplayFlush`).

Abstractions: a coin is the number of its height, which is what tells two coins of
an outpoint apart. The order in which entries are put into batches, and the sizes
that decide when a batch is full or the cache is written, are left open. Coinbase
maturity, scripts and memory accounting are left out.

### State and actions of CheckQueue

The variables are those of `CCheckQueue` and of the frames of `Loop`: `pc` is where
a thread is, `batch` its `vChecks`, `woken` the waiting threads that have been
notified. `Begin`, `Add`, `NotifyOne`, `NotifyAll`, `Complete`, `Destroy` and `Join`
are the master's; `Loop` is one passage of any thread through the critical section
(`Return`, `Wait`, `Stop` or `Take`), `Work` and `Skip` what follows it without the
lock, and `SpuriousWakeup` what a condition variable may do. A check is an identity
that passes or fails; the order of the queue does not matter and is left out.

### State and actions of TxRequest

`m_index` maps each pair of peer and transaction to its announcement, `m_peerinfo`
holds the statistics, `call` the loop that is running with the announcements at its
start, `answer` the last result of `GetRequestable`. The loops of `SetTimePoint`
(`PromoteOrExpire`, `Demote`), of the listing (`Select`) and of `DisconnectedPeer`
(`Drop`, `Dropped`) take one step per announcement; the other operations are one
step. `TxRequestRules` is the tracker that the fuzz test compares with, which looks
at all announcements every time; `call.before` is what the refinement mapping shows
it while a loop runs.

Abstractions: the priority of an announcement is a number with a bit for preferred
peers, as the salted hash is compared and nothing else. The sequence numbers by
which the answer is sorted and `GetCandidatePeers`, which only reads, are left out.

### State and actions of BaseIndex

| Variable | Code |
|---|---|
| `tip`, `flushed` | `m_chain.Tip()`; the tip of the coins on disk |
| `queue` | the callbacks that are pending, oldest first |
| `best`, `synced` | `m_best_block_index`, `m_synced` |
| `sync` | where the sync thread is, and its `pindex` |
| `job` | `Rewind` and `ProcessBlock` while they run: the block to add and the block they have come down to |
| `current` | the block whose state `CoinStatsIndex` has in memory |
| `byHeight`, `byHash`, `committed` | its records, and what `Commit` wrote last |
| `mode`, `failed` | up, stopping or down; whether `FatalErrorf` was ever called |

`ActivateBestChainStep` moves the tip to any block, queues the blocks above the
fork, and may flush at any block in between, when the coins are already those of the
block and the tip is not; `FlushStateToDisk` is the flush at a time of its own. The sync thread does
`SyncNext`, `SyncCheck` (the second look, with `cs_main`) and `SyncInterrupted`; the
queue does `BlockConnected` and `ChainStateFlushed`; both work through
`CustomRemove` and `CustomAppend`, one block at a time, or end in `Fatal`.
`StopRequest`, `Crash` and `Restart` are the life cycle.

Abstractions: a block is its path from genesis, as its hash commits to its
ancestors, and the state of the index after a block is that block. Reads of blocks
and writes to the index succeed. A step flushes at most once. The block named by the
last commit is taken to be in the block index at the next start; where it is not,
`Init` refuses to start and asks for a rebuild. Pruning and the roles of a node that
started from a snapshot are left out.

## 3. Runs

| Run | Specification | Shows |
|---|---|---|
| `Steady` | `FairSpec`, which is `SteadySpec` with fairness; issues, reissues, freezes and transfers | `ViewIsLedger`, `MarkerSound`, `SupplyWellFormed`, `ReissueMonotone`, `RebuildEnds`, and `KeepsPromise`: the store implements `AssetLedger` |
| `Reorg` | `ReorgSpec` | `NoAssetLost`, `RebuildExact` |
| `Full` | `Spec` of `AssetStore` | `TypeOK` and `LruCoherent` under every behaviour |
| `ReorgUndo` | `ReorgSpec` | violated: a disconnected freeze stays in force |
| `Interrupt` | steady node and `ReindexInterrupted` | violated: a half-built database is marked as complete |
| `Mempool` | `AssetMempool`: issues, a reissue, a transfer, global freezes and tags | `TypeOK`, `IndexMirrorsPool`, `ClaimsExclusive`, `NoDoubleSpend`, `PoolConsistent` |
| `MempoolTemplate` | the same | violated: a template with a name that was just taken passes `TestBlockValidity` |
| `Coins` | `FairSpec` of `CoinsViews` | `FlagsSound`, `CoinsOfChain`, `NoFailure`, `DiskRecoverable`, `ReplayEnds`, and `KeepsPromise`: caches, batches, crashes and replays implement `CoinsLedger` |
| `CoinsSync` | `FaultSpec`: batches may fail | violated: after a failed `Sync` the flush at shutdown marks a database without the lost batch as consistent |
| `CheckQueue` | `FairSpec` | `TodoCounts`, `VerdictSound`, `RoundsIsolated`, `Returns`, `Joins` |
| `TxRequest` | `FairSpec` | `CountsRight`, `Sanity`, `NeverTwice`, `CallsReturn`, and `KeepsPromise`: the tracker implements `TxRequestRules` |
| `Index` | `FairSpec` of `BaseIndex` | `NoBlockMissed`, `CommitRecoverable`, `ChainIndexed`, `NoAbort`, `CatchesUp` |

The four violated properties quote a comment or help text of the program; the
`findings` of `PROJECT.json` name the lines.

`MCAssetStore` has four more specifications, each the steady node with one more
behaviour of the program, in which a property of `Steady` or one beside it fails:
`UnreadableSpec` (`MarkerSound`: a rebuild that skipped a block is marked as
complete), `ImportSpec` (`MetadataAvailable`: blocks are checked against wiped
databases), `ReindexAssetsSpec` (`ViewIsLedger`: `-reindexassets` with a matching
marker applies reissues to metadata that was not wiped) and `ReindexChainstateSpec`
(`AcceptsByLedger`: `-reindex-chainstate` meets assets of blocks still to come).

In `Index`, `NoAbort` is about the time before the first restart, and
`CommitRecoverable` and `NoBlockMissed` about a node in which `FatalErrorf` was never
called. After a restart it may be: `RevertBlock` reads a record of the hash index as
a pair of hash and value (`index/coinstatsindex.cpp:407`), but
`CopyHeightIndexToHashIndex` stores the value alone (line 259), so the read fails
when a crash has undone a reorganisation and the height index holds the other
branch. The index then asks the node to stop, and has to be rebuilt.

### Bounds

`MaxChain` limits the transactions of a chain (4 to 6, coinbases included) and
`MaxBlock` those of a block (4 besides the coinbase in `Steady`, 2 elsewhere), which
is enough for an issue and two reissues of it to share a block, and for two of them
to straddle blocks, a flush and a crash in every combination. One ordinary and one restricted asset with one
address suffice for the coherence of layers, which is a property of one key, and
with an LRU cache of a single entry every second lookup evicts. `MaxMoney = 30`
and `MaxUnit = 1` are the smallest values at which the supply limit and the
divisibility rule both reject something. `Restart(TRUE)` is bounded to databases
whose amounts are at most `MaxMoney`, as each such restart doubles reissues.

The mempool's instance has twelve transactions over fifteen outpoints: two issues
of a name and two global freezes that compete, the freezes also as a package,
three transactions that spend one outpoint, a chain of three, and a parent that can
be confirmed, disconnected and re-added below its children. Three blocks of up to two
transactions allow a reorganisation of two blocks with a competing one. A
transaction can be in the mempool alone, with a conflict, and with an ancestor and
a descendant, which are all the relations that the actions look at.

`Coins` has two coinbases, two transactions that spend the same coin and one that
spends an output of its own block and one of an earlier block, in chains of up to
three blocks of two transactions: a reorganisation that re-creates a coin with
another height below a flush, a torn write and a torn replay. Flags are a property
of one outpoint, and no more than two blocks can meet in the database at a time.
`CheckQueue` has two workers, four checks of which two fail, batches of two and two
rounds: a thread can hold a batch while another finds the queue empty and while the
master returns, and the first round can leave something to the second. `TxRequest`
has three announcements of one transaction (requested, best and waiting behind it),
a peer with two transactions, and two times, so that the clock can go forward and
back. `Index` has a chain of three blocks with a fork at the first, so that a
reorganisation removes two records and overwrites one of them; two changes of the
tip, a queue that holds the backlog of both, and one restart. With three changes the same properties hold (0.9
million states).

### Fairness

In each case what is assumed is that a thread goes on while nothing blocks it, and
nothing is assumed of the environment.

`RebuildEnds` assumes weak fairness of the rebuild's steps and of the dump's. Both
are loops of the thread that holds `cs_main`, so nothing but a crash can disable
them. Blocks, stop requests, write failures and restarts may come or not.
`ReplayEnds` assumes weak fairness of the steps of `ReplayBlocks` and of the last
batch of a write, which are loops of the start-up thread. `Returns` and `Joins`
assume it of each thread's passage through the critical section and of its work, so
that a thread gets the lock in the end and checks terminate; no fairness is assumed
of spurious wake-ups. `CallsReturn` assumes it of the loops of the tracker. That a
transaction announced by somebody is requested in the end is not claimed: the clock
may go back and preferred peers may come and go for ever. `CatchesUp` assumes it of
the sync thread and of the thread that runs the queue.

## 4. Proofs

`AssetStoreProofs` proves, for every set of names, addresses and transactions and
every cache size, from the named assumptions of `AssetRules` and `AssetStore`:

* `TypeCorrect`: `Spec => []TypeOK`.
* `LruAlwaysCoherent`: `Spec => []LruCoherent`, for the complete next-state
  relation, so that failed writes, crashes, reorganisations, and skipped or
  interrupted rebuilds are all covered.
* `StoreAdvances`: `Spec => [][DumpAdvances /\ RebuildAdvances]_vars`, and
  `RebuildAlwaysGoesOn`: `Spec => []RebuildGoesOn`, the progress of dumps and
  rebuilds (see the end of this section).

`LruCoherent` is not inductive. `LruInv` adds `Quiet` (the block's cache is empty
outside of a block, and nothing is being dumped inside one), `FreshLocal` (a
block issues only names that no other layer knows, so that folding its cache into
`passets` never leaves the LRU cache with other metadata), `Written` (a finished
loop of the dump has left its LRU entries equal to the database, which
`ClearDirtyCache` relies on) and `ImportClean` (no failed dump precedes the
clearing of `passets` by a rebuild, which would uncover an entry put for it).
Type lemmas and facts about `Put`, `ReadThrough`, `Mutate` and `Flush` are stated
once and cited; there is one step per action.

`AssetReorgProofs` proves, for the node with reorganisations:

* `NoAssetIsLost`: `ReorgSpec => []NoAssetLost`.
* `RebuildsAreExact`: `ReorgSpec => RebuildExact`.

`Layered(l, p, d)` is the ledger that a block's cache `l`, the dirty cache `p` and
the databases `d` amount to, and the first half of the module is an algebra of it:
lookups answer with it (`ViewLayered`, from `LruCoherent`), `Mutate` changes it as
`ApplyTx` does, `Flush` and each write of a dump leave it alone, and once all
records are written the databases are equal to it. The invariant `RInv` joins
`LruInv` with `Store`: a block issues only names that no layer below knows, and a
reissue finds its asset in its layer or below (`Backed`), every ledger in the chain follows from the one before (`ValidChains`),
the layers hold at least the assets of the chain, and the databases those of the
marker (`Covered`), a rebuild stands at
the ledger of the entry that it has reached, and after a crash memory holds nothing
(`Phases`), and the finished loops of a dump have written all their records
(`Dumped`). `Covered` survives `DisconnectTip` because the ledgers of a chain only
gain assets (`PrefixValid`), and an issue that `DisconnectTip` has left behind makes
the same issue fail its check later, not be applied twice.

`AssetSteadyProofs` proves, for the node whose blocks are only connected:

* `LookupsAnswerLedger`: `SteadySpec => []ViewIsLedger`.
* `MarkerIsSound`: `SteadySpec => []MarkerSound`.
* `SuppliesStayWellFormed`: `SteadySpec => []SupplyWellFormed`.
* `ReissuesOnlyGrow`: `SteadySpec => ReissueMonotone`.
* `StoreKeepsPromise`: `SteadySpec => KeepsPromise`, the refinement of
  `AssetLedger`.

`SInv` strengthens `RInv` by `Exact` (the layers are equal to the ledger of the
chain, and with the block's cache to that of the block), `Markers` and `Supplies`.
What makes `MarkerSound` inductive is that a marker equal to the chain implies an
empty `passets`: a dump can tear the databases only when there is something to
write, and then a block has been added since the marker was written. `Markers` also
says that the coins database holds an earlier tip of the chain, which makes a crash
a `Rollback` of `AssetLedger`. `Supplies` holds of every entry of the chain; its
arithmetic (a sum of multiples of a power of ten, and a multiple of a higher power)
is why `UnitAssumption` bounds `MAX_UNIT` by 8, its value in the code.

`AssetMempoolProofs` proves, for every set of transactions, names and outpoints,
from the named assumptions of `AssetRules` and `AssetMempool`:

* `IndexAlwaysMirrorsPool`: `Spec => []IndexMirrorsPool`.
* `ClaimsAlwaysExclusive`: `Spec => []ClaimsExclusive`.
* `NeverDoubleSpends`: `Spec => []NoDoubleSpend`.
* `PoolStaysConsistent`: `Spec => []PoolConsistent`.
* `MempoolTypeCorrect`: `Spec => []TypeOK`.
* `TemplateInputsAlwaysValid`: `Spec => []TemplateInputsValid`. At idle moments a
  block that `addPackageTxs` could put together (transactions of the mempool, each
  with its in-mempool parents before it) never spends a coin that is not there. So
  the templates that the `MempoolTemplate` run finds invalid can only fail on the asset
  checks, for which the mempool keeps no order.

`MempoolAssumption` says what an outpoint is: it names the one transaction that
creates it, so no two transactions share an output, none spends its own, and none
creates a coin that was there at first.

Neither of the first two is inductive alone: `mapAssetToHash` has one slot per name, so
it mirrors the mempool only as long as claims are exclusive, and the check that
keeps them exclusive reads the maps. `PoolInv` joins the three with the type of
`mp`. It is stated of a mempool value, because an action takes the mempool through
several: `RemoveKeeps` and `AddKeeps` show that removal of any set and addition of
a transaction that is apart from the rest preserve it, `PolicySound` that what the
check learns from the maps holds of the transactions, and `PackageOrder` that a
package, whose inputs are registered after all its transactions were added, ends as
if they had been added one by one.

`PoolConsistent` speaks of idle moments only, and what makes it true again after a
reorganisation is what holds in the middle of one. `Settled` says that the confirmed
transactions spend each coin once and leave exactly `utxo`; `PoolOn` relates the
mempool to these coins, to the transactions `D` that are still to be put back or
given up, and to those put back, `H`: inputs are unspent or made in the mempool or
by `D`; `D` and `H` spend nothing that the rest of the mempool made; and the only
links that are missing lead from `H` to children that were there before. That is
why `CalculateDescendants` still finds every child when it is called in the middle:
it is called for spenders of `D`, none of which is in `H` (`DescendantsOn`,
`RecursiveOn`). `MempoolInv` adds `Grounded` (no transaction is in two blocks, and a
block spends what the chain holds up to it, without which a disconnected block would
not leave coins that are `Settled`) and that disconnected transactions share no
input with the chain until the new branch is connected. Each operation is one lemma
about `PoolOn`, and a lemma about sequences takes it to `chain` and
`disconnectpool`.

`AppliedTo` and `Without` are recursive functions over a block and over the queue.
That they are well defined, and what they return, is proved by a least counterexample
(`MinExists`, from the library's `WFMin`): `Recursion` builds the sequence of
intermediate results, which is a solution of the defining equation, so the function
that the definition chooses satisfies it too.

`CoinsViewsProofs` proves, for every set of transactions and outpoints that meets
`TxAssumption` (no transaction spends its own outputs, and no two share an output)
and for chains of any length:

* `TypeCorrect`, `FlagsAreSound`, `LookupsAreRight`, `DiskIsRecoverable` and
  `NeverFails`: the invariants of the `Coins` run.
* `ViewsImplementLedger`: `Spec => KeepsPromise`, the refinement of `CoinsLedger`.

The inductive invariant `IInv` adds to these `ModeInv` (which loops may run in which
mode), `PathsValid` (the undo data of every chain that memory or disk refers to is
right), `BlockInv` (a block in progress extends the chain, or is its last block),
`ReplayInv` (during a replay every outpoint has the coin of the place that the loop
has reached, or that of the new chain) and `WriteInv` (what a write has left out so
far is still flagged). A replay is right because the coins of an outpoint do not
depend on which of the two blocks it was written for: `RollbackTx` and
`RollforwardTx` are applied to such mixtures, and that is what `ReplayInv` says.

`CheckQueueProofs` proves, for every finite set of workers and checks, every batch
size and any number of rounds: `QueueTypeCorrect`, `TodoIsCounted`, `VerdictIsSound`
and `RoundsAreIsolated`. `IInv` adds `Control` (which
checks a thread may hold where, and what is left outside of a round), `Idle` (`nIdle`
counts the threads that wait) and `Results` (a failed check of this round is still
pending or has left an error, and every error is that of such a check). With
`TodoCounts` and `Control`, a master that sees `nTodo = 0` knows that no thread
holds a batch, which is `RoundsIsolated`. `NoWakeUpIsLost` and `RoundNeverStalls`
are about the two condition variables (see the end of this section).

`TxRequestProofs` proves, for every finite set of peers and transactions and every
set of times: `TrackerTypeCorrect`, `StatisticsAreRight`, `IndexIsSane`,
`NeverRequestsTwice` and `TrackerImplementsRules`. `IInv` is `Kept` (the index with
at most one selected announcement per transaction, the best of those that are
ready), `Counted` (the statistics), `Calls` (which loop runs) and `Progress` (the
announcements of each transaction are as the call found them, or as it will leave
them). `Kept` is stated of
an index value, and `Legal` collects what every change of the announcements of one
transaction has in common, so that each operation is shown to be legal once and the
invariant, `NeverTwice` and the refinement follow from that.

`BaseIndexProofs` proves, for every tree of blocks with one genesis block, any number
of moves of the tip and of restarts, and every length of the queue:
`IndexTypeCorrect`, `CommitIsRecoverable`, `ChainIsIndexed`, `FirstLifeNeverAborts`
and `NoBlockIsMissed`. `IInv` is `Types`, `Threads` (who may write the index and where
it stands at each step), `Indexed` (the blocks up to the state of the index have a
record) and `Committed` (so have those up to the committed block, kept by hash or
safe until the index goes below them). Three more invariants build on it: `NoHoles`
(heights that were indexed hold some record, which `TypeOK` needs when a height is
copied), `FirstLife` (until the first restart no record of the index's chain was
overwritten, and the genesis block is announced first) and `Delivery` (the
notifications in the queue link up, each block's parent below the block announced
before it, and the last one reaches the tip; the index meets one of them or already
has the tip). Existence of a first and a last notification comes from `WFMin`, the
least element of a well-founded order.

Model-checked only: liveness (`RebuildEnds`, `ReplayEnds`, `Returns`, `Joins`,
`CallsReturn`, `CatchesUp`), which is out of the prover's reach. What these properties
rest on besides fairness is safety, and is proved for every instance:

* `RebuildEnds`: `DumpAdvances` says that every step of a dump writes an entry that
  was due and makes no other one due, or goes on to the next loop, although each
  write also changes the LRU cache that decides what is due; `RebuildAdvances` that
  `ReindexAssets` re-applies transactions of a chain that stays as it is, from the
  first to the last, and moves exactly when no dump runs; `RebuildGoesOn` that there
  is always a transaction or a dump left until it ends.
* `ReplayEnds`: `ReplayAlwaysAdvances` says that every step of `ReplayBlocks`
  brings the end nearer, that the two heads it works from stay what they are until
  the end, also when a crash interrupts it, and that it ends at the new head.
* `Returns` and `Joins`: `NoWakeUpIsLost` says that a master that waits in `Complete`
  has been notified or some worker still holds checks, that queued checks have a
  worker awake to take them once `Add` has notified, and that no worker stays in its
  wait after the destructor has notified; by `RoundNeverStalls` some thread runs or
  has been told to whenever the master is in its loop.
* `CallsReturn`: `LoopsShrink` says that every turn of the loops of `SetTimePoint`
  and `DisconnectedPeer` strictly shrinks the set of announcements that are left to
  visit, although promoting and completing one moves others in the index, and that
  the call returns when none is left.
* `CatchesUp`: `NoBlockMissed` is its safety half.

That an action which must happen is enabled, and that a fair scheduler then takes it,
is left to TLC.

Leaves that Zenon proves by itself name it. Besides saying that they need no
arithmetic, this keeps the modules checkable as a whole: tlapm translates for the SMT
solver more and more slowly within one module, until a leaf far down no longer meets
the time limit that it meets with ease alone.

## 5. Not modelled

* Qualifier tags, verifier strings, ownership tokens and address balances in the
  asset store. They pass through the same layers as the metadata and the freezes,
  with maps of their own, and with them an instance is beyond TLC. Two things a model
  of them would be about are known from the code: `Flush` folds removals of root
  qualifiers into the map of additions, and `ReindexAssets` adds outputs to balances
  without spending inputs.
* Messages, rewards and snapshots, the wallet's asset database and ANS: they read the
  state modelled here, and validation reads nothing of theirs.
* What survives a power failure of the two unsynced asset databases: LevelDB and
  the file system decide that. A crash in the models keeps the writes made before it.
* Chain selection beyond the order in which tips and notifications appear, the block
  files and pruning, fee ordering and clusters of the mempool, the orphanage and the
  packages of the download manager: data structures out of proportion for TLC.
* Headers synchronisation, whose guarantee is probabilistic; proof of work and
  hashing; versionbits, a pure function of a block's ancestors that the fuzz tests
  compare with a reference.
* Script interpretation, parsing and serialisation, sockets and peer messages, RPC,
  the GUI, the wallet, vendored libraries.

`PROJECT.json` lists every component with the reason.
