------------------------------ MODULE AssetStore ------------------------------
(***************************************************************************)
(* The asset state of a node as the program keeps it.  A lookup falls      *)
(* through four layers: the cache of the block being connected (local),    *)
(* the global dirty cache (passets), the LRU caches and the databases      *)
(* passetsdb and prestricteddb.  ConnectTip fills the first and folds it   *)
(* into the second; FlushStateToDisk writes the coins first, then the      *)
(* dirty cache entry by entry, then the best-block marker; a crash may     *)
(* fall between any two writes.  Restarting compares the marker with the   *)
(* coins tip, and wipes and rebuilds the databases when they differ.       *)
(*                                                                         *)
(* chain is the chain of CoinsTip().  Its entries carry the ledger that    *)
(* AssetRules gives them:  a history that no guard of the program reads.   *)
(* The setNew*ToRemove sets are left out: nothing in the program adds to   *)
(* them, so every lookup finds them empty.                                 *)
(***************************************************************************)
EXTENDS AssetRules

CONSTANTS
    MAX_CACHE_ASSETS_SIZE,  \* entries an LRU cache holds
    MaxChain,               \* bound: entries of the longest chain explored
    MaxBlock                \* bound: entries of a block, its coinbase included

ASSUME BoundsAssumption ==
    /\ MAX_CACHE_ASSETS_SIZE \in Nat \ {0}
    /\ MaxChain \in Nat
    /\ MaxBlock \in Nat

VARIABLES
    chain,    \* the chain of CoinsTip(), Seq(Entry)
    pending,  \* the entries of the block being connected, empty when there is none
    local,    \* the CAssetsCache of the block being connected or re-read
    passets,  \* the global dirty cache
    lru,      \* passetsCache, passetsRestrictionCache, passetsGlobalRestrictionCache
    db,       \* passetsdb and prestricteddb
    marker,   \* the best block of passetsdb as the chain it identifies, <<>> if absent
    coinsDB,  \* the chain whose coins are on disk, <<>> if there are none
    mode,     \* what the process is doing
    flush,    \* the position inside DumpCacheToDatabase, "idle" outside
    rpos      \* entries of chain that ReindexAssets has processed

disk == <<db, marker, coinsDB>>

vars == <<chain, pending, local, passets, lru, db, marker, coinsDB, mode, flush, rpos>>

(* setNewAssetsToAdd, mapReissuedAssetData, setNewRestrictedAddressToAdd   *)
(* and setNewRestrictedGlobalToAdd, with at most one record for each key.  *)
Cache == [new: MetaMap, reissued: MetaMap,
          restricted: [Key -> RestrictedType \cup {None}],
          global: [Names -> RestrictedType \cup {None}]]

EmptyCache == [new |-> [n \in Names |-> None], reissued |-> [n \in Names |-> None],
               restricted |-> [k \in Key |-> None], global |-> [n \in Names |-> None]]

-----------------------------------------------------------------------------
(* Lookups *)

OrElse(a, b) == IF a # None THEN a ELSE b

Stored(n) == OrElse(lru.meta[n], db.meta[n])

CheckIfAssetExists(l, n) ==
    OrElse(l.new[n], OrElse(passets.new[n], Stored(n))) # None

(* Mutant: new assets are looked up before reissues. *)
MutGetMetaData(l, n) ==
    OrElse(l.new[n], OrElse(passets.new[n],
        OrElse(l.reissued[n], OrElse(passets.reissued[n], Stored(n)))))

GetAssetMetaDataIfExists(l, n) ==
    OrElse(l.reissued[n], OrElse(passets.reissued[n],
        OrElse(l.new[n], OrElse(passets.new[n], Stored(n)))))

(* With fSkipTempCache: the block's own cache is not consulted. *)
CheckForAddressRestriction(k) ==
    IF passets.restricted[k] # None THEN passets.restricted[k] = "FREEZE"
    ELSE k \in lru.frozen \cup db.frozen

CheckForGlobalRestriction(n) ==
    IF passets.global[n] # None THEN passets.global[n] = "FREEZE"
    ELSE n \in lru.global \cup db.global

SeenBy(l) ==
    [meta |-> [n \in Names |-> GetAssetMetaDataIfExists(l, n)],
     exists |-> {n \in Names : CheckIfAssetExists(l, n)},
     frozen |-> {k \in Key : CheckForAddressRestriction(k)},
     global |-> {n \in Names : CheckForGlobalRestriction(n)}]

(* What lookups answer between blocks. *)
View ==
    LET seen == SeenBy(EmptyCache)
    IN  [meta |-> seen.meta, frozen |-> seen.frozen, global |-> seen.global]

-----------------------------------------------------------------------------
(* LRU caches: the results that Put may leave.  Which entry is least       *)
(* recently used is abstracted to any entry but the new one.               *)

Put(c, n, v) ==
    LET full == [c EXCEPT ![n] = v]
        held == {m \in Names : full[m] # None}
    IN  IF Cardinality(held) <= MAX_CACHE_ASSETS_SIZE THEN {full}
        ELSE {[full EXCEPT ![m] = None] : m \in held \ {n}}

PutKey(S, k) ==
    IF Cardinality(S \cup {k}) <= MAX_CACHE_ASSETS_SIZE THEN {S \cup {k}}
    ELSE {(S \cup {k}) \ {m} : m \in S \ {k}}

(* A lookup that reaches a database keeps what it finds in the LRU cache.  *)
(* A rule that fails early skips the lookups after it.                     *)
ReadMeta(l, tx) ==
    LET n == tx.name
        dirty == {l.new[n], passets.new[n]} \cup
                 (IF tx.op = "issue" THEN {} ELSE {l.reissued[n], passets.reissued[n]})
    IN  {lru.meta} \cup
        (IF dirty = {None} /\ lru.meta[n] = None /\ db.meta[n] # None
         THEN Put(lru.meta, n, db.meta[n]) ELSE {})

ReadFrozen(tx) ==
    {lru.frozen} \cup
    UNION {PutKey(lru.frozen, k) : k \in {j \in db.frozen \ lru.frozen :
        /\ passets.restricted[j] = None
        /\ tx.op = "restrict" => j = <<tx.name, tx.addr>>
        /\ tx.op = "transfer" => j = <<tx.name, tx.from>>}}

ReadGlobal(tx) ==
    {lru.global} \cup
    (IF tx.name \in db.global \ lru.global /\ passets.global[tx.name] = None
     THEN PutKey(lru.global, tx.name) ELSE {})

(* What the LRU caches may hold after tx was checked and applied. *)
ReadThrough(l, tx) ==
    [meta: IF tx.op \in {"issue", "reissue", "transfer"} THEN ReadMeta(l, tx) ELSE {lru.meta},
     frozen: IF tx.op \in {"restrict", "transfer"} THEN ReadFrozen(tx) ELSE {lru.frozen},
     global: IF tx.op \in {"global", "transfer"} THEN ReadGlobal(tx) ELSE {lru.global}]

-----------------------------------------------------------------------------
(* Connecting a block *)

(* AddNewAsset, AddReissueAsset, AddRestrictedAddress, AddGlobalRestricted. *)
(* A failure is logged and nothing else.                                    *)
Mutate(l, tx) ==
    [new |-> IF tx.op = "issue" /\ ~CheckIfAssetExists(l, tx.name)
             THEN [l.new EXCEPT ![tx.name] = tx.meta] ELSE l.new,
     reissued |-> IF tx.op = "reissue" /\ GetAssetMetaDataIfExists(l, tx.name) # None
                  THEN [l.reissued EXCEPT ![tx.name] =
                           Reissued(GetAssetMetaDataIfExists(l, tx.name), tx)]
                  ELSE l.reissued,
     restricted |-> IF tx.op = "restrict"
                    THEN [l.restricted EXCEPT ![<<tx.name, tx.addr>>] = tx.type]
                    ELSE l.restricted,
     global |-> IF tx.op = "global" THEN [l.global EXCEPT ![tx.name] = tx.type] ELSE l.global]

(* Mutant: reissues are inserted into a map that keeps the entry it has. *)
MutFlushReissued(l, g) ==
    [new |-> [n \in Names |-> OrElse(g.new[n], l.new[n])],
     reissued |-> [n \in Names |-> OrElse(g.reissued[n], l.reissued[n])],
     restricted |-> [k \in Key |-> OrElse(l.restricted[k], g.restricted[k])],
     global |-> [n \in Names |-> OrElse(l.global[n], g.global[n])]]

(* CAssetsCache::Flush: new assets are inserted into a set that keeps the  *)
(* record it has; the other records replace the ones with their key.       *)
Flush(l, g) ==
    [new |-> [n \in Names |-> OrElse(g.new[n], l.new[n])],
     reissued |-> [n \in Names |-> OrElse(l.reissued[n], g.reissued[n])],
     restricted |-> [k \in Key |-> OrElse(l.restricted[k], g.restricted[k])],
     global |-> [n \in Names |-> OrElse(l.global[n], g.global[n])]]

Idle == pending = <<>> /\ flush = "idle"

(* ConnectTip and ConnectBlock up to the first asset transaction; the      *)
(* coinbase changes no asset.                                              *)
BeginBlock ==
    /\ mode \in {"run", "import"}
    /\ Idle
    /\ Len(chain) < MaxChain
    /\ pending' = <<[tx |-> Coinbase, led |-> LedgerOf(chain)]>>
    /\ local' = EmptyCache
    /\ UNCHANGED <<chain, passets, lru, disk, mode, flush, rpos>>

ConnectTx(tx) ==
    /\ pending # <<>>
    /\ Len(pending) < MaxBlock
    /\ Len(chain) + Len(pending) < MaxChain
    /\ CheckTxAssets(SeenBy(local), tx)
    /\ lru' \in ReadThrough(local, tx)
    /\ local' = Mutate(local, tx)
    /\ pending' = Append(pending, [tx |-> tx, led |-> ApplyTx(LedgerOf(pending), tx)])
    /\ UNCHANGED <<chain, passets, disk, mode, flush, rpos>>

(* The block is invalid: its cache is dropped. *)
RejectBlock(tx) ==
    /\ pending # <<>>
    /\ Len(pending) < MaxBlock
    /\ Len(chain) + Len(pending) < MaxChain
    /\ ~CheckTxAssets(SeenBy(local), tx)
    /\ lru' \in ReadThrough(local, tx)
    /\ local' = EmptyCache
    /\ pending' = <<>>
    /\ UNCHANGED <<chain, passets, disk, mode, flush, rpos>>

(* The mempool or an RPC looks assets up between blocks. *)
PreChecks(tx) ==
    /\ mode \in {"run", "stopping", "import"}
    /\ Idle
    /\ lru' \in ReadThrough(EmptyCache, tx)
    /\ UNCHANGED <<chain, pending, local, passets, disk, mode, flush, rpos>>

(* The end of ConnectTip: the coins and the asset cache move up one layer. *)
FinishBlock ==
    /\ pending # <<>>
    /\ chain' = chain \o pending
    /\ passets' = Flush(local, passets)
    /\ local' = EmptyCache
    /\ pending' = <<>>
    /\ UNCHANGED <<lru, disk, mode, flush, rpos>>

(* Mutant: disconnecting a block drops the dirty cache. *)
MutDisconnectTip ==
    /\ mode = "run"
    /\ Idle
    /\ \E k \in 2..Len(chain) :
           /\ chain[k].tx = Coinbase /\ \A j \in (k + 1)..Len(chain) : chain[j].tx # Coinbase
           /\ chain' = SubSeq(chain, 1, k - 1)
    /\ passets' = EmptyCache
    /\ UNCHANGED <<pending, local, lru, disk, mode, flush, rpos>>

(* DisconnectBlock does not touch its asset cache, so DisconnectTip folds  *)
(* an empty one into passets.                                              *)
DisconnectTip ==
    /\ mode = "run"
    /\ Idle
    /\ \E k \in 2..Len(chain) :
           /\ chain[k].tx = Coinbase /\ \A j \in (k + 1)..Len(chain) : chain[j].tx # Coinbase
           /\ chain' = SubSeq(chain, 1, k - 1)
    /\ passets' = Flush(EmptyCache, passets)
    /\ UNCHANGED <<pending, local, lru, disk, mode, flush, rpos>>

-----------------------------------------------------------------------------
(* Writing to disk *)

(* Mutant: the marker is written with the coins, before the dump. *)
MutFlushCoins ==
    /\ mode \in {"run", "stopping", "import"}
    /\ Idle
    /\ coinsDB' = chain /\ marker' = chain
    /\ flush' = "new"
    /\ UNCHANGED <<chain, pending, local, passets, lru, db, mode, rpos>>

(* The coins part of FlushStateToDisk; the time and size conditions that   *)
(* decide when it runs are left open.                                      *)
FlushCoins ==
    /\ mode \in {"run", "stopping", "import"}
    /\ Idle
    /\ coinsDB' = chain
    /\ flush' = "new"
    /\ UNCHANGED <<chain, pending, local, passets, lru, db, marker, mode, rpos>>

(* A failed write ends DumpCacheToDatabase with the dirty cache kept.      *)
(* FlushStateToDisk then stops the node; after ReindexAssets it goes on.   *)
DumpFails ==
    /\ flush' = "idle"
    /\ mode' = IF mode = "reindex" THEN "run" ELSE "stopping"
    /\ db' = db

(* The entries that a dump has still to write; the program writes them all *)
(* in turn, and a write repeats nothing that is already as it leaves it.   *)
NewPending(n) == passets.new[n] # None /\ db.meta[n] # passets.new[n]

ReissuePending(n) ==
    /\ passets.reissued[n] # None
    /\ db.meta[n] # passets.reissued[n] \/ lru.meta[n] # None

RestrictedPending(k) ==
    \/ passets.restricted[k] = "FREEZE" /\ k \notin db.frozen
    \/ passets.restricted[k] = "UNFREEZE" /\ k \in db.frozen \cup lru.frozen

GlobalPending(n) ==
    \/ passets.global[n] = "FREEZE" /\ n \notin db.global
    \/ passets.global[n] = "UNFREEZE" /\ n \in db.global \cup lru.global

(* The LRU entry is put before the write is tried. *)
DumpNewAsset(n, ok) ==
    /\ flush = "new" /\ NewPending(n)
    /\ \E m \in Put(lru.meta, n, passets.new[n]) : lru' = [lru EXCEPT !.meta = m]
    /\ IF ok THEN db' = [db EXCEPT !.meta[n] = passets.new[n]] /\ UNCHANGED <<flush, mode>>
             ELSE DumpFails
    /\ UNCHANGED <<chain, pending, local, passets, marker, coinsDB, rpos>>

(* The LRU entry is erased after the write. *)
DumpReissue(n, ok) ==
    /\ flush = "reissue" /\ ReissuePending(n)
    /\ IF ok THEN /\ db' = [db EXCEPT !.meta[n] = passets.reissued[n]]
                  /\ lru' = [lru EXCEPT !.meta[n] = None]
                  /\ UNCHANGED <<flush, mode>>
             ELSE DumpFails /\ lru' = lru
    /\ UNCHANGED <<chain, pending, local, passets, marker, coinsDB, rpos>>

DumpRestricted(k, ok) ==
    /\ flush = "restricted" /\ RestrictedPending(k)
    /\ \E S \in (IF passets.restricted[k] = "FREEZE" THEN PutKey(lru.frozen, k)
                 ELSE {lru.frozen \ {k}}) : lru' = [lru EXCEPT !.frozen = S]
    /\ IF ok THEN /\ db' = [db EXCEPT !.frozen = Switch(@, k, passets.restricted[k])]
                  /\ UNCHANGED <<flush, mode>>
             ELSE DumpFails
    /\ UNCHANGED <<chain, pending, local, passets, marker, coinsDB, rpos>>

DumpGlobal(n, ok) ==
    /\ flush = "global" /\ GlobalPending(n)
    /\ \E S \in (IF passets.global[n] = "FREEZE" THEN PutKey(lru.global, n)
                 ELSE {lru.global \ {n}}) : lru' = [lru EXCEPT !.global = S]
    /\ IF ok THEN /\ db' = [db EXCEPT !.global = Switch(@, n, passets.global[n])]
                  /\ UNCHANGED <<flush, mode>>
             ELSE DumpFails
    /\ UNCHANGED <<chain, pending, local, passets, marker, coinsDB, rpos>>

(* The next loop of DumpCacheToDatabase. *)
DumpNext ==
    /\ \/ flush = "new" /\ (\A n \in Names : ~NewPending(n)) /\ flush' = "reissue"
       \/ flush = "reissue" /\ (\A n \in Names : ~ReissuePending(n)) /\ flush' = "restricted"
       \/ flush = "restricted" /\ (\A k \in Key : ~RestrictedPending(k)) /\ flush' = "global"
    /\ UNCHANGED <<chain, pending, local, passets, lru, disk, mode, rpos>>

(* ClearDirtyCache.  A dump in the middle of ReindexAssets is followed by  *)
(* the next block, any other by the marker.                                *)
DumpDone ==
    /\ flush = "global" /\ \A n \in Names : ~GlobalPending(n)
    /\ passets' = EmptyCache
    /\ flush' = IF mode = "reindex" /\ rpos < Len(chain) THEN "idle" ELSE "marker"
    /\ UNCHANGED <<chain, pending, local, lru, disk, mode, rpos>>

WriteBestBlock ==
    /\ flush = "marker"
    /\ marker' = chain
    /\ flush' = "idle"
    /\ mode' = IF mode = "reindex" THEN "run" ELSE mode
    /\ UNCHANGED <<chain, pending, local, passets, lru, db, coinsDB, rpos>>

-----------------------------------------------------------------------------
(* Stopping, crashing, starting *)

StopRequest ==
    /\ mode \in {"run", "import"}
    /\ Idle
    /\ mode' = "stopping"
    /\ UNCHANGED <<chain, pending, local, passets, lru, disk, flush, rpos>>

(* The process ends, after Shutdown or at any other moment.  Only the      *)
(* disk is left, and the next start will load the chain of its coins.      *)
Crash ==
    /\ mode # "down"
    /\ mode' = "down"
    /\ chain' = IF coinsDB = <<>> THEN Genesis ELSE coinsDB
    /\ pending' = <<>>
    /\ local' = EmptyCache /\ passets' = EmptyCache /\ lru' = EmptyLedger
    /\ flush' = "idle" /\ rpos' = 1
    /\ UNCHANGED disk

LoadAssets ==
    {[EmptyLedger EXCEPT !.meta = [n \in Names |-> IF n \in S THEN db.meta[n] ELSE None]] :
        S \in {T \in SUBSET Names : Cardinality(T) <= MAX_CACHE_ASSETS_SIZE \div 2}}

(* Mutant: the databases are not wiped before the rebuild. *)
MutRestart(reindexassets) ==
    /\ mode = "down"
    /\ reindexassets => \A n \in Names : db.meta[n] # None => db.meta[n].amount <= MaxMoney
    /\ lru' \in LoadAssets
    /\ mode' = IF reindexassets \/ marker # coinsDB THEN "import" ELSE "run"
    /\ UNCHANGED <<chain, pending, local, passets, db, marker, coinsDB, flush, rpos>>

(* Mutant: the databases are wiped, what LoadAssets read stays. *)
MutRestartLru(reindexassets) ==
    /\ mode = "down"
    /\ reindexassets => \A n \in Names : db.meta[n] # None => db.meta[n].amount <= MaxMoney
    /\ lru' \in LoadAssets
    /\ IF coinsDB # <<>> /\ marker # coinsDB
       THEN db' = EmptyLedger /\ marker' = <<>> /\ mode' = "import"
       ELSE UNCHANGED <<db, marker>> /\ mode' = IF reindexassets THEN "import" ELSE "run"
    /\ UNCHANGED <<chain, pending, local, passets, coinsDB, flush, rpos>>

(* AppInitMain: LoadAssets, then the check of the marker against the coins *)
(* tip.  reindexassets is the -reindexassets argument; bound: it is given  *)
(* only while no amount in the database is above MAX_MONEY.                *)
Restart(reindexassets) ==
    /\ mode = "down"
    /\ reindexassets => \A n \in Names : db.meta[n] # None => db.meta[n].amount <= MaxMoney
    /\ IF coinsDB # <<>> /\ marker # coinsDB
       THEN /\ db' = EmptyLedger /\ marker' = <<>> /\ lru' = EmptyLedger
            /\ mode' = "import"
       ELSE /\ lru' \in LoadAssets
            /\ mode' = IF reindexassets THEN "import" ELSE "run"
            /\ UNCHANGED <<db, marker>>
    /\ UNCHANGED <<chain, pending, local, passets, coinsDB, flush, rpos>>

(* -reindex-chainstate: the coins are wiped before the check above, which  *)
(* a null coins tip switches off.                                          *)
RestartReindexChainstate ==
    /\ mode = "down"
    /\ coinsDB' = <<>> /\ chain' = Genesis
    /\ lru' \in LoadAssets
    /\ mode' = "run"
    /\ UNCHANGED <<pending, local, passets, db, marker, flush, rpos>>

-----------------------------------------------------------------------------
(* ReindexAssets, which holds cs_main throughout *)

StartReindex ==
    /\ mode = "import"
    /\ Idle
    /\ IF Len(chain) = 1
       THEN mode' = "run" /\ UNCHANGED <<passets, lru>>
       ELSE /\ mode' = "reindex"
            /\ passets' = EmptyCache
            /\ lru' = [lru EXCEPT !.meta = [n \in Names |-> None]]
    /\ rpos' = 1
    /\ UNCHANGED <<chain, pending, local, disk, flush>>

LastOfBlock(i) == i = Len(chain) \/ chain[i + 1].tx = Coinbase

(* Mutant: the dump after the loop is missing. *)
MutReindexTx ==
    LET i == rpos + 1
        after == IF chain[i].tx = Coinbase THEN local ELSE Mutate(local, chain[i].tx)
    IN
    /\ mode = "reindex" /\ flush = "idle" /\ rpos < Len(chain)
    /\ rpos' = i
    /\ IF chain[i].tx = Coinbase THEN lru' = lru ELSE lru' \in ReadThrough(local, chain[i].tx)
    /\ IF LastOfBlock(i)
       THEN /\ passets' = Flush(after, passets)
            /\ local' = EmptyCache
            /\ flush' \in {"new", "idle"}
       ELSE local' = after /\ UNCHANGED <<passets, flush>>
    /\ UNCHANGED <<chain, pending, disk, mode>>

(* One transaction re-applied, without the checks.  The last one of a      *)
(* block is followed by Flush and, at the tip and now and then before it   *)
(* (after every 10000 blocks, here after any), by DumpCacheToDatabase.     *)
ReindexTx ==
    LET i == rpos + 1
        after == IF chain[i].tx = Coinbase THEN local ELSE Mutate(local, chain[i].tx)
    IN
    /\ mode = "reindex" /\ flush = "idle" /\ rpos < Len(chain)
    /\ rpos' = i
    /\ IF chain[i].tx = Coinbase THEN lru' = lru ELSE lru' \in ReadThrough(local, chain[i].tx)
    /\ IF LastOfBlock(i)
       THEN /\ passets' = Flush(after, passets)
            /\ local' = EmptyCache
            /\ flush' \in IF i = Len(chain) THEN {"new"} ELSE {"new", "idle"}
       ELSE local' = after /\ UNCHANGED <<passets, flush>>
    /\ UNCHANGED <<chain, pending, disk, mode>>

(* Mutant: the skipped block is counted twice. *)
MutNextBlock(i) ==
    {j + 1 : j \in {m \in (i + 1)..Len(chain) : LastOfBlock(m)}}

NextBlock(i) ==
    {j \in (i + 1)..Len(chain) : LastOfBlock(j) /\ \A m \in i + 1..j - 1 : ~LastOfBlock(m)}

(* ReadBlock fails: the block is skipped and the loop goes on. *)
ReindexSkipBlock ==
    /\ mode = "reindex" /\ flush = "idle" /\ rpos < Len(chain) /\ LastOfBlock(rpos)
    /\ rpos' \in NextBlock(rpos)
    /\ flush' = IF rpos' = Len(chain) THEN "new" ELSE "idle"
    /\ UNCHANGED <<chain, pending, local, passets, lru, disk, mode>>

(* m_interrupt is seen at the top of the loop. *)
ReindexInterrupted ==
    /\ mode = "reindex" /\ flush = "idle" /\ rpos < Len(chain) /\ LastOfBlock(rpos)
    /\ mode' = "stopping"
    /\ UNCHANGED <<chain, pending, local, passets, lru, disk, flush, rpos>>

-----------------------------------------------------------------------------
(* Specifications *)

Init ==
    /\ chain = Genesis /\ pending = <<>>
    /\ local = EmptyCache /\ passets = EmptyCache /\ lru = EmptyLedger
    /\ db = EmptyLedger /\ marker = <<>> /\ coinsDB = <<>>
    /\ mode = "run" /\ flush = "idle" /\ rpos = 1

Dump(ok) ==
    \/ \E n \in Names : DumpNewAsset(n, ok) \/ DumpReissue(n, ok) \/ DumpGlobal(n, ok)
    \/ \E k \in Key : DumpRestricted(k, ok)

(* The chain only grows, and a rebuild is left alone until it is over:     *)
(* nothing connects, flushes, stops or fails a write before its last dump, *)
(* and the node is started without reindexing arguments.                   *)
SteadyNext ==
    \/ mode = "run" /\ BeginBlock
    \/ \E tx \in Txs : ConnectTx(tx) \/ RejectBlock(tx) \/ PreChecks(tx)
    \/ FinishBlock
    \/ mode # "import" /\ FlushCoins
    \/ Dump(TRUE)
    \/ (mode = "reindex" => rpos = Len(chain)) /\ Dump(FALSE)
    \/ DumpNext \/ DumpDone \/ WriteBestBlock
    \/ mode = "run" /\ StopRequest
    \/ Crash \/ Restart(FALSE)
    \/ StartReindex \/ ReindexTx

(* The steady node with reorganisations. *)
ReorgNext == SteadyNext \/ DisconnectTip

(* Everything the program can do. *)
Next ==
    \/ BeginBlock
    \/ \E tx \in Txs : ConnectTx(tx) \/ RejectBlock(tx) \/ PreChecks(tx)
    \/ FinishBlock \/ DisconnectTip
    \/ FlushCoins
    \/ \E ok \in BOOLEAN : Dump(ok)
    \/ DumpNext \/ DumpDone \/ WriteBestBlock
    \/ StopRequest \/ Crash
    \/ \E arg \in BOOLEAN : Restart(arg)
    \/ RestartReindexChainstate
    \/ StartReindex \/ ReindexTx \/ ReindexSkipBlock \/ ReindexInterrupted

Spec == Init /\ [][Next]_vars

SteadySpec == Init /\ [][SteadyNext]_vars

ReorgSpec == Init /\ [][ReorgNext]_vars

-----------------------------------------------------------------------------
(* Properties *)

Chain == Seq(Entry)

TypeOK ==
    /\ chain \in Chain /\ Len(chain) > 0
    /\ pending \in Chain
    /\ local \in Cache /\ passets \in Cache
    /\ lru \in Ledger /\ db \in Ledger
    /\ marker \in Chain /\ coinsDB \in Chain
    /\ mode \in {"run", "stopping", "down", "import", "reindex"}
    /\ flush \in {"idle", "new", "reissue", "restricted", "global", "marker"}
    /\ rpos \in Nat \ {0}
    /\ mode = "reindex" => rpos <= Len(chain)

(* A lookup that reaches an LRU cache gets what the databases would        *)
(* answer: DumpCacheToDatabase puts or erases an LRU entry with every      *)
(* write, and an entry put for a write that then failed stays hidden       *)
(* behind its dirty record until that is written.                          *)
LruCoherent ==
    /\ \A n \in Names : lru.meta[n] \in {None, db.meta[n], passets.new[n]}
    /\ lru.frozen \subseteq db.frozen \cup {k \in Key : passets.restricted[k] # None}
    /\ lru.global \subseteq db.global \cup {n \in Names : passets.global[n] # None}

(* Between blocks every lookup answers with the ledger of the active       *)
(* chain, wherever FlushStateToDisk, a failed dump or a restart has left   *)
(* the four layers.                                                        *)
ViewIsLedger == mode \in {"run", "stopping"} => View = LedgerOf(chain)

(* The check at start-up is right to trust the databases: whenever the     *)
(* best-block marker of passetsdb equals the coins tip, at any moment a    *)
(* crash could pick, the databases hold the ledger of that tip.            *)
MarkerSound == marker = coinsDB /\ coinsDB # <<>> => db = LedgerOf(coinsDB)

(* A reorganisation leaves stale entries behind but loses none: every      *)
(* asset of the active chain is found, with DisconnectTip undoing nothing. *)
NoAssetLost ==
    mode \in {"run", "stopping"} =>
        \A n \in Names : LedgerOf(chain).meta[n] # None => View.meta[n] # None

(* "this is only called when undoing a block from the chain" (assets.cpp,  *)
(* of the functions that take back a freeze or a global freeze): with its  *)
(* block disconnected, a restriction is no longer found.                   *)
RestrictionsOfChain ==
    mode = "run" => /\ View.frozen = LedgerOf(chain).frozen
                    /\ View.global = LedgerOf(chain).global

(* "we need to rebuild from scratch so metadata is available" (init.cpp):  *)
(* a block is checked with the metadata of every asset of the chain.       *)
MetadataAvailable ==
    pending # <<>> =>
        \A n \in Names : LedgerOf(chain).meta[n] # None => View.meta[n] # None

(* A transaction that the ledger of the active chain allows is accepted,   *)
(* as rebuilding the chain state from the blocks on disk requires.         *)
AcceptsByLedger ==
    mode = "run" /\ Idle =>
        \A tx \in Txs : CheckTxAssets(LedgerSeen(LedgerOf(chain), LedgerOf(chain)), tx)
                            => CheckTxAssets(SeenBy(EmptyCache), tx)

(* A rebuild that ends hands over the ledger of the active chain, whatever *)
(* the databases held before init wiped them.                              *)
RebuildExact ==
    [][mode = "reindex" /\ mode' = "run" => View' = LedgerOf(chain)']_vars

(* The supply of an asset never passes MAX_MONEY and is a whole number of  *)
(* the asset's smallest units, however issues, reissues that add decimal   *)
(* places, rebuilds and crashes are interleaved.                           *)
SupplyWellFormed ==
    mode \in {"run", "stopping"} =>
        LET meta == View.meta
        IN  \A n \in Names : meta[n] # None =>
                /\ meta[n].amount <= MaxMoney
                /\ CheckAmountWithUnits(meta[n].amount, meta[n].units)

(* While the process runs, an asset whose reissuable flag was cleared      *)
(* never changes again, and no asset loses supply or decimal places.       *)
ReissueMonotone ==
    [][{mode, mode'} \subseteq {"run", "stopping"} =>
           LET old == View.meta
               new == View.meta'
           IN  \A n \in Names : old[n] # None =>
                   /\ new[n] # None
                   /\ new[n].amount >= old[n].amount
                   /\ new[n].units >= old[n].units
                   /\ old[n].reissuable \/ new[n] = old[n]]_vars

(* A start-up rebuild that nobody stops ends: the thread that holds        *)
(* cs_main keeps taking its steps, and every dump, failed or not, is left. *)
FairSpec ==
    /\ SteadySpec
    /\ WF_vars(StartReindex \/ ReindexTx)
    /\ WF_vars((\E ok \in BOOLEAN : Dump(ok)) \/ DumpNext \/ DumpDone \/ WriteBestBlock)

RebuildEnds == mode \in {"import", "reindex"} ~> mode \in {"run", "down"}

(* The store keeps the promise of AssetLedger.  While the process is down  *)
(* or rebuilding nobody looks anything up.                                 *)
Abs == INSTANCE AssetLedger WITH
           view <- IF mode \in {"run", "stopping"} THEN View ELSE LedgerOf(chain)

(* Every step of the steady node is a step of AssetLedger: blocks are      *)
(* accepted and rejected by the ledger of the chain alone, lookups answer  *)
(* with it, and a crash goes back to an earlier block with its ledger.     *)
KeepsPromise == Abs!Spec

=============================================================================
