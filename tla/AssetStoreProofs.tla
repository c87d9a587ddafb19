--------------------------- MODULE AssetStoreProofs ---------------------------
(***************************************************************************)
(* Proofs about AssetStore, for every set of names, addresses and          *)
(* transactions and every cache size.                                      *)
(***************************************************************************)
EXTENDS AssetStore, SequenceTheorems, TLAPS

-----------------------------------------------------------------------------
(* The operators *)

(* Whichever entry CLRUCache::Put evicts, the new one is in and every      *)
(* other entry is as it was or gone.                                       *)
LEMMA PutLemma ==
    ASSUME NEW c \in MetaMap, NEW n \in Names, NEW v \in Meta, NEW m \in Put(c, n, v)
    PROVE  /\ m \in MetaMap
           /\ m[n] = v
           /\ \A j \in Names : j # n => m[j] \in {None, c[j]}
BY Zenon DEF Put, MetaMap

(* The same for the caches that are sets of keys. *)
LEMMA PutKeyLemma ==
    ASSUME NEW S, NEW k, NEW m \in PutKey(S, k)
    PROVE  m \subseteq S \cup {k}
BY Zenon DEF PutKey

(* Reading through an LRU cache adds only what the databases hold. *)
LEMMA ReadThroughLemma ==
    ASSUME lru \in Ledger, db \in Ledger, NEW l, NEW tx \in Txs,
           NEW r \in ReadThrough(l, tx)
    PROVE  /\ r \in Ledger
           /\ \A n \in Names : r.meta[n] \in {None, lru.meta[n], db.meta[n]}
           /\ r.frozen \subseteq lru.frozen \cup db.frozen
           /\ r.global \subseteq lru.global \cup db.global
<1>1. tx.name \in Names
  BY Zenon, ConstantsAssumption DEF AssetTx, IssueTx, ReissueTx, TransferTx, RestrictTx, GlobalTx
<1>2. /\ lru.meta \in MetaMap /\ db.meta \in MetaMap
      /\ lru.frozen \subseteq Key /\ db.frozen \subseteq Key
      /\ lru.global \subseteq Names /\ db.global \subseteq Names
  BY Zenon DEF Ledger
<1>3. \A m \in ReadMeta(l, tx) :
        m \in MetaMap /\ \A n \in Names : m[n] \in {None, lru.meta[n], db.meta[n]}
  <2> SUFFICES ASSUME NEW m \in ReadMeta(l, tx), m # lru.meta
               PROVE  m \in MetaMap /\ \A n \in Names : m[n] \in {None, lru.meta[n], db.meta[n]}
    BY Zenon, <1>2
  <2>1. db.meta[tx.name] \in Meta /\ m \in Put(lru.meta, tx.name, db.meta[tx.name])
    BY Zenon, <1>1, <1>2 DEF ReadMeta, MetaMap
  <2> QED BY <2>1, <1>1, <1>2, PutLemma
<1>4. \A S \in ReadFrozen(tx) : S \subseteq lru.frozen \cup db.frozen
  BY PutKeyLemma DEF ReadFrozen
<1>5. \A S \in ReadGlobal(tx) : S \subseteq lru.global \cup db.global
  BY PutKeyLemma DEF ReadGlobal
<1>6. /\ r = [meta |-> r.meta, frozen |-> r.frozen, global |-> r.global]
      /\ r.meta = lru.meta \/ r.meta \in ReadMeta(l, tx)
      /\ r.frozen = lru.frozen \/ r.frozen \in ReadFrozen(tx)
      /\ r.global = lru.global \/ r.global \in ReadGlobal(tx)
  BY Zenon DEF ReadThrough
<1>7. /\ r.meta \in MetaMap
      /\ \A n \in Names : r.meta[n] \in {None, lru.meta[n], db.meta[n]}
  BY Zenon, <1>2, <1>3, <1>6
<1>8. /\ r.frozen \subseteq lru.frozen \cup db.frozen
      /\ r.global \subseteq lru.global \cup db.global
  BY Zenon, <1>4, <1>5, <1>6
<1> QED
  <2>1. r.frozen \subseteq Key /\ r.global \subseteq Names
    BY Zenon, <1>2, <1>8
  <2> QED BY Zenon, <2>1, <1>6, <1>7, <1>8 DEF Ledger

(* The fields that the rules read have the types they expect. *)
LEMMA TxLemma ==
    ASSUME NEW tx \in Txs
    PROVE  /\ tx.name \in Names
           /\ tx.op \in {"issue", "reissue", "transfer", "restrict", "global"}
           /\ tx.op = "issue" => tx.meta \in Meta
           /\ tx.op = "reissue" => tx \in ReissueTx
           /\ tx.op = "restrict" => tx.addr \in Addrs /\ tx.type \in RestrictedType
           /\ tx.op = "global" => tx.type \in RestrictedType
BY Zenon, ConstantsAssumption DEF AssetTx, IssueTx, ReissueTx, TransferTx, RestrictTx, GlobalTx

(* A reissue of an asset yields an asset. *)
LEMMA ReissuedLemma ==
    ASSUME NEW prev \in Meta, NEW tx \in ReissueTx
    PROVE  Reissued(prev, tx) \in Meta
BY ConstantsAssumption DEF Reissued, Meta, ReissueTx

(* The effect of a transaction on a ledger is a ledger. *)
LEMMA ApplyTxType ==
    ASSUME NEW led \in Ledger, NEW tx \in Txs
    PROVE  ApplyTx(led, tx) \in Ledger
<1>1. tx.op = "reissue" /\ led.meta[tx.name] # None => Reissued(led.meta[tx.name], tx) \in Meta
  BY Zenon, TxLemma, ReissuedLemma DEF Ledger, MetaMap
<1>2. ApplyTx(led, tx).meta \in MetaMap
  BY Zenon, <1>1, TxLemma DEF ApplyTx, Ledger, MetaMap
<1>3. ApplyTx(led, tx).frozen \subseteq Key /\ ApplyTx(led, tx).global \subseteq Names
  BY TxLemma DEF ApplyTx, Switch, Ledger, Key
<1> QED BY Zenon, <1>2, <1>3 DEF ApplyTx, Ledger

(* The layered lookup of metadata answers with metadata or nothing. *)
LEMMA LookupType ==
    ASSUME NEW l \in Cache, passets \in Cache, lru \in Ledger, db \in Ledger, NEW n \in Names
    PROVE  GetAssetMetaDataIfExists(l, n) \in Meta \cup {None}
BY Zenon DEF GetAssetMetaDataIfExists, Stored, OrElse, Cache, Ledger, MetaMap

(* A block's transaction leaves its cache a cache. *)
LEMMA MutateType ==
    ASSUME NEW l \in Cache, passets \in Cache, lru \in Ledger, db \in Ledger, NEW tx \in Txs
    PROVE  Mutate(l, tx) \in Cache
<1> DEFINE g == GetAssetMetaDataIfExists(l, tx.name)
<1>1. tx.op = "reissue" /\ g # None => Reissued(g, tx) \in Meta
  BY Zenon, TxLemma, LookupType, ReissuedLemma
<1>2. Mutate(l, tx).new \in MetaMap /\ Mutate(l, tx).reissued \in MetaMap
  BY Zenon, <1>1, TxLemma DEF Mutate, Cache, MetaMap
<1>3. /\ Mutate(l, tx).restricted \in [Key -> RestrictedType \cup {None}]
      /\ Mutate(l, tx).global \in [Names -> RestrictedType \cup {None}]
  BY Zenon, TxLemma DEF Mutate, Cache, Key
<1> QED BY Zenon, <1>2, <1>3 DEF Mutate, Cache

(* Folding one cache into another leaves a cache. *)
LEMMA FlushType ==
    ASSUME NEW l \in Cache, NEW g \in Cache
    PROVE  Flush(l, g) \in Cache
BY Zenon DEF Flush, OrElse, Cache, MetaMap

(* The empty layers and the genesis chain are well typed. *)
LEMMA EmptyType ==
    /\ EmptyCache \in Cache
    /\ EmptyLedger \in Ledger
    /\ Genesis \in Chain /\ Len(Genesis) = 1
    /\ <<>> \in Chain
<1>1. EmptyCache \in Cache /\ EmptyLedger \in Ledger
  BY Zenon DEF EmptyCache, EmptyLedger, Cache, Ledger, MetaMap
<1> QED BY <1>1 DEF Genesis, Chain, Entry

(* What a chain is made of. *)
LEMMA ChainLemma ==
    ASSUME NEW c \in Chain
    PROVE  /\ Len(c) \in Nat
           /\ c # <<>> => Len(c) > 0
           /\ Len(c) > 0 => c # <<>>
           /\ \A i \in 1..Len(c) : c[i].tx \in Txs \cup {Coinbase} /\ c[i].led \in Ledger
<1>1. c # <<>> => Len(c) > 0
  BY EmptySeq DEF Chain
<1>2. \A i \in 1..Len(c) : c[i] \in Entry
  BY Zenon, ElementOfSeq DEF Chain
<1> QED BY <1>1, <1>2 DEF Chain, Entry

-----------------------------------------------------------------------------
(* Types *)

(* The last ledger of a non-empty chain is a ledger. *)
LEMMA LedgerOfType ==
    ASSUME NEW c \in Chain, c # <<>>
    PROVE  LedgerOf(c) \in Ledger
BY ChainLemma DEF LedgerOf

(* Connecting or dropping a block keeps the types. *)
LEMMA ConnectType ==
    ASSUME TypeOK,
           \/ BeginBlock \/ FinishBlock \/ DisconnectTip
           \/ \E tx \in Txs : ConnectTx(tx) \/ RejectBlock(tx) \/ PreChecks(tx)
    PROVE  TypeOK'
<1> USE EmptyType
<1>1. CASE BeginBlock
  <2>1. LedgerOf(chain) \in Ledger
    BY Zenon, LedgerOfType, ChainLemma DEF TypeOK
  <2>2. pending' \in Chain
    BY <1>1, <2>1 DEF BeginBlock, Chain, Entry
  <2> QED BY Zenon, <1>1, <2>2 DEF BeginBlock, TypeOK, disk
<1>2. ASSUME NEW tx \in Txs, ConnectTx(tx) PROVE TypeOK'
  <2>1. lru' \in Ledger
    BY Zenon, <1>2, ReadThroughLemma DEF ConnectTx, TypeOK
  <2>2. local' \in Cache
    BY Zenon, <1>2, MutateType DEF ConnectTx, TypeOK
  <2>3. LedgerOf(pending) \in Ledger
    BY Zenon, <1>2, LedgerOfType DEF ConnectTx, TypeOK
  <2>4. [tx |-> tx, led |-> ApplyTx(LedgerOf(pending), tx)] \in Entry
    BY Zenon, <2>3, ApplyTxType DEF Entry
  <2>5. pending' \in Chain
    BY <1>2, <2>4 DEF ConnectTx, TypeOK, Chain
  <2> QED BY Zenon, <1>2, <2>1, <2>2, <2>5 DEF ConnectTx, TypeOK, disk
<1>3. ASSUME NEW tx \in Txs, RejectBlock(tx) PROVE TypeOK'
  <2>1. lru' \in Ledger
    BY Zenon, <1>3, ReadThroughLemma DEF RejectBlock, TypeOK
  <2> QED BY Zenon, <1>3, <2>1 DEF RejectBlock, TypeOK, Chain, disk
<1>6. ASSUME NEW tx \in Txs, PreChecks(tx) PROVE TypeOK'
  <2>1. lru' \in Ledger
    BY Zenon, <1>6, ReadThroughLemma DEF PreChecks, TypeOK
  <2> QED BY Zenon, <1>6, <2>1 DEF PreChecks, TypeOK, disk
<1>4. CASE FinishBlock
  <2>1. chain' \in Chain /\ Len(chain') > 0
    BY <1>4 DEF FinishBlock, TypeOK, Chain
  <2>2. mode = "reindex" => rpos <= Len(chain')
    BY <1>4 DEF FinishBlock, TypeOK, Chain
  <2>3. passets' \in Cache
    BY Zenon, <1>4, FlushType DEF FinishBlock, TypeOK
  <2> QED BY Zenon, <1>4, <2>1, <2>2, <2>3 DEF FinishBlock, TypeOK, Chain, disk
<1>5. CASE DisconnectTip
  <2>1. chain' \in Chain /\ Len(chain') > 0
    BY <1>5 DEF DisconnectTip, TypeOK, Chain
  <2>2. passets' \in Cache
    BY Zenon, <1>5, FlushType DEF DisconnectTip, TypeOK
  <2> QED BY Zenon, <1>5, <2>1, <2>2 DEF DisconnectTip, TypeOK, disk
<1> QED BY Zenon, <1>1, <1>2, <1>3, <1>4, <1>5, <1>6

(* Writing to disk keeps the types. *)
LEMMA DumpType ==
    ASSUME TypeOK,
           \/ FlushCoins \/ DumpNext \/ DumpDone \/ WriteBestBlock
           \/ \E ok \in BOOLEAN : Dump(ok)
    PROVE  TypeOK'
<1> USE EmptyType
<1>1. CASE FlushCoins
  BY Zenon, <1>1 DEF FlushCoins, TypeOK
<1>2. CASE DumpNext
  BY Zenon, <1>2 DEF DumpNext, TypeOK, disk
<1>3. CASE DumpDone
  BY Zenon, <1>3 DEF DumpDone, TypeOK, disk
<1>4. CASE WriteBestBlock
  BY Zenon, <1>4 DEF WriteBestBlock, TypeOK
<1>5. ASSUME NEW ok \in BOOLEAN, NEW n \in Names, DumpNewAsset(n, ok) PROVE TypeOK'
  <2>1. passets.new[n] \in Meta
    BY Zenon, <1>5 DEF DumpNewAsset, NewPending, TypeOK, Cache, MetaMap
  <2>2. PICK m \in Put(lru.meta, n, passets.new[n]) : lru' = [lru EXCEPT !.meta = m]
    BY Zenon, <1>5 DEF DumpNewAsset
  <2>3. m \in MetaMap
    BY Zenon, <2>1, <2>2, PutLemma DEF TypeOK, Ledger
  <2>4. lru' \in Ledger /\ db' \in Ledger
    BY <1>5, <2>1, <2>2, <2>3 DEF DumpNewAsset, DumpFails, TypeOK, Ledger, MetaMap
  <2> QED BY Zenon, <1>5, <2>4 DEF DumpNewAsset, DumpFails, TypeOK
<1>6. ASSUME NEW ok \in BOOLEAN, NEW n \in Names, DumpReissue(n, ok) PROVE TypeOK'
  <2>1. passets.reissued[n] \in Meta
    BY Zenon, <1>6 DEF DumpReissue, ReissuePending, TypeOK, Cache, MetaMap
  <2>2. lru' \in Ledger /\ db' \in Ledger
    BY <1>6, <2>1 DEF DumpReissue, DumpFails, TypeOK, Ledger, MetaMap
  <2> QED BY Zenon, <1>6, <2>2 DEF DumpReissue, DumpFails, TypeOK
<1>7. ASSUME NEW ok \in BOOLEAN, NEW k \in Key, DumpRestricted(k, ok) PROVE TypeOK'
  <2>1. PICK S : /\ S \in PutKey(lru.frozen, k) \cup {lru.frozen \ {k}}
                 /\ lru' = [lru EXCEPT !.frozen = S]
    BY Zenon, <1>7 DEF DumpRestricted
  <2>2. S \subseteq Key
    BY <2>1, PutKeyLemma DEF TypeOK, Ledger
  <2>3. lru' \in Ledger /\ db' \in Ledger
    BY <1>7, <2>1, <2>2 DEF DumpRestricted, DumpFails, Switch, TypeOK, Ledger
  <2> QED BY Zenon, <1>7, <2>3 DEF DumpRestricted, DumpFails, TypeOK
<1>8. ASSUME NEW ok \in BOOLEAN, NEW n \in Names, DumpGlobal(n, ok) PROVE TypeOK'
  <2>1. PICK S : /\ S \in PutKey(lru.global, n) \cup {lru.global \ {n}}
                 /\ lru' = [lru EXCEPT !.global = S]
    BY Zenon, <1>8 DEF DumpGlobal
  <2>2. S \subseteq Names
    BY <2>1, PutKeyLemma DEF TypeOK, Ledger
  <2>3. lru' \in Ledger /\ db' \in Ledger
    BY <1>8, <2>1, <2>2 DEF DumpGlobal, DumpFails, Switch, TypeOK, Ledger
  <2> QED BY Zenon, <1>8, <2>3 DEF DumpGlobal, DumpFails, TypeOK
<1> QED BY Zenon, <1>1, <1>2, <1>3, <1>4, <1>5, <1>6, <1>7, <1>8 DEF Dump

(* LoadAssets fills the LRU cache from the database. *)
LEMMA LoadAssetsLemma ==
    ASSUME db \in Ledger, NEW r \in LoadAssets
    PROVE  /\ r \in Ledger
           /\ \A n \in Names : r.meta[n] \in {None, db.meta[n]}
           /\ r.frozen = {} /\ r.global = {}
<1>1. PICK S : r = [EmptyLedger EXCEPT !.meta = [n \in Names |-> IF n \in S THEN db.meta[n] ELSE None]]
  BY Zenon DEF LoadAssets
<1> QED BY Zenon, <1>1 DEF EmptyLedger, Ledger, MetaMap

(* Stopping, starting and rebuilding keep the types. *)
LEMMA RestartType ==
    ASSUME TypeOK,
           \/ StopRequest \/ Crash \/ RestartReindexChainstate
           \/ \E arg \in BOOLEAN : Restart(arg)
           \/ StartReindex \/ ReindexTx \/ ReindexSkipBlock \/ ReindexInterrupted
    PROVE  TypeOK'
<1> USE EmptyType
<1>1. CASE StopRequest \/ ReindexInterrupted
  BY Zenon, <1>1 DEF StopRequest, ReindexInterrupted, TypeOK, disk
<1>2. CASE Crash
  <2>1. coinsDB # <<>> => Len(coinsDB) > 0
    BY Zenon, ChainLemma DEF TypeOK
  <2>2. chain' = Genesis \/ (chain' = coinsDB /\ coinsDB # <<>>)
    BY Zenon, <1>2 DEF Crash
  <2>3. chain' \in Chain /\ Len(chain') > 0
    <3>1. CASE chain' = Genesis
      BY <3>1
    <3>2. CASE chain' = coinsDB /\ coinsDB # <<>>
      BY Zenon, <3>2, <2>1 DEF TypeOK
    <3> QED BY Zenon, <2>2, <3>1, <3>2
  <2> QED BY <1>2, <2>3 DEF Crash, TypeOK, disk
<1>3. CASE RestartReindexChainstate
  <2>1. lru' \in Ledger
    BY Zenon, <1>3, LoadAssetsLemma DEF RestartReindexChainstate, TypeOK
  <2>2. chain' \in Chain /\ Len(chain') > 0 /\ coinsDB' \in Chain
    BY <1>3 DEF RestartReindexChainstate
  <2> QED BY Zenon, <1>3, <2>1, <2>2 DEF RestartReindexChainstate, TypeOK
<1>4. ASSUME NEW arg \in BOOLEAN, Restart(arg) PROVE TypeOK'
  BY Zenon, <1>4, LoadAssetsLemma DEF Restart, TypeOK
<1>5. CASE StartReindex
  <2>1. lru' \in Ledger
    BY <1>5 DEF StartReindex, TypeOK, Ledger, MetaMap
  <2> QED BY <1>5, <2>1 DEF StartReindex, TypeOK, disk, Chain
<1>6. CASE ReindexTx
  <2> DEFINE i == rpos + 1
             after == IF chain[i].tx = Coinbase THEN local ELSE Mutate(local, chain[i].tx)
  <2>1. i \in 1..Len(chain)
    BY <1>6 DEF ReindexTx, TypeOK, Chain
  <2>2. chain[i].tx # Coinbase => chain[i].tx \in Txs
    BY Zenon, <2>1, ChainLemma DEF TypeOK
  <2>3. after \in Cache
    BY Zenon, <2>2, MutateType DEF TypeOK
  <2>4. lru' \in Ledger
    BY Zenon, <1>6, <2>2, ReadThroughLemma DEF ReindexTx, TypeOK
  <2>5. passets' \in Cache /\ local' \in Cache
    BY Zenon, <1>6, <2>3, FlushType DEF ReindexTx, TypeOK
  <2>6. flush' \in {"idle", "new"} \cup {flush}
    BY Zenon, <1>6 DEF ReindexTx
  <2>7. /\ rpos' = i
        /\ UNCHANGED <<chain, pending, db, marker, coinsDB, mode>>
    BY Zenon, <1>6 DEF ReindexTx, disk
  <2> QED BY <2>1, <2>4, <2>5, <2>6, <2>7 DEF TypeOK
<1>7. CASE ReindexSkipBlock
  <2>1. rpos' \in (rpos + 1)..Len(chain)
    BY Zenon, <1>7 DEF ReindexSkipBlock, NextBlock
  <2> QED BY <1>7, <2>1 DEF ReindexSkipBlock, TypeOK, disk, Chain
<1> QED BY Zenon, <1>1, <1>2, <1>3, <1>4, <1>5, <1>6, <1>7

(* Every action of the program keeps every variable in its type. *)
LEMMA NextType == TypeOK /\ [Next]_vars => TypeOK'
<1>1. ASSUME TypeOK, Next PROVE TypeOK'
  BY Zenon, <1>1, ConnectType, DumpType, RestartType DEF Next
<1>2. ASSUME TypeOK, UNCHANGED vars PROVE TypeOK'
  BY Zenon, <1>2 DEF TypeOK, vars
<1> QED BY Zenon, <1>1, <1>2

(* The initial state is well typed. *)
LEMMA InitType == Init => TypeOK
<1> SUFFICES ASSUME Init PROVE TypeOK
  BY Zenon
<1>1. chain \in Chain /\ Len(chain) > 0 /\ pending \in Chain /\ marker \in Chain /\ coinsDB \in Chain
  BY EmptyType DEF Init
<1>2. local \in Cache /\ passets \in Cache /\ lru \in Ledger /\ db \in Ledger
  BY Zenon, EmptyType DEF Init
<1>3. mode = "run" /\ flush = "idle" /\ rpos = 1
  BY Zenon DEF Init
<1> QED BY <1>1, <1>2, <1>3 DEF TypeOK

(* The state of the asset store is well formed whatever the program does:  *)
(* connecting, disconnecting, flushing, failing, crashing and rebuilding.  *)
THEOREM TypeCorrect == Spec => []TypeOK
<1> QED BY InitType, NextType, PTL DEF Spec

-----------------------------------------------------------------------------
(* LRU coherence *)

(* Where the cache of the current block is empty: everything but           *)
(* connecting a block and re-reading one leaves it so, and a dump never    *)
(* runs while it holds something.                                          *)
Quiet ==
    /\ pending # <<>> => flush = "idle" /\ mode \in {"run", "import"}
    /\ pending = <<>> /\ mode # "reindex" => local = EmptyCache
    /\ mode = "reindex" /\ LastOfBlock(rpos) => local = EmptyCache
    /\ flush # "idle" => local = EmptyCache
    /\ mode = "down" => flush = "idle"

(* A block issues only names that no other layer knows. *)
FreshLocal ==
    \A n \in Names : local.new[n] # None =>
        passets.new[n] = None /\ lru.meta[n] = None /\ db.meta[n] = None

(* What the loops of DumpCacheToDatabase have finished with stays coherent *)
(* once ClearDirtyCache drops the records that hid it.                     *)
Written ==
    /\ flush \in {"reissue", "restricted", "global"} =>
           \A n \in Names : lru.meta[n] \in {None, db.meta[n]}
    /\ flush = "global" => lru.frozen \subseteq db.frozen

(* No failed dump precedes the clearing of passets by ReindexAssets. *)
ImportClean ==
    mode = "import" => lru.frozen \subseteq db.frozen /\ lru.global \subseteq db.global

LruInv == TypeOK /\ Quiet /\ FreshLocal /\ LruCoherent /\ Written /\ ImportClean

(* The empty cache has no new asset. *)
LEMMA EmptyFresh == local = EmptyCache => FreshLocal
BY DEF FreshLocal, EmptyCache

(* Every action keeps the block's cache empty where it has to be. *)
LEMMA QuietStep == TypeOK /\ Quiet /\ Next => Quiet'
<1> SUFFICES ASSUME TypeOK, Quiet, Next PROVE Quiet'
  BY Zenon
<1>1. CASE BeginBlock
  BY Zenon, <1>1 DEF BeginBlock, Idle, Quiet
<1>2. ASSUME NEW tx \in Txs, ConnectTx(tx) PROVE Quiet'
  <2>1. pending' # <<>>
    <3>1. LedgerOf(pending) \in Ledger
      BY Zenon, <1>2, LedgerOfType DEF ConnectTx, TypeOK
    <3>2. [tx |-> tx, led |-> ApplyTx(LedgerOf(pending), tx)] \in Entry
      BY Zenon, <3>1, ApplyTxType DEF Entry
    <3>3. /\ pending \in Seq(Entry)
          /\ pending' = Append(pending, [tx |-> tx, led |-> ApplyTx(LedgerOf(pending), tx)])
      BY Zenon, <1>2 DEF ConnectTx, TypeOK, Chain
    <3> QED BY <3>2, <3>3, AppendProperties
  <2>2. UNCHANGED <<mode, flush, rpos, chain>> /\ pending # <<>>
    BY Zenon, <1>2 DEF ConnectTx
  <2> QED BY Zenon, <2>1, <2>2 DEF Quiet
<1>3. ASSUME NEW tx \in Txs, RejectBlock(tx) \/ PreChecks(tx) PROVE Quiet'
  BY Zenon, <1>3 DEF RejectBlock, PreChecks, Quiet
<1>4. CASE FinishBlock
  BY Zenon, <1>4 DEF FinishBlock, Quiet
<1>5. CASE DisconnectTip \/ FlushCoins
  BY Zenon, <1>5 DEF DisconnectTip, FlushCoins, Idle, Quiet
<1>6. ASSUME NEW ok \in BOOLEAN, Dump(ok) PROVE Quiet'
  BY Zenon, <1>6 DEF Dump, DumpNewAsset, DumpReissue, DumpRestricted, DumpGlobal, DumpFails,
              Quiet, LastOfBlock
<1>7. CASE DumpNext \/ DumpDone \/ WriteBestBlock
  BY Zenon, <1>7 DEF DumpNext, DumpDone, WriteBestBlock, Quiet, LastOfBlock
<1>8. CASE StopRequest \/ Crash \/ RestartReindexChainstate
  BY Zenon, <1>8 DEF StopRequest, Crash, RestartReindexChainstate, Idle, Quiet
<1>9. ASSUME NEW arg \in BOOLEAN, Restart(arg) PROVE Quiet'
  BY Zenon, <1>9 DEF Restart, Quiet
<1>10. CASE StartReindex
  BY Zenon, <1>10 DEF StartReindex, Idle, Quiet
<1>11. CASE ReindexTx
  BY Zenon, <1>11 DEF ReindexTx, Quiet, LastOfBlock
<1>12. CASE ReindexSkipBlock
  BY Zenon, <1>12 DEF ReindexSkipBlock, NextBlock, Quiet, LastOfBlock
<1>13. CASE ReindexInterrupted
  BY Zenon, <1>13 DEF ReindexInterrupted, Quiet
<1> QED BY Zenon, <1>1, <1>2, <1>3, <1>4, <1>5, <1>6, <1>7, <1>8, <1>9, <1>10, <1>11, <1>12, <1>13
        DEF Next

(* Reading through the LRU caches keeps them coherent. *)
LEMMA ReadCoherent ==
    ASSUME TypeOK, LruCoherent, NEW l, NEW tx \in Txs, lru' \in ReadThrough(l, tx),
           UNCHANGED <<db, passets>>
    PROVE  LruCoherent' /\ \A n \in Names : lru'.meta[n] \in {None, lru.meta[n], db.meta[n]}
<1>1. lru \in Ledger /\ db \in Ledger
  BY Zenon DEF TypeOK
<1>2. /\ \A n \in Names : lru'.meta[n] \in {None, lru.meta[n], db.meta[n]}
      /\ lru'.frozen \subseteq lru.frozen \cup db.frozen
      /\ lru'.global \subseteq lru.global \cup db.global
  BY Zenon, <1>1, ReadThroughLemma
<1> QED BY Zenon, <1>2 DEF LruCoherent

(* A transaction adds a new asset to its block's cache only if the lookup  *)
(* through all layers did not find the name.                               *)
LEMMA MutateFresh ==
    ASSUME TypeOK, FreshLocal, NEW tx \in Txs, NEW n \in Names,
           Mutate(local, tx).new[n] # None
    PROVE  passets.new[n] = None /\ lru.meta[n] = None /\ db.meta[n] = None
<1>1. CASE local.new[n] # None
  BY Zenon, <1>1 DEF FreshLocal
<1>2. CASE local.new[n] = None
  <2>1. n = tx.name /\ ~CheckIfAssetExists(local, n)
    BY Zenon, <1>2, TxLemma DEF Mutate, TypeOK, Cache, MetaMap
  <2> QED BY Zenon, <2>1 DEF CheckIfAssetExists, Stored, OrElse
<1> QED BY Zenon, <1>1, <1>2

(* Connecting, dropping or disconnecting a block. *)
LEMMA LruConnect ==
    ASSUME LruInv,
           \/ BeginBlock \/ FinishBlock \/ DisconnectTip
           \/ \E tx \in Txs : ConnectTx(tx) \/ RejectBlock(tx) \/ PreChecks(tx)
    PROVE  FreshLocal' /\ LruCoherent' /\ Written'
<1> USE DEF LruInv
<1>1. CASE BeginBlock
  BY Zenon, <1>1, EmptyFresh DEF BeginBlock, EmptyCache, FreshLocal, LruCoherent, Written, disk
<1>2. ASSUME NEW tx \in Txs, ConnectTx(tx) PROVE FreshLocal' /\ LruCoherent' /\ Written'
  <2>1. LruCoherent' /\ \A n \in Names : lru'.meta[n] \in {None, lru.meta[n], db.meta[n]}
    BY Zenon, <1>2, ReadCoherent DEF ConnectTx, disk
  <2>2. FreshLocal'
    BY Zenon, <1>2, <2>1, MutateFresh DEF ConnectTx, FreshLocal, disk
  <2>3. Written'
    BY Zenon, <1>2 DEF ConnectTx, Quiet, Written
  <2> QED BY Zenon, <2>1, <2>2, <2>3
<1>3. ASSUME NEW tx \in Txs, RejectBlock(tx) PROVE FreshLocal' /\ LruCoherent' /\ Written'
  <2>1. LruCoherent'
    BY Zenon, <1>3, ReadCoherent DEF RejectBlock, disk
  <2>2. FreshLocal' /\ Written'
    BY Zenon, <1>3 DEF RejectBlock, EmptyCache, FreshLocal, Quiet, Written
  <2> QED BY Zenon, <2>1, <2>2
<1>6. ASSUME NEW tx \in Txs, PreChecks(tx) PROVE FreshLocal' /\ LruCoherent' /\ Written'
  <2>1. LruCoherent'
    BY Zenon, <1>6, ReadCoherent DEF PreChecks, disk
  <2>2. local' = EmptyCache /\ flush' = "idle"
    BY Zenon, <1>6 DEF PreChecks, Idle, Quiet
  <2>3. FreshLocal' /\ Written'
    BY Zenon, <2>2 DEF EmptyCache, FreshLocal, Written
  <2> QED BY Zenon, <2>1, <2>3
<1>4. CASE FinishBlock
  <2>1. FreshLocal' /\ Written'
    BY Zenon, <1>4 DEF FinishBlock, EmptyCache, FreshLocal, Quiet, Written
  <2>2. \A n \in Names : lru.meta[n] \in {None, db.meta[n], Flush(local, passets).new[n]}
    BY Zenon DEF FreshLocal, LruCoherent, Flush, OrElse
  <2>3. /\ \A k \in Key : passets.restricted[k] # None => Flush(local, passets).restricted[k] # None
        /\ \A n \in Names : passets.global[n] # None => Flush(local, passets).global[n] # None
    BY Zenon DEF Flush, OrElse
  <2> QED BY Zenon, <1>4, <2>1, <2>2, <2>3 DEF FinishBlock, LruCoherent, disk
<1>5. CASE DisconnectTip
  <2>1. Flush(EmptyCache, passets) = passets
    BY Zenon DEF Flush, OrElse, EmptyCache, TypeOK, Cache, MetaMap
  <2> QED BY Zenon, <1>5, <2>1 DEF DisconnectTip, FreshLocal, LruCoherent, Written, disk
<1> QED BY Zenon, <1>1, <1>2, <1>3, <1>4, <1>5, <1>6

(* The coins flush, and every write of a dump, done or failed. *)
LEMMA LruDump ==
    ASSUME LruInv,
           \/ FlushCoins \/ DumpNext \/ DumpDone \/ WriteBestBlock
           \/ \E ok \in BOOLEAN : Dump(ok)
    PROVE  FreshLocal' /\ LruCoherent' /\ Written'
<1> USE DEF LruInv
<1>1. CASE FlushCoins
  BY Zenon, <1>1 DEF FlushCoins, FreshLocal, LruCoherent, Written
<1>2. CASE DumpNext
  <2>1. FreshLocal' /\ LruCoherent'
    BY Zenon, <1>2 DEF DumpNext, FreshLocal, LruCoherent, disk
  <2>0. lru' = lru /\ db' = db
    BY Zenon, <1>2 DEF DumpNext, disk
  <2>2. CASE flush = "new"
    <3>1. flush' = "reissue" /\ \A n \in Names : ~NewPending(n)
      BY Zenon, <1>2, <2>2 DEF DumpNext
    <3>2. \A n \in Names : lru.meta[n] \in {None, db.meta[n]}
      BY Zenon, <3>1 DEF NewPending, LruCoherent
    <3> QED BY Zenon, <2>0, <2>1, <3>1, <3>2 DEF Written
  <2>3. CASE flush = "reissue"
    <3>1. flush' = "restricted"
      BY Zenon, <1>2, <2>3 DEF DumpNext
    <3> QED BY Zenon, <2>0, <2>1, <2>3, <3>1 DEF Written
  <2>4. CASE flush = "restricted"
    <3>1. flush' = "global" /\ \A k \in Key : ~RestrictedPending(k)
      BY Zenon, <1>2, <2>4 DEF DumpNext
    <3>2. lru.frozen \subseteq db.frozen
      BY Zenon, <3>1 DEF RestrictedPending, LruCoherent, TypeOK, Ledger, Cache, RestrictedType
    <3> QED BY Zenon, <2>0, <2>1, <2>4, <3>1, <3>2 DEF Written
  <2> QED BY Zenon, <1>2, <2>1, <2>2, <2>3, <2>4 DEF DumpNext
<1>3. CASE DumpDone
  <2>1. lru.global \subseteq db.global
    BY Zenon, <1>3 DEF DumpDone, GlobalPending, LruCoherent, TypeOK, Ledger, Cache, RestrictedType
  <2>2. LruCoherent' /\ Written'
    BY Zenon, <1>3, <2>1 DEF DumpDone, Written, LruCoherent, disk
  <2>3. FreshLocal'
    BY Zenon, <1>3 DEF DumpDone, Quiet, EmptyCache, FreshLocal, disk
  <2> QED BY Zenon, <2>2, <2>3
<1>4. CASE WriteBestBlock
  BY Zenon, <1>4 DEF WriteBestBlock, FreshLocal, LruCoherent, Written
<1>5. ASSUME NEW ok \in BOOLEAN, Dump(ok) PROVE FreshLocal' /\ LruCoherent' /\ Written'
  <2>1. local = EmptyCache /\ local' = local
    BY Zenon, <1>5 DEF Dump, DumpNewAsset, DumpReissue, DumpRestricted, DumpGlobal, Quiet
  <2>2. FreshLocal'
    BY Zenon, <2>1 DEF FreshLocal, EmptyCache
  <2>3. ASSUME NEW n \in Names, DumpNewAsset(n, ok) PROVE LruCoherent' /\ Written'
    <3>1. passets.new[n] \in Meta
      BY Zenon, <2>3 DEF DumpNewAsset, NewPending, TypeOK, Cache, MetaMap
    <3>2. PICK m \in Put(lru.meta, n, passets.new[n]) : lru' = [lru EXCEPT !.meta = m]
      BY Zenon, <2>3 DEF DumpNewAsset
    <3>3. m \in MetaMap /\ m[n] = passets.new[n] /\ \A j \in Names : j # n => m[j] \in {None, lru.meta[j]}
      BY <3>1, <3>2, PutLemma DEF TypeOK, Ledger
    <3>4. /\ lru'.meta = m /\ lru'.frozen = lru.frozen /\ lru'.global = lru.global
          /\ db'.frozen = db.frozen /\ db'.global = db.global
          /\ db'.meta = db.meta \/ db'.meta = [db.meta EXCEPT ![n] = passets.new[n]]
          /\ passets' = passets
          /\ flush' \in {"new", "idle"}
      BY Zenon, <2>3, <3>2 DEF DumpNewAsset, DumpFails, TypeOK, Ledger
    <3>5. \A j \in Names : lru'.meta[j] \in {None, db'.meta[j], passets.new[j]}
      BY Zenon, <3>3, <3>4 DEF LruCoherent, TypeOK, Ledger, MetaMap
    <3> QED BY Zenon, <3>4, <3>5 DEF LruCoherent, Written
  <2>4. ASSUME NEW n \in Names, DumpReissue(n, ok) PROVE LruCoherent' /\ Written'
    <3>1. CASE ok
      BY <2>4, <3>1 DEF DumpReissue, LruCoherent, Written, TypeOK, Ledger, MetaMap
    <3>2. CASE ~ok
      BY Zenon, <2>4, <3>2 DEF DumpReissue, DumpFails, LruCoherent, Written
    <3> QED BY Zenon, <3>1, <3>2
  <2>5. ASSUME NEW k \in Key, DumpRestricted(k, ok) PROVE LruCoherent' /\ Written'
    <3>1. PICK S : /\ S \in PutKey(lru.frozen, k) \cup {lru.frozen \ {k}}
                   /\ lru' = [lru EXCEPT !.frozen = S]
      BY Zenon, <2>5 DEF DumpRestricted
    <3>2. S \subseteq lru.frozen \cup {k}
      BY Zenon, <3>1, PutKeyLemma
    <3>3. passets.restricted[k] # None
      BY Zenon, <2>5, NoneAssumption DEF DumpRestricted, RestrictedPending, RestrictedType
    <3>4. /\ lru'.frozen = S /\ lru'.meta = lru.meta /\ lru'.global = lru.global
          /\ db'.meta = db.meta /\ db'.global = db.global /\ passets' = passets
          /\ db.frozen \subseteq db'.frozen \cup {k}
          /\ flush' \in {"restricted", "idle"}
      BY <2>5, <3>1 DEF DumpRestricted, DumpFails, Switch, TypeOK, Ledger
    <3>5. lru'.frozen \subseteq db'.frozen \cup {j \in Key : passets'.restricted[j] # None}
      BY Zenon, <3>2, <3>3, <3>4 DEF LruCoherent
    <3> QED BY Zenon, <2>5, <3>4, <3>5 DEF DumpRestricted, LruCoherent, Written
  <2>6. ASSUME NEW n \in Names, DumpGlobal(n, ok) PROVE LruCoherent' /\ Written'
    <3>1. PICK S : /\ S \in PutKey(lru.global, n) \cup {lru.global \ {n}}
                   /\ lru' = [lru EXCEPT !.global = S]
      BY Zenon, <2>6 DEF DumpGlobal
    <3>2. S \subseteq lru.global \cup {n}
      BY Zenon, <3>1, PutKeyLemma
    <3>3. passets.global[n] # None
      BY Zenon, <2>6, NoneAssumption DEF DumpGlobal, GlobalPending, RestrictedType
    <3>4. /\ lru'.global = S /\ lru'.meta = lru.meta /\ lru'.frozen = lru.frozen
          /\ db'.meta = db.meta /\ db'.frozen = db.frozen /\ passets' = passets
          /\ db.global \subseteq db'.global \cup {n}
          /\ flush' \in {"global", "idle"}
      BY <2>6, <3>1 DEF DumpGlobal, DumpFails, Switch, TypeOK, Ledger
    <3>5. lru'.global \subseteq db'.global \cup {j \in Names : passets'.global[j] # None}
      BY Zenon, <3>2, <3>3, <3>4 DEF LruCoherent
    <3> QED BY Zenon, <2>6, <3>4, <3>5 DEF DumpGlobal, LruCoherent, Written
  <2> QED BY Zenon, <1>5, <2>2, <2>3, <2>4, <2>5, <2>6 DEF Dump
<1> QED BY Zenon, <1>1, <1>2, <1>3, <1>4, <1>5

(* Stopping, crashing and starting. *)
LEMMA LruRestart ==
    ASSUME LruInv,
           \/ StopRequest \/ Crash \/ RestartReindexChainstate
           \/ \E arg \in BOOLEAN : Restart(arg)
    PROVE  FreshLocal' /\ LruCoherent' /\ Written'
<1> USE DEF LruInv
<1>1. CASE StopRequest
  BY Zenon, <1>1 DEF StopRequest, FreshLocal, LruCoherent, Written, disk
<1>2. CASE Crash
  BY Zenon, <1>2 DEF Crash, EmptyCache, EmptyLedger, FreshLocal, LruCoherent, Written, disk
<1>3. ASSUME NEW arg \in BOOLEAN, Restart(arg) PROVE FreshLocal' /\ LruCoherent' /\ Written'
  <2>1. local' = EmptyCache /\ flush' \notin {"reissue", "restricted", "global"}
    BY Zenon, <1>3 DEF Restart, Quiet
  <2>2. CASE lru' = EmptyLedger
    BY Zenon, <2>1, <2>2 DEF FreshLocal, EmptyCache, Written, EmptyLedger, LruCoherent
  <2>3. CASE lru' \in LoadAssets /\ db' = db
    <3>1. /\ \A n \in Names : lru'.meta[n] \in {None, db'.meta[n]}
          /\ lru'.frozen = {} /\ lru'.global = {}
      BY Zenon, <2>3, LoadAssetsLemma DEF TypeOK
    <3> QED BY Zenon, <2>1, <3>1 DEF FreshLocal, EmptyCache, Written, LruCoherent
  <2> QED BY Zenon, <1>3, <2>2, <2>3 DEF Restart
<1>4. CASE RestartReindexChainstate
  <2>1. local' = EmptyCache /\ flush' \notin {"reissue", "restricted", "global"}
    BY Zenon, <1>4 DEF RestartReindexChainstate, Quiet
  <2>2. /\ \A n \in Names : lru'.meta[n] \in {None, db'.meta[n]}
        /\ lru'.frozen = {} /\ lru'.global = {}
    BY Zenon, <1>4, LoadAssetsLemma DEF RestartReindexChainstate, TypeOK
  <2> QED BY Zenon, <2>1, <2>2 DEF FreshLocal, EmptyCache, Written, LruCoherent
<1> QED BY Zenon, <1>1, <1>2, <1>3, <1>4

(* ReindexAssets. *)
LEMMA LruReindex ==
    ASSUME LruInv,
           StartReindex \/ ReindexTx \/ ReindexSkipBlock \/ ReindexInterrupted
    PROVE  FreshLocal' /\ LruCoherent' /\ Written'
<1> USE DEF LruInv
<1>1. CASE StartReindex
  <2>1. local' = EmptyCache /\ flush' = "idle"
    BY Zenon, <1>1 DEF StartReindex, Idle, Quiet
  <2>2. LruCoherent'
    BY <1>1 DEF StartReindex, LruCoherent, ImportClean, disk, TypeOK, Ledger
  <2> QED BY Zenon, <2>1, <2>2 DEF FreshLocal, EmptyCache, Written
<1>2. CASE ReindexTx
  <2> DEFINE i == rpos + 1
             after == IF chain[i].tx = Coinbase THEN local ELSE Mutate(local, chain[i].tx)
  <2>1. i \in 1..Len(chain)
    <3>1. Len(chain) \in Nat /\ rpos \in Nat
      BY Zenon, ChainLemma DEF TypeOK
    <3> QED BY <1>2, <3>1 DEF ReindexTx
  <2>2. chain[i].tx # Coinbase => chain[i].tx \in Txs
    BY Zenon, <2>1, ChainLemma DEF TypeOK
  <2>3. /\ \A n \in Names : lru'.meta[n] \in {None, lru.meta[n], db.meta[n]}
        /\ lru'.frozen \subseteq lru.frozen \cup db.frozen
        /\ lru'.global \subseteq lru.global \cup db.global
    <3>1. CASE chain[i].tx = Coinbase
      BY Zenon, <1>2, <3>1 DEF ReindexTx
    <3>2. CASE chain[i].tx # Coinbase
      BY Zenon, <1>2, <2>2, <3>2, ReadThroughLemma DEF ReindexTx, TypeOK
    <3> QED BY Zenon, <3>1, <3>2
  <2>4. \A n \in Names : after.new[n] # None =>
            passets.new[n] = None /\ lru.meta[n] = None /\ db.meta[n] = None
    BY Zenon, <2>2, MutateFresh DEF FreshLocal
  <2>5. db' = db /\ flush' \in {"idle", "new"}
    BY Zenon, <1>2 DEF ReindexTx, disk
  <2>6. CASE LastOfBlock(i)
    <3>1. passets' = Flush(after, passets) /\ local' = EmptyCache
      BY Zenon, <1>2, <2>6 DEF ReindexTx
    <3> HIDE DEF after
    <3>2. \A n \in Names : passets'.new[n] = OrElse(passets.new[n], after.new[n])
      BY Zenon, <3>1 DEF Flush
    <3>3. /\ \A k \in Key : passets.restricted[k] # None => passets'.restricted[k] # None
          /\ \A n \in Names : passets.global[n] # None => passets'.global[n] # None
      BY Zenon, <3>1 DEF Flush, OrElse
    <3>4. LruCoherent'
      BY Zenon, <2>3, <2>4, <2>5, <3>2, <3>3 DEF LruCoherent, OrElse
    <3> QED BY Zenon, <2>5, <3>1, <3>4 DEF FreshLocal, EmptyCache, Written
  <2>7. CASE ~LastOfBlock(i)
    <3>1. local' = after /\ passets' = passets
      BY Zenon, <1>2, <2>7 DEF ReindexTx
    <3> HIDE DEF after
    <3> QED BY Zenon, <2>3, <2>4, <2>5, <3>1 DEF FreshLocal, LruCoherent, Written
  <2> QED BY Zenon, <2>6, <2>7
<1>3. CASE ReindexSkipBlock
  <2>1. flush' \in {"idle", "new"} /\ UNCHANGED <<local, passets, lru, db>>
    BY Zenon, <1>3 DEF ReindexSkipBlock, disk
  <2> QED BY Zenon, <2>1 DEF FreshLocal, LruCoherent, Written
<1>4. CASE ReindexInterrupted
  BY Zenon, <1>4 DEF ReindexInterrupted, FreshLocal, LruCoherent, Written, disk
<1> QED BY Zenon, <1>1, <1>2, <1>3, <1>4

(* Only a dump that fails leaves an LRU entry without its database entry,  *)
(* and no failed dump is followed by the import.                           *)
LEMMA ImportStep == LruInv /\ Next => ImportClean'
<1> SUFFICES ASSUME LruInv, Next, mode' = "import"
             PROVE  lru'.frozen \subseteq db'.frozen /\ lru'.global \subseteq db'.global
  BY Zenon DEF ImportClean
<1> USE DEF LruInv, ImportClean
<1>1. ASSUME NEW tx \in Txs, ConnectTx(tx) \/ RejectBlock(tx) \/ PreChecks(tx)
      PROVE  lru'.frozen \subseteq db'.frozen /\ lru'.global \subseteq db'.global
  BY Zenon, <1>1, ReadThroughLemma DEF ConnectTx, RejectBlock, PreChecks, TypeOK, disk
<1>2. CASE \/ BeginBlock \/ FinishBlock \/ DisconnectTip \/ FlushCoins \/ DumpNext \/ DumpDone
           \/ WriteBestBlock \/ StopRequest \/ Crash \/ RestartReindexChainstate
           \/ StartReindex \/ ReindexTx \/ ReindexSkipBlock \/ ReindexInterrupted
  BY Zenon, <1>2 DEF BeginBlock, FinishBlock, DisconnectTip, FlushCoins, DumpNext, DumpDone,
              WriteBestBlock, StopRequest, Crash, RestartReindexChainstate, StartReindex,
              ReindexTx, ReindexSkipBlock, ReindexInterrupted, disk
<1>3. ASSUME NEW ok \in BOOLEAN, NEW n \in Names, DumpNewAsset(n, ok) \/ DumpReissue(n, ok)
      PROVE  lru'.frozen \subseteq db'.frozen /\ lru'.global \subseteq db'.global
  BY Zenon, <1>3 DEF DumpNewAsset, DumpReissue, DumpFails, TypeOK, Ledger
<1>4. ASSUME NEW ok \in BOOLEAN, NEW k \in Key, DumpRestricted(k, ok)
      PROVE  lru'.frozen \subseteq db'.frozen /\ lru'.global \subseteq db'.global
  BY <1>4, PutKeyLemma DEF DumpRestricted, DumpFails, Switch, TypeOK, Ledger
<1>5. ASSUME NEW ok \in BOOLEAN, NEW n \in Names, DumpGlobal(n, ok)
      PROVE  lru'.frozen \subseteq db'.frozen /\ lru'.global \subseteq db'.global
  BY <1>5, PutKeyLemma DEF DumpGlobal, DumpFails, Switch, TypeOK, Ledger
<1>6. ASSUME NEW arg \in BOOLEAN, Restart(arg)
      PROVE  lru'.frozen \subseteq db'.frozen /\ lru'.global \subseteq db'.global
  BY Zenon, <1>6, LoadAssetsLemma DEF Restart, TypeOK, Ledger, EmptyLedger
<1> QED BY Zenon, <1>1, <1>2, <1>3, <1>4, <1>5, <1>6 DEF Next, Dump

(* The LRU caches never disagree with the layers around them, whatever the *)
(* node does: reorganisations, failed writes, crashes, interrupted or      *)
(* skipped rebuilds and every start-up argument included.                  *)
THEOREM LruAlwaysCoherent == Spec => []LruCoherent
<1>1. Init => LruInv
  <2> SUFFICES ASSUME Init PROVE LruInv
    BY Zenon
  <2>1. TypeOK
    BY Zenon, InitType
  <2> QED BY Zenon, <2>1 DEF Init, LruInv, Quiet, FreshLocal, LruCoherent, Written, ImportClean,
                      EmptyCache, EmptyLedger
<1>2. LruInv /\ [Next]_vars => LruInv'
  <2>1. ASSUME LruInv, Next PROVE LruInv'
    <3>1. TypeOK' /\ Quiet' /\ ImportClean'
      BY Zenon, <2>1, NextType, QuietStep, ImportStep DEF LruInv
    <3>2. FreshLocal' /\ LruCoherent' /\ Written'
      BY Zenon, <2>1, LruConnect, LruDump, LruRestart, LruReindex DEF Next
    <3> QED BY Zenon, <3>1, <3>2 DEF LruInv
  <2>2. ASSUME LruInv, UNCHANGED vars PROVE LruInv'
    BY Zenon, <2>2 DEF LruInv, TypeOK, Quiet, FreshLocal, LruCoherent, Written, ImportClean, vars,
                LastOfBlock
  <2> QED BY Zenon, <2>1, <2>2
<1>3. LruInv => LruCoherent
  BY Zenon DEF LruInv
<1> QED BY <1>1, <1>2, <1>3, PTL DEF Spec

-----------------------------------------------------------------------------
(* Progress of dumps and rebuilds *)

DumpRank ==
    CASE flush = "new" -> 5 [] flush = "reissue" -> 4 [] flush = "restricted" -> 3
      [] flush = "global" -> 2 [] flush = "marker" -> 1 [] flush = "idle" -> 0

(* What the running loop of DumpCacheToDatabase has still to write. *)
Unwritten ==
    CASE flush = "new" -> {n \in Names : NewPending(n)}
      [] flush = "reissue" -> {n \in Names : ReissuePending(n)}
      [] flush = "restricted" -> {k \in Key : RestrictedPending(k)}
      [] flush = "global" -> {n \in Names : GlobalPending(n)}
      [] OTHER -> {}

Shrinks == Unwritten' \subseteq Unwritten /\ Unwritten' # Unwritten

(* A dump goes forward: each step of it writes an entry and makes no other *)
(* one due, though writing changes the LRU caches that decide what is due, *)
(* or goes on to the next loop.                                            *)
DumpAdvances ==
    flush # "idle" /\ flush' # "idle" =>
        DumpRank' < DumpRank \/ (DumpRank' = DumpRank /\ Shrinks)

(* ReindexAssets goes forward over a chain that stays as it is, and moves  *)
(* exactly when no dump runs.                                              *)
RebuildAdvances ==
    mode = "reindex" /\ mode' = "reindex" =>
        /\ chain' = chain
        /\ rpos' \in rpos..Len(chain)
        /\ rpos' # rpos <=> flush = "idle"

(* There is a next step: a transaction to re-apply or a dump to go on with. *)
RebuildGoesOn == mode = "reindex" => rpos < Len(chain) \/ flush # "idle"

(* Writing one record of each loop takes it off what is due, and nothing else. *)
LEMMA DumpNewShrinks ==
    ASSUME TypeOK, NEW n \in Names, DumpNewAsset(n, TRUE)
    PROVE  flush' = flush /\ Shrinks
<1>1. /\ flush = "new" /\ flush' = flush /\ passets' = passets /\ NewPending(n)
      /\ db' = [db EXCEPT !.meta[n] = passets.new[n]]
  BY Zenon DEF DumpNewAsset
<1>2. db'.meta[n] = passets.new[n] /\ \A m \in Names : m # n => db'.meta[m] = db.meta[m]
  BY Zenon, <1>1 DEF TypeOK, Ledger, MetaMap
<1>3. ~NewPending(n)' /\ \A m \in Names : NewPending(m)' => NewPending(m)
  BY Zenon, <1>1, <1>2 DEF NewPending
<1>4. Unwritten = {m \in Names : NewPending(m)} /\ Unwritten' = {m \in Names : NewPending(m)'}
  BY Zenon, <1>1 DEF Unwritten
<1> QED BY Zenon, <1>1, <1>3, <1>4 DEF Shrinks

LEMMA DumpReissueShrinks ==
    ASSUME TypeOK, NEW n \in Names, DumpReissue(n, TRUE)
    PROVE  flush' = flush /\ Shrinks
<1>1. /\ flush = "reissue" /\ flush' = flush /\ passets' = passets /\ ReissuePending(n)
      /\ db' = [db EXCEPT !.meta[n] = passets.reissued[n]]
      /\ lru' = [lru EXCEPT !.meta[n] = None]
  BY Zenon DEF DumpReissue
<1>2. /\ db'.meta[n] = passets.reissued[n] /\ lru'.meta[n] = None
      /\ \A m \in Names : m # n => db'.meta[m] = db.meta[m] /\ lru'.meta[m] = lru.meta[m]
  BY Zenon, <1>1 DEF TypeOK, Ledger, MetaMap
<1>3. ~ReissuePending(n)' /\ \A m \in Names : ReissuePending(m)' => ReissuePending(m)
  BY Zenon, <1>1, <1>2 DEF ReissuePending
<1>4. /\ Unwritten = {m \in Names : ReissuePending(m)}
      /\ Unwritten' = {m \in Names : ReissuePending(m)'}
  BY Zenon, <1>1 DEF Unwritten
<1> QED BY Zenon, <1>1, <1>3, <1>4 DEF Shrinks

LEMMA DumpRestrictedShrinks ==
    ASSUME TypeOK, NEW k \in Key, DumpRestricted(k, TRUE)
    PROVE  flush' = flush /\ Shrinks
<1>1. /\ flush = "restricted" /\ flush' = flush /\ passets' = passets /\ RestrictedPending(k)
      /\ db' = [db EXCEPT !.frozen = Switch(@, k, passets.restricted[k])]
  BY Zenon DEF DumpRestricted
<1>2. PICK S : /\ lru' = [lru EXCEPT !.frozen = S]
               /\ S \in (IF passets.restricted[k] = "FREEZE" THEN PutKey(lru.frozen, k)
                         ELSE {lru.frozen \ {k}})
  BY Zenon DEF DumpRestricted
<1>3. /\ lru'.frozen = S /\ db'.frozen = Switch(db.frozen, k, passets.restricted[k])
      /\ S \subseteq lru.frozen \cup {k}
      /\ passets.restricted[k] # "FREEZE" => S = lru.frozen \ {k}
  BY <1>1, <1>2, PutKeyLemma DEF TypeOK, Ledger
<1>4. ~RestrictedPending(k)' /\ \A j \in Key : RestrictedPending(j)' => RestrictedPending(j)
  BY <1>1, <1>3 DEF RestrictedPending, Switch
<1>5. /\ Unwritten = {j \in Key : RestrictedPending(j)}
      /\ Unwritten' = {j \in Key : RestrictedPending(j)'}
  BY Zenon, <1>1 DEF Unwritten
<1> QED BY Zenon, <1>1, <1>4, <1>5 DEF Shrinks

LEMMA DumpGlobalShrinks ==
    ASSUME TypeOK, NEW n \in Names, DumpGlobal(n, TRUE)
    PROVE  flush' = flush /\ Shrinks
<1>1. /\ flush = "global" /\ flush' = flush /\ passets' = passets /\ GlobalPending(n)
      /\ db' = [db EXCEPT !.global = Switch(@, n, passets.global[n])]
  BY Zenon DEF DumpGlobal
<1>2. PICK S : /\ lru' = [lru EXCEPT !.global = S]
               /\ S \in (IF passets.global[n] = "FREEZE" THEN PutKey(lru.global, n)
                         ELSE {lru.global \ {n}})
  BY Zenon DEF DumpGlobal
<1>3. /\ lru'.global = S /\ db'.global = Switch(db.global, n, passets.global[n])
      /\ S \subseteq lru.global \cup {n}
      /\ passets.global[n] # "FREEZE" => S = lru.global \ {n}
  BY <1>1, <1>2, PutKeyLemma DEF TypeOK, Ledger
<1>4. ~GlobalPending(n)' /\ \A m \in Names : GlobalPending(m)' => GlobalPending(m)
  BY <1>1, <1>3 DEF GlobalPending, Switch
<1>5. /\ Unwritten = {m \in Names : GlobalPending(m)}
      /\ Unwritten' = {m \in Names : GlobalPending(m)'}
  BY Zenon, <1>1 DEF Unwritten
<1> QED BY Zenon, <1>1, <1>4, <1>5 DEF Shrinks

(* One step of the node. *)
LEMMA StepAdvances ==
    ASSUME TypeOK, Quiet, Next
    PROVE  DumpAdvances /\ RebuildAdvances
<1>1. rpos \in Nat /\ Len(chain) \in Nat /\ (mode = "reindex" => rpos <= Len(chain))
  BY DEF TypeOK, Chain
<1>2. ASSUME NEW ok \in BOOLEAN, Dump(ok) PROVE DumpAdvances /\ RebuildAdvances
  <2>1. flush # "idle" /\ UNCHANGED <<chain, rpos>> /\ (flush' = "idle" \/ ok)
    BY Zenon, <1>2 DEF Dump, DumpNewAsset, DumpReissue, DumpRestricted, DumpGlobal, DumpFails
  <2>2. RebuildAdvances
    BY <1>1, <2>1 DEF RebuildAdvances
  <2>3. ok => flush' = flush /\ Shrinks
    <3>1. ok => Dump(TRUE)
      BY Zenon, <1>2
    <3> QED BY Zenon, <3>1, DumpNewShrinks, DumpReissueShrinks, DumpRestrictedShrinks,
               DumpGlobalShrinks DEF Dump
  <2>4. flush' = flush => DumpRank' = DumpRank
    BY Zenon DEF DumpRank
  <2> QED BY Zenon, <2>1, <2>2, <2>3, <2>4 DEF DumpAdvances
<1>3. CASE DumpNext
  <2>1. /\ UNCHANGED <<chain, rpos>> /\ flush # "idle"
        /\ <<flush, flush'>> \in {<<"new", "reissue">>, <<"reissue", "restricted">>,
                                  <<"restricted", "global">>}
    BY Zenon, <1>3 DEF DumpNext
  <2>2. DumpRank' < DumpRank
    BY <2>1 DEF DumpRank
  <2> QED BY <1>1, <2>1, <2>2 DEF DumpAdvances, RebuildAdvances
<1>4. CASE DumpDone
  <2>1. UNCHANGED <<chain, rpos>> /\ flush = "global" /\ flush' \in {"idle", "marker"}
    BY Zenon, <1>4 DEF DumpDone
  <2>2. flush' = "marker" => DumpRank' < DumpRank
    BY <2>1 DEF DumpRank
  <2> QED BY <1>1, <2>1, <2>2 DEF DumpAdvances, RebuildAdvances
<1>5. CASE WriteBestBlock \/ Crash
  BY Zenon, <1>5 DEF WriteBestBlock, Crash, DumpAdvances, RebuildAdvances
<1>6. CASE ReindexTx \/ ReindexSkipBlock
  <2>1. flush = "idle" /\ chain' = chain /\ rpos' \in (rpos + 1)..Len(chain)
    BY <1>1, <1>6 DEF ReindexTx, ReindexSkipBlock, NextBlock
  <2> QED BY <1>1, <2>1 DEF DumpAdvances, RebuildAdvances
<1>7. ASSUME \/ StopRequest \/ BeginBlock \/ FinishBlock \/ DisconnectTip \/ FlushCoins
             \/ \E tx \in Txs : ConnectTx(tx) \/ RejectBlock(tx) \/ PreChecks(tx)
             \/ \E arg \in BOOLEAN : Restart(arg)
             \/ RestartReindexChainstate \/ StartReindex \/ ReindexInterrupted
      PROVE  flush = "idle" /\ (mode # "reindex" \/ mode' # "reindex")
  BY Zenon, <1>7 DEF StopRequest, BeginBlock, FinishBlock, DisconnectTip, FlushCoins, ConnectTx,
              RejectBlock, PreChecks, Restart, RestartReindexChainstate, StartReindex,
              ReindexInterrupted, Idle, Quiet
<1> QED BY Zenon, <1>2, <1>3, <1>4, <1>5, <1>6, <1>7 DEF Next, DumpAdvances, RebuildAdvances

(* What the proofs below rest on. *)
LEMMA QuietAlways == Spec => [](TypeOK /\ Quiet)
<1>1. Init => TypeOK /\ Quiet
  BY Zenon, InitType DEF Init, Quiet
<1>2. TypeOK /\ Quiet /\ [Next]_vars => (TypeOK /\ Quiet)'
  <2>1. TypeOK /\ Quiet /\ UNCHANGED vars => Quiet'
    BY Zenon DEF vars, Quiet, LastOfBlock
  <2> QED BY Zenon, <2>1, NextType, QuietStep
<1> QED BY <1>1, <1>2, PTL DEF Spec

(* DumpCacheToDatabase and ReindexAssets make progress with every step,    *)
(* in every mode and whatever else the node does: no entry is written      *)
(* twice in a loop, and no transaction is re-applied twice in a rebuild.   *)
THEOREM StoreAdvances == Spec => [][DumpAdvances /\ RebuildAdvances]_vars
<1>1. TypeOK /\ Quiet /\ [Next]_vars => [DumpAdvances /\ RebuildAdvances]_vars
  BY Zenon, StepAdvances
<1> QED BY <1>1, QuietAlways, PTL DEF Spec

(* A rebuild never comes to a halt before its last dump: the loop of       *)
(* ReindexAssets ends with a dump, and a dump ends with the next block,    *)
(* with the marker or in another mode.                                     *)
THEOREM RebuildAlwaysGoesOn == Spec => []RebuildGoesOn
<1>1. Init => RebuildGoesOn
  BY Zenon DEF Init, RebuildGoesOn
<1>2. TypeOK /\ Quiet /\ RebuildGoesOn /\ [Next]_vars => RebuildGoesOn'
  <2> SUFFICES ASSUME TypeOK, Quiet, RebuildGoesOn, [Next]_vars PROVE RebuildGoesOn'
    BY Zenon
  <2>1. rpos \in Nat /\ Len(chain) \in Nat /\ Len(chain) > 0
    BY DEF TypeOK, Chain
  <2>2. CASE mode # "reindex" /\ Next
    <3>1. mode' # "reindex" \/ StartReindex
      BY Zenon, <2>2 DEF Next, BeginBlock, ConnectTx, RejectBlock, PreChecks, FinishBlock, DisconnectTip,
                  FlushCoins, Dump, DumpNewAsset, DumpReissue, DumpRestricted, DumpGlobal,
                  DumpFails, DumpNext, DumpDone, WriteBestBlock, StopRequest, Crash, Restart,
                  RestartReindexChainstate, ReindexTx, ReindexSkipBlock, ReindexInterrupted
    <3>2. ASSUME StartReindex PROVE RebuildGoesOn'
      <4>1. chain' = chain /\ rpos' = 1 /\ (mode' = "reindex" => Len(chain) # 1)
        BY Zenon, <3>2 DEF StartReindex
      <4>2. \A k \in Nat : k > 0 /\ k # 1 => 1 < k
        OBVIOUS
      <4>3. mode' = "reindex" => rpos' < Len(chain')
        BY <2>1, <4>1, <4>2, Zenon
      <4> QED BY Zenon, <4>3 DEF RebuildGoesOn
    <3> QED BY Zenon, <3>1, <3>2 DEF RebuildGoesOn
  <2>3. CASE mode = "reindex" /\ mode' = "reindex" /\ Next
    <3>1. CASE ReindexTx
      <4>1. rpos' = Len(chain) => LastOfBlock(rpos + 1)
        BY Zenon, <3>1 DEF ReindexTx, LastOfBlock
      <4> QED BY <2>1, <3>1, <4>1 DEF ReindexTx, RebuildGoesOn
    <3>2. CASE ReindexSkipBlock
      BY <2>1, <3>2 DEF ReindexSkipBlock, NextBlock, RebuildGoesOn
    <3>3. ASSUME NEW ok \in BOOLEAN, Dump(ok) PROVE RebuildGoesOn'
      BY Zenon, <2>3, <3>3 DEF Dump, DumpNewAsset, DumpReissue, DumpRestricted, DumpGlobal, DumpFails,
                        RebuildGoesOn
    <3>4. CASE DumpNext \/ DumpDone \/ WriteBestBlock
      BY Zenon, <2>1, <2>3, <3>4 DEF DumpNext, DumpDone, WriteBestBlock, RebuildGoesOn, TypeOK
    <3> QED
      BY Zenon, <2>3, <3>1, <3>2, <3>3, <3>4
      DEF Next, BeginBlock, ConnectTx, RejectBlock, PreChecks, FinishBlock, DisconnectTip,
          FlushCoins, StopRequest, Crash, Restart, RestartReindexChainstate, StartReindex,
          ReindexInterrupted, Quiet
  <2>4. CASE mode' # "reindex" \/ UNCHANGED vars
    BY Zenon, <2>4 DEF RebuildGoesOn, vars
  <2> QED BY Zenon, <2>2, <2>3, <2>4
<1> QED BY <1>1, <1>2, QuietAlways, PTL DEF Spec

=============================================================================
