--------------------------- MODULE AssetReorgProofs ---------------------------
(***************************************************************************)
(* Proofs about the node that reorganises its chain (ReorgSpec): no asset  *)
(* of the active chain is lost, and a rebuild is exact.                    *)
(*                                                                         *)
(* The LRU caches drop out first: LruCoherent makes every lookup the one   *)
(* that Layered describes, over the block's cache, the dirty cache and the *)
(* databases.  The rest of the argument is about these three layers.       *)
(***************************************************************************)
EXTENDS AssetStoreProofs, WellFoundedInduction

-----------------------------------------------------------------------------
(* Lookups without the LRU caches *)

MetaAt(l, p, d, n) ==
    OrElse(l.reissued[n], OrElse(p.reissued[n],
        OrElse(l.new[n], OrElse(p.new[n], d.meta[n]))))

NameAt(l, p, d, n) == l.new[n] # None \/ p.new[n] # None \/ d.meta[n] # None

(* f and g are the dirty records of two layers, S what is stored. *)
SwitchedOn(f, g, S, k) ==
    IF f[k] # None THEN f[k] = "FREEZE"
    ELSE IF g[k] # None THEN g[k] = "FREEZE" ELSE k \in S

Layered(l, p, d) ==
    [meta |-> [n \in Names |-> MetaAt(l, p, d, n)],
     frozen |-> {k \in Key : SwitchedOn(l.restricted, p.restricted, d.frozen, k)},
     global |-> {n \in Names : SwitchedOn(l.global, p.global, d.global, n)}]

(* A block issues only names that no layer below knows, and a reissue is   *)
(* of an asset that its layer or one below has.                            *)
Backed(l, p, d) ==
    \A n \in Names :
        /\ l.new[n] # None => p.new[n] = None /\ p.reissued[n] = None /\ d.meta[n] = None
        /\ p.reissued[n] # None => p.new[n] # None \/ d.meta[n] # None
        /\ l.reissued[n] # None => NameAt(l, p, d, n)

-----------------------------------------------------------------------------
(* The inductive invariant *)

(* What the entry e of a chain does to the ledger before it. *)
Follows(led, e) ==
    IF e.tx = Coinbase THEN e.led = led
    ELSE /\ e.led = ApplyTx(led, e.tx)
         /\ e.tx.op = "issue" => led.meta[e.tx.name] = None

Valid(c) ==
    /\ Len(c) > 0
    /\ c[1].led = EmptyLedger
    /\ \A i \in 2..Len(c) : Follows(c[i - 1].led, c[i])

(* The block being connected, after a tip with the ledger led. *)
ValidBlock(led, b) ==
    /\ b[1].tx = Coinbase /\ b[1].led = led
    /\ \A i \in 2..Len(b) : Follows(b[i - 1].led, b[i])

ValidChains ==
    /\ Valid(chain)
    /\ coinsDB # <<>> => Valid(coinsDB)
    /\ pending # <<>> => ValidBlock(LedgerOf(chain), pending)

Covers(m, led) == \A n \in Names : led.meta[n] # None => m[n] # None

(* Every asset of the chain, and of the block on top of it, is found.      *)
Covered ==
    /\ mode \in {"run", "stopping"} =>
           Covers(Layered(EmptyCache, passets, db).meta, LedgerOf(chain))
    /\ pending # <<>> => Covers(Layered(local, passets, db).meta, LedgerOf(pending))
    /\ marker # <<>> => Covers(db.meta, LedgerOf(marker))

(* Where the process is. *)
Phases ==
    /\ mode = "down" => chain = (IF coinsDB = <<>> THEN Genesis ELSE coinsDB)
    /\ mode \in {"import", "reindex"} => chain = coinsDB
    /\ pending # <<>> => mode = "run"
    /\ mode = "import" => db = EmptyLedger
    /\ mode \in {"down", "import"} => passets = EmptyCache /\ flush = "idle"
    /\ mode = "reindex" => Layered(local, passets, db) = chain[rpos].led
    /\ mode = "reindex" /\ flush = "marker" => rpos = Len(chain)

(* What the finished loops of DumpCacheToDatabase have written. *)
Dumped ==
    /\ flush \in {"reissue", "restricted", "global"} =>
           \A n \in Names : passets.new[n] # None =>
               \/ db.meta[n] = passets.new[n]
               \/ passets.reissued[n] # None /\ db.meta[n] = passets.reissued[n]
    /\ flush \in {"restricted", "global"} =>
           \A n \in Names : passets.reissued[n] # None => db.meta[n] = passets.reissued[n]
    /\ flush = "global" =>
           \A k \in Key : passets.restricted[k] # None =>
               (passets.restricted[k] = "FREEZE" <=> k \in db.frozen)
    /\ flush = "marker" => passets = EmptyCache

Store == Backed(local, passets, db) /\ ValidChains /\ Covered /\ Phases /\ Dumped

RInv == LruInv /\ Store

-----------------------------------------------------------------------------
(* The layers *)

(* Coherent LRU caches change no lookup. *)
LEMMA LookupLayered ==
    ASSUME TypeOK, LruCoherent, NEW l \in Cache
    PROVE  /\ \A n \in Names : GetAssetMetaDataIfExists(l, n) = MetaAt(l, passets, db, n)
           /\ \A n \in Names : CheckIfAssetExists(l, n) <=> NameAt(l, passets, db, n)
BY Zenon DEF LruCoherent, GetAssetMetaDataIfExists, CheckIfAssetExists, Stored, MetaAt, NameAt, OrElse

(* The same for the restrictions, which the block's cache does not hide. *)
LEMMA RestrictionLayered ==
    ASSUME TypeOK, LruCoherent
    PROVE  /\ \A k \in Key : CheckForAddressRestriction(k)
                  <=> SwitchedOn(EmptyCache.restricted, passets.restricted, db.frozen, k)
           /\ \A n \in Names : CheckForGlobalRestriction(n)
                  <=> SwitchedOn(EmptyCache.global, passets.global, db.global, n)
BY Zenon DEF LruCoherent, CheckForAddressRestriction, CheckForGlobalRestriction, SwitchedOn, EmptyCache

(* What lookups answer between blocks, without the LRU caches. *)
LEMMA ViewLayered ==
    ASSUME TypeOK, LruCoherent
    PROVE  View = Layered(EmptyCache, passets, db)
<1>1. EmptyCache \in Cache
  BY Zenon, EmptyType
<1> QED BY Zenon, <1>1, LookupLayered, RestrictionLayered DEF View, SeenBy, Layered

(* The layers of a well typed state form a ledger. *)
LEMMA LayeredType ==
    ASSUME NEW l \in Cache, NEW p \in Cache, NEW d \in Ledger
    PROVE  /\ Layered(l, p, d) \in Ledger
           /\ \A n \in Names : Layered(l, p, d).meta[n] = MetaAt(l, p, d, n)
           /\ \A n \in Names : MetaAt(l, p, d, n) \in Meta \cup {None}
<1>1. \A n \in Names : MetaAt(l, p, d, n) \in Meta \cup {None}
  BY Zenon DEF MetaAt, OrElse, Cache, Ledger, MetaMap
<1> QED BY Zenon, <1>1 DEF Layered, Ledger, MetaMap

(* A name is known exactly when its metadata is. *)
LEMMA NameIffMeta ==
    ASSUME NEW l \in Cache, NEW p \in Cache, NEW d \in Ledger, Backed(l, p, d), NEW n \in Names
    PROVE  NameAt(l, p, d, n) <=> MetaAt(l, p, d, n) # None
BY Zenon DEF Backed, NameAt, MetaAt, OrElse

(* A block's transaction does to the layers what the rules say it does to  *)
(* the ledger, provided that it issues no name twice.                      *)
LEMMA MutateLayered ==
    ASSUME TypeOK, LruCoherent, NEW l \in Cache, Backed(l, passets, db), NEW tx \in Txs
    PROVE  /\ Backed(Mutate(l, tx), passets, db)
           /\ (tx.op = "issue" => MetaAt(l, passets, db, tx.name) = None) =>
                  Layered(Mutate(l, tx), passets, db) = ApplyTx(Layered(l, passets, db), tx)
           /\ \A n \in Names : ApplyTx(Layered(l, passets, db), tx).meta[n] # None =>
                  Layered(Mutate(l, tx), passets, db).meta[n] # None
           /\ \A n \in Names : Layered(l, passets, db).meta[n] # None =>
                  Layered(Mutate(l, tx), passets, db).meta[n] # None
<1> DEFINE name == tx.name
           g == MetaAt(l, passets, db, name)
           m == Mutate(l, tx)
<1>0. /\ passets \in Cache /\ db \in Ledger
      /\ l.new \in MetaMap /\ l.reissued \in MetaMap
      /\ l.restricted \in [Key -> RestrictedType \cup {None}]
      /\ l.global \in [Names -> RestrictedType \cup {None}]
      /\ m \in Cache
  BY Zenon, MutateType DEF TypeOK, Cache
<1>1. name \in Names /\ tx.op \in {"issue", "reissue", "transfer", "restrict", "global"}
  BY Zenon, TxLemma
<1>2. /\ GetAssetMetaDataIfExists(l, name) = g
      /\ CheckIfAssetExists(l, name) <=> NameAt(l, passets, db, name)
      /\ NameAt(l, passets, db, name) <=> g # None
  BY Zenon, <1>0, <1>1, LookupLayered, NameIffMeta
<1>3. /\ tx.op = "issue" => tx.meta \in Meta /\ tx.meta # None
      /\ tx.op = "reissue" /\ g # None => Reissued(g, tx) \in Meta /\ Reissued(g, tx) # None
  <2>1. g \in Meta \cup {None}
    BY Zenon, <1>0, <1>1, LayeredType
  <2>2. tx.op = "reissue" /\ g # None => Reissued(g, tx) \in Meta
    BY Zenon, <2>1, TxLemma, ReissuedLemma
  <2> QED BY Zenon, <2>2, TxLemma, NoneAssumption
<1>4. /\ m.new = IF tx.op = "issue" /\ g = None THEN [l.new EXCEPT ![name] = tx.meta] ELSE l.new
      /\ m.reissued = IF tx.op = "reissue" /\ g # None
                      THEN [l.reissued EXCEPT ![name] = Reissued(g, tx)] ELSE l.reissued
      /\ m.restricted = IF tx.op = "restrict"
                        THEN [l.restricted EXCEPT ![<<name, tx.addr>>] = tx.type] ELSE l.restricted
      /\ m.global = IF tx.op = "global" THEN [l.global EXCEPT ![name] = tx.type] ELSE l.global
  BY Zenon, <1>2 DEF Mutate
<1>5. \A n \in Names :
        /\ m.new[n] = IF tx.op = "issue" /\ g = None /\ n = name THEN tx.meta ELSE l.new[n]
        /\ m.reissued[n] = IF tx.op = "reissue" /\ g # None /\ n = name
                           THEN Reissued(g, tx) ELSE l.reissued[n]
  BY Zenon, <1>0, <1>1, <1>4 DEF MetaMap
<1> HIDE DEF m, g
<1>6. Backed(m, passets, db)
  BY Zenon, <1>1, <1>2, <1>3, <1>5 DEF Backed, NameAt, MetaAt, OrElse, g
<1>7. \A n \in Names : MetaAt(m, passets, db, n) =
        IF n = name /\ tx.op = "issue" /\ g = None THEN tx.meta
        ELSE IF n = name /\ tx.op = "reissue" /\ g # None THEN Reissued(g, tx)
        ELSE MetaAt(l, passets, db, n)
  <2> TAKE n \in Names
  <2>1. CASE n # name
    BY Zenon, <1>5, <2>1 DEF MetaAt
  <2>2. CASE n = name /\ g = None
    <3>1. /\ l.reissued[n] = None /\ passets.reissued[n] = None /\ l.new[n] = None
          /\ passets.new[n] = None /\ db.meta[n] = None
      BY Zenon, <1>2, <2>2 DEF MetaAt, NameAt, OrElse, g
    <3> QED BY Zenon, <1>1, <1>3, <1>5, <2>2, <3>1 DEF MetaAt, OrElse
  <2>3. CASE n = name /\ g # None
    BY Zenon, <1>1, <1>3, <1>5, <2>3 DEF MetaAt, OrElse
  <2> QED BY Zenon, <2>1, <2>2, <2>3
<1>8. /\ Layered(l, passets, db) \in Ledger /\ Layered(l, passets, db).meta[name] = g
      /\ \A n \in Names : Layered(l, passets, db).meta[n] = MetaAt(l, passets, db, n)
      /\ \A n \in Names : Layered(m, passets, db).meta[n] = MetaAt(m, passets, db, n)
  BY <1>0, <1>1, LayeredType DEF g
<1>9. \A n \in Names : ApplyTx(Layered(l, passets, db), tx).meta[n] =
        IF n = name /\ tx.op = "issue" THEN tx.meta
        ELSE IF n = name /\ tx.op = "reissue" /\ g # None THEN Reissued(g, tx)
        ELSE MetaAt(l, passets, db, n)
  BY Zenon, <1>1, <1>8 DEF ApplyTx, Ledger, MetaMap
<1>10. /\ \A n \in Names : ApplyTx(Layered(l, passets, db), tx).meta[n] # None =>
              Layered(m, passets, db).meta[n] # None
       /\ \A n \in Names : Layered(l, passets, db).meta[n] # None =>
              Layered(m, passets, db).meta[n] # None
  BY <1>3, <1>7, <1>8, <1>9 DEF g
<1>11. ASSUME tx.op = "issue" => g = None
       PROVE  Layered(m, passets, db) = ApplyTx(Layered(l, passets, db), tx)
  <2> DEFINE a == Layered(m, passets, db)
             b == ApplyTx(Layered(l, passets, db), tx)
  <2>1. a \in Ledger /\ b \in Ledger
    BY Zenon, <1>0, <1>8, LayeredType, ApplyTxType
  <2>2. \A n \in Names : a.meta[n] = b.meta[n]
    BY Zenon, <1>7, <1>8, <1>9, <1>11
  <2>3. a.meta = b.meta
    BY <2>1, <2>2 DEF Ledger, MetaMap
  <2>4. \A k \in Key : k \in a.frozen <=> k \in b.frozen
    <3>1. \A k \in Key : k \in a.frozen <=> SwitchedOn(m.restricted, passets.restricted, db.frozen, k)
      BY Zenon DEF Layered
    <3>2. \A k \in Key : k \in Layered(l, passets, db).frozen
            <=> SwitchedOn(l.restricted, passets.restricted, db.frozen, k)
      BY Zenon DEF Layered
    <3>3. CASE tx.op = "restrict"
      <4>1. <<name, tx.addr>> \in Key /\ tx.type \in RestrictedType /\ tx.type # None
        BY Zenon, <1>1, <3>3, TxLemma, NoneAssumption DEF Key
      <4>2. b.frozen = Switch(Layered(l, passets, db).frozen, <<name, tx.addr>>, tx.type)
        BY Zenon, <3>3 DEF ApplyTx
      <4>3. \A k \in Key : m.restricted[k] = IF k = <<name, tx.addr>> THEN tx.type ELSE l.restricted[k]
        BY Zenon, <1>0, <1>4, <3>3, <4>1
      <4> QED BY <3>1, <3>2, <4>1, <4>2, <4>3 DEF SwitchedOn, Switch, RestrictedType
    <3>4. CASE tx.op # "restrict"
      BY Zenon, <1>4, <3>1, <3>2, <3>4 DEF ApplyTx
    <3> QED BY Zenon, <3>3, <3>4
  <2>5. \A n \in Names : n \in a.global <=> n \in b.global
    <3>1. \A n \in Names : n \in a.global <=> SwitchedOn(m.global, passets.global, db.global, n)
      BY Zenon DEF Layered
    <3>2. \A n \in Names : n \in Layered(l, passets, db).global
            <=> SwitchedOn(l.global, passets.global, db.global, n)
      BY Zenon DEF Layered
    <3>3. CASE tx.op = "global"
      <4>1. tx.type \in RestrictedType /\ tx.type # None
        BY Zenon, <3>3, TxLemma, NoneAssumption
      <4>2. b.global = Switch(Layered(l, passets, db).global, name, tx.type)
        BY Zenon, <3>3 DEF ApplyTx
      <4>3. \A n \in Names : m.global[n] = IF n = name THEN tx.type ELSE l.global[n]
        BY Zenon, <1>0, <1>1, <1>4, <3>3
      <4> QED BY <1>1, <3>1, <3>2, <4>1, <4>2, <4>3 DEF SwitchedOn, Switch, RestrictedType
    <3>4. CASE tx.op # "global"
      BY Zenon, <1>4, <3>1, <3>2, <3>4 DEF ApplyTx
    <3> QED BY Zenon, <3>3, <3>4
  <2>6. a.frozen = b.frozen /\ a.global = b.global
    BY Zenon, <2>1, <2>4, <2>5 DEF Ledger
  <2> HIDE DEF a, b
  <2>7. a = b
    BY <2>1, <2>3, <2>6 DEF Ledger
  <2> QED BY Zenon, <2>7 DEF a, b
<1> QED BY Zenon, <1>6, <1>10, <1>11 DEF m, g

(* Two ledgers with the same answers are the same. *)
LEMMA LedgerEqual ==
    ASSUME NEW a \in Ledger, NEW b \in Ledger,
           \A n \in Names : a.meta[n] = b.meta[n],
           \A k \in Key : k \in a.frozen <=> k \in b.frozen,
           \A n \in Names : n \in a.global <=> n \in b.global
    PROVE  a = b
<1>1. a.meta = b.meta
  BY DEF Ledger, MetaMap
<1>2. a.frozen = b.frozen /\ a.global = b.global
  BY Zenon DEF Ledger
<1> QED BY <1>1, <1>2 DEF Ledger

(* The answers of the layers. *)
LEMMA LayeredAnswers ==
    ASSUME NEW l \in Cache, NEW p \in Cache, NEW d \in Ledger
    PROVE  /\ \A n \in Names : Layered(l, p, d).meta[n] = MetaAt(l, p, d, n)
           /\ \A k \in Key : k \in Layered(l, p, d).frozen
                  <=> SwitchedOn(l.restricted, p.restricted, d.frozen, k)
           /\ \A n \in Names : n \in Layered(l, p, d).global
                  <=> SwitchedOn(l.global, p.global, d.global, n)
BY Zenon DEF Layered

(* CAssetsCache::Flush moves the block's records down one layer and        *)
(* changes no answer.                                                      *)
LEMMA FlushLayered ==
    ASSUME NEW l \in Cache, NEW p \in Cache, NEW d \in Ledger, Backed(l, p, d)
    PROVE  /\ Layered(EmptyCache, Flush(l, p), d) = Layered(l, p, d)
           /\ Backed(EmptyCache, Flush(l, p), d)
<1> DEFINE f == Flush(l, p)
<1>1. EmptyCache \in Cache /\ f \in Cache
  BY Zenon, EmptyType, FlushType
<1>2. /\ \A n \in Names : EmptyCache.new[n] = None /\ EmptyCache.reissued[n] = None
      /\ \A k \in Key : EmptyCache.restricted[k] = None
      /\ \A n \in Names : EmptyCache.global[n] = None
  BY Zenon DEF EmptyCache
<1>3. /\ \A n \in Names : /\ f.new[n] = OrElse(p.new[n], l.new[n])
                          /\ f.reissued[n] = OrElse(l.reissued[n], p.reissued[n])
      /\ \A k \in Key : f.restricted[k] = OrElse(l.restricted[k], p.restricted[k])
      /\ \A n \in Names : f.global[n] = OrElse(l.global[n], p.global[n])
  BY Zenon DEF Flush
<1> HIDE DEF f
<1>4. \A n \in Names : MetaAt(EmptyCache, f, d, n) = MetaAt(l, p, d, n)
  BY Zenon, <1>2, <1>3 DEF Backed, MetaAt, OrElse
<1>5. \A k \in Key : SwitchedOn(EmptyCache.restricted, f.restricted, d.frozen, k)
                       <=> SwitchedOn(l.restricted, p.restricted, d.frozen, k)
  BY Zenon, <1>2, <1>3 DEF SwitchedOn, OrElse
<1>6. \A n \in Names : SwitchedOn(EmptyCache.global, f.global, d.global, n)
                         <=> SwitchedOn(l.global, p.global, d.global, n)
  BY Zenon, <1>2, <1>3 DEF SwitchedOn, OrElse
<1>7. Layered(EmptyCache, f, d) = Layered(l, p, d)
  BY Zenon, <1>4, <1>5, <1>6 DEF Layered
<1>8. Backed(EmptyCache, f, d)
  BY <1>2, <1>3 DEF Backed, NameAt, OrElse
<1> QED BY Zenon, <1>7, <1>8 DEF f

(* With the dirty caches empty, lookups read the databases. *)
LEMMA EmptyLayered ==
    ASSUME NEW d \in Ledger
    PROVE  /\ Layered(EmptyCache, EmptyCache, d) = d
           /\ Backed(EmptyCache, EmptyCache, d)
<1>1. EmptyCache \in Cache
  BY Zenon, EmptyType
<1>2. /\ \A n \in Names : EmptyCache.new[n] = None /\ EmptyCache.reissued[n] = None
      /\ \A k \in Key : EmptyCache.restricted[k] = None
      /\ \A n \in Names : EmptyCache.global[n] = None
  BY Zenon DEF EmptyCache
<1>3. Layered(EmptyCache, EmptyCache, d) \in Ledger
  BY Zenon, <1>1, LayeredType
<1>4. \A n \in Names : MetaAt(EmptyCache, EmptyCache, d, n) = d.meta[n]
  BY Zenon, <1>2 DEF MetaAt, OrElse
<1>5. /\ \A k \in Key : SwitchedOn(EmptyCache.restricted, EmptyCache.restricted, d.frozen, k) <=> k \in d.frozen
      /\ \A n \in Names : SwitchedOn(EmptyCache.global, EmptyCache.global, d.global, n) <=> n \in d.global
  BY Zenon, <1>2 DEF SwitchedOn
<1>6. Layered(EmptyCache, EmptyCache, d) = d
  BY <1>1, <1>3, <1>4, <1>5, LayeredAnswers, LedgerEqual
<1> QED BY Zenon, <1>2, <1>6 DEF Backed

(* One write of a dump replaces a database entry by the dirty record that  *)
(* already hides it.                                                       *)
LEMMA DumpWrites ==
    ASSUME TypeOK, NEW ok \in BOOLEAN, Dump(ok)
    PROVE  /\ UNCHANGED <<chain, pending, local, passets, marker, coinsDB, rpos>>
           /\ flush \in {"new", "reissue", "restricted", "global"}
           /\ ok => UNCHANGED <<flush, mode>>
           /\ ~ok => /\ flush' = "idle" /\ db' = db
                     /\ mode' = IF mode = "reindex" THEN "run" ELSE "stopping"
           /\ db' \in Ledger
           /\ \A n \in Names :
                  \/ db'.meta[n] = db.meta[n]
                  \/ flush = "new" /\ passets.new[n] # None /\ db'.meta[n] = passets.new[n]
                  \/ flush = "reissue" /\ passets.reissued[n] # None /\ db'.meta[n] = passets.reissued[n]
           /\ \A k \in Key : passets.restricted[k] = None \/ flush # "restricted" =>
                  (k \in db'.frozen <=> k \in db.frozen)
           /\ \A n \in Names : passets.global[n] = None => (n \in db'.global <=> n \in db.global)
<1>0. TypeOK'
  BY Zenon, DumpType
<1>1. ASSUME NEW n \in Names, DumpNewAsset(n, ok)
      PROVE  /\ UNCHANGED <<chain, pending, local, passets, marker, coinsDB, rpos>>
             /\ flush = "new" /\ passets.new[n] # None
             /\ ok => UNCHANGED <<flush, mode>>
             /\ ~ok => /\ flush' = "idle" /\ db' = db
                       /\ mode' = IF mode = "reindex" THEN "run" ELSE "stopping"
             /\ db' = db \/ db' = [db EXCEPT !.meta[n] = passets.new[n]]
  BY Zenon, <1>1 DEF DumpNewAsset, NewPending, DumpFails
<1>2. ASSUME NEW n \in Names, DumpReissue(n, ok)
      PROVE  /\ UNCHANGED <<chain, pending, local, passets, marker, coinsDB, rpos>>
             /\ flush = "reissue" /\ passets.reissued[n] # None
             /\ ok => UNCHANGED <<flush, mode>>
             /\ ~ok => /\ flush' = "idle" /\ db' = db
                       /\ mode' = IF mode = "reindex" THEN "run" ELSE "stopping"
             /\ db' = db \/ db' = [db EXCEPT !.meta[n] = passets.reissued[n]]
  BY Zenon, <1>2 DEF DumpReissue, ReissuePending, DumpFails
<1>3. ASSUME NEW k \in Key, DumpRestricted(k, ok)
      PROVE  /\ UNCHANGED <<chain, pending, local, passets, marker, coinsDB, rpos>>
             /\ flush = "restricted" /\ passets.restricted[k] # None
             /\ ok => UNCHANGED <<flush, mode>>
             /\ ~ok => /\ flush' = "idle" /\ db' = db
                       /\ mode' = IF mode = "reindex" THEN "run" ELSE "stopping"
             /\ db' = db \/ db' = [db EXCEPT !.frozen = Switch(@, k, passets.restricted[k])]
  BY Zenon, <1>3, NoneAssumption DEF DumpRestricted, RestrictedPending, DumpFails, RestrictedType
<1>4. ASSUME NEW n \in Names, DumpGlobal(n, ok)
      PROVE  /\ UNCHANGED <<chain, pending, local, passets, marker, coinsDB, rpos>>
             /\ flush = "global" /\ passets.global[n] # None
             /\ ok => UNCHANGED <<flush, mode>>
             /\ ~ok => /\ flush' = "idle" /\ db' = db
                       /\ mode' = IF mode = "reindex" THEN "run" ELSE "stopping"
             /\ db' = db \/ db' = [db EXCEPT !.global = Switch(@, n, passets.global[n])]
  BY Zenon, <1>4, NoneAssumption DEF DumpGlobal, GlobalPending, DumpFails, RestrictedType
<1>5. db \in Ledger /\ db' \in Ledger /\ db.meta \in MetaMap
  BY Zenon, <1>0 DEF TypeOK, Ledger
<1>6. CASE \E n \in Names : DumpNewAsset(n, ok)
  BY <1>1, <1>5, <1>6 DEF Ledger, MetaMap
<1>7. CASE \E n \in Names : DumpReissue(n, ok)
  BY <1>2, <1>5, <1>7 DEF Ledger, MetaMap
<1>8. CASE \E k \in Key : DumpRestricted(k, ok)
  BY <1>3, <1>5, <1>8 DEF Ledger, Switch
<1>9. CASE \E n \in Names : DumpGlobal(n, ok)
  BY <1>4, <1>5, <1>9 DEF Ledger, Switch
<1> QED BY Zenon, <1>6, <1>7, <1>8, <1>9 DEF Dump

(* So no answer changes. *)
LEMMA DumpLayered ==
    ASSUME TypeOK, NEW ok \in BOOLEAN, Dump(ok), local = EmptyCache, Backed(local, passets, db)
    PROVE  /\ Layered(EmptyCache, passets, db') = Layered(EmptyCache, passets, db)
           /\ Backed(local, passets, db)'
           /\ \A n \in Names : db.meta[n] # None => db'.meta[n] # None
           /\ passets = EmptyCache => db' = db
<1>1. /\ EmptyCache \in Cache /\ passets \in Cache /\ db \in Ledger /\ db' \in Ledger
      /\ UNCHANGED <<local, passets>>
  BY Zenon, EmptyType, DumpWrites DEF TypeOK
<1>2. /\ \A n \in Names : EmptyCache.new[n] = None /\ EmptyCache.reissued[n] = None
      /\ \A k \in Key : EmptyCache.restricted[k] = None
      /\ \A n \in Names : EmptyCache.global[n] = None
  BY Zenon DEF EmptyCache
<1>3. \A n \in Names :
         \/ db'.meta[n] = db.meta[n]
         \/ passets.new[n] # None /\ db'.meta[n] = passets.new[n]
         \/ passets.reissued[n] # None /\ db'.meta[n] = passets.reissued[n]
  BY Zenon, DumpWrites
<1>4. \A n \in Names : MetaAt(EmptyCache, passets, db', n) = MetaAt(EmptyCache, passets, db, n)
  BY Zenon, <1>2, <1>3 DEF MetaAt, OrElse
<1>5. \A k \in Key : SwitchedOn(EmptyCache.restricted, passets.restricted, db'.frozen, k)
                       <=> SwitchedOn(EmptyCache.restricted, passets.restricted, db.frozen, k)
  BY Zenon, DumpWrites DEF SwitchedOn
<1>6. \A n \in Names : SwitchedOn(EmptyCache.global, passets.global, db'.global, n)
                         <=> SwitchedOn(EmptyCache.global, passets.global, db.global, n)
  BY Zenon, DumpWrites DEF SwitchedOn
<1>7. Layered(EmptyCache, passets, db') = Layered(EmptyCache, passets, db)
  BY Zenon, <1>4, <1>5, <1>6 DEF Layered
<1>8. \A n \in Names : db.meta[n] # None => db'.meta[n] # None
  BY Zenon, <1>3
<1>9. Backed(local, passets, db)'
  BY Zenon, <1>1, <1>2, <1>8 DEF Backed, NameAt
<1>10. passets = EmptyCache => db' = db
  BY Zenon, <1>1, <1>7, EmptyLayered
<1> QED BY Zenon, <1>7, <1>8, <1>9, <1>10

(* At the end of a dump the databases answer as the layers did. *)
LEMMA DumpedLayered ==
    ASSUME TypeOK, Dumped, DumpDone
    PROVE  Layered(EmptyCache, passets, db) = db
<1>1. EmptyCache \in Cache /\ passets \in Cache /\ db \in Ledger
  BY Zenon, EmptyType DEF TypeOK
<1>2. /\ \A n \in Names : EmptyCache.new[n] = None /\ EmptyCache.reissued[n] = None
      /\ \A k \in Key : EmptyCache.restricted[k] = None
      /\ \A n \in Names : EmptyCache.global[n] = None
  BY Zenon DEF EmptyCache
<1>3. \A n \in Names : MetaAt(EmptyCache, passets, db, n) = db.meta[n]
  BY Zenon, <1>2 DEF Dumped, DumpDone, MetaAt, OrElse
<1>4. \A k \in Key : SwitchedOn(EmptyCache.restricted, passets.restricted, db.frozen, k) <=> k \in db.frozen
  BY Zenon, <1>2 DEF Dumped, DumpDone, SwitchedOn
<1>5. \A n \in Names : SwitchedOn(EmptyCache.global, passets.global, db.global, n) <=> n \in db.global
  <2>1. \A n \in Names : passets.global[n] \in {"FREEZE", "UNFREEZE", None}
    BY Zenon, <1>1 DEF Cache, RestrictedType
  <2> QED BY Zenon, <1>2, <2>1, NoneAssumption DEF DumpDone, GlobalPending, SwitchedOn
<1>6. Layered(EmptyCache, passets, db) \in Ledger
  BY Zenon, <1>1, LayeredType
<1> QED BY <1>1, <1>3, <1>4, <1>5, <1>6, LayeredAnswers, LedgerEqual

-----------------------------------------------------------------------------
(* Chains *)

(* The genesis chain is valid. *)
LEMMA GenesisValid == Valid(Genesis) /\ LedgerOf(Genesis) = EmptyLedger
BY EmptyType DEF Valid, Genesis, LedgerOf

(* An earlier tip of a valid chain is a valid chain. *)
LEMMA PrefixValid ==
    ASSUME NEW c \in Chain, Valid(c), NEW k \in 1..Len(c)
    PROVE  /\ Valid(SubSeq(c, 1, k))
           /\ LedgerOf(SubSeq(c, 1, k)) = c[k].led
<1> DEFINE s == SubSeq(c, 1, k)
<1>1. Len(s) = k /\ \A i \in 1..k : s[i] = c[i]
  BY SubSeqProperties DEF Chain
<1>2. Len(c) \in Nat
  BY Zenon, ChainLemma
<1> HIDE DEF s
<1>3. \A i \in 2..k : i \in 2..Len(c) /\ i - 1 \in 1..k /\ i \in 1..k
  BY <1>2
<1>4. \A i \in 2..k : Follows(s[i - 1].led, s[i])
  BY Zenon, <1>1, <1>3 DEF Valid
<1>5. k > 0 /\ 1 \in 1..k
  BY <1>2
<1> QED BY <1>1, <1>4, <1>5 DEF Valid, LedgerOf, s

(* The opening of a block. *)
LEMMA OpenValid ==
    ASSUME NEW led \in Ledger
    PROVE  LET b == <<[tx |-> Coinbase, led |-> led]>>
           IN  ValidBlock(led, b) /\ LedgerOf(b) = led /\ b # <<>>
BY DEF ValidBlock, LedgerOf

(* One more transaction in a block. *)
LEMMA AppendValid ==
    ASSUME NEW led, NEW b \in Chain, b # <<>>, ValidBlock(led, b),
           NEW e \in Entry, Follows(LedgerOf(b), e)
    PROVE  /\ ValidBlock(led, Append(b, e))
           /\ LedgerOf(Append(b, e)) = e.led
           /\ Append(b, e) # <<>>
<1> DEFINE s == Append(b, e)
           n == Len(b)
<1>1. n \in Nat /\ n > 0
  BY Zenon, ChainLemma
<1>2. /\ Len(s) = n + 1 /\ s[n + 1] = e /\ s # <<>>
      /\ \A i \in 1..n : s[i] = b[i]
  BY AppendProperties DEF Chain
<1> HIDE DEF s, n
<1>3. \A i \in 2..(n + 1) : Follows(s[i - 1].led, s[i])
  <2> TAKE i \in 2..(n + 1)
  <2>1. CASE i = n + 1
    <3>1. i - 1 = n /\ n \in 1..n
      BY <1>1, <2>1
    <3> QED BY Zenon, <1>2, <2>1, <3>1 DEF LedgerOf, n
  <2>2. CASE i # n + 1
    <3>1. i \in 2..n /\ i \in 1..n /\ i - 1 \in 1..n
      BY <1>1, <2>2
    <3> QED BY Zenon, <1>2, <3>1 DEF ValidBlock, n
  <2> QED BY Zenon, <2>1, <2>2
<1>4. 1 \in 1..n
  BY <1>1
<1> QED BY Zenon, <1>2, <1>3, <1>4 DEF ValidBlock, LedgerOf, s

(* A finished block extends its chain. *)
LEMMA ConcatValid ==
    ASSUME NEW c \in Chain, NEW b \in Chain, Valid(c), b # <<>>, ValidBlock(LedgerOf(c), b)
    PROVE  /\ Valid(c \o b)
           /\ LedgerOf(c \o b) = LedgerOf(b)
           /\ Len(c \o b) > Len(c)
<1> DEFINE s == c \o b
           m == Len(c)
           n == Len(b)
<1>1. m \in Nat /\ n \in Nat /\ n > 0 /\ m > 0
  BY Zenon, ChainLemma DEF Valid
<1>2. /\ Len(s) = m + n
      /\ \A i \in 1..m : s[i] = c[i]
      /\ \A i \in (m + 1)..(m + n) : s[i] = b[i - m]
  <2>1. c \in Seq(Entry) /\ b \in Seq(Entry)
    BY Zenon DEF Chain
  <2> QED BY <1>1, <2>1
<1> HIDE DEF s, m, n
<1>3. \A i \in 2..(m + n) : Follows(s[i - 1].led, s[i])
  <2> TAKE i \in 2..(m + n)
  <2>1. CASE i <= m
    <3>1. i \in 2..m /\ i \in 1..m /\ i - 1 \in 1..m
      BY <1>1, <2>1
    <3> QED BY Zenon, <1>2, <3>1 DEF Valid, m
  <2>2. CASE i = m + 1
    <3>1. i - 1 = m /\ m \in 1..m /\ i \in (m + 1)..(m + n) /\ i - m = 1
      BY <1>1, <2>2
    <3>2. s[i - 1].led = LedgerOf(c) /\ s[i] = b[1]
      BY Zenon, <1>2, <3>1 DEF LedgerOf, m
    <3> QED BY Zenon, <3>2 DEF ValidBlock, Follows
  <2>3. CASE i > m + 1
    <3>1. i \in (m + 1)..(m + n) /\ i - 1 \in (m + 1)..(m + n) /\ i - m \in 2..n /\ (i - 1) - m = (i - m) - 1
      BY <1>1, <2>3
    <3>2. s[i - 1] = b[(i - m) - 1] /\ s[i] = b[i - m]
      BY Zenon, <1>2, <3>1
    <3> QED BY Zenon, <3>1, <3>2 DEF ValidBlock, n
  <2> QED BY <1>1, <2>1, <2>2, <2>3
<1>4. 1 \in 1..m /\ m + n > 0 /\ m + n \in (m + 1)..(m + n) /\ (m + n) - m = n /\ m + n > m
  BY <1>1
<1>5. Valid(s)
  BY Zenon, <1>2, <1>3, <1>4 DEF Valid, m
<1>6. LedgerOf(s) = LedgerOf(b)
  BY Zenon, <1>2, <1>4 DEF LedgerOf, n
<1> QED BY Zenon, <1>2, <1>4, <1>5, <1>6 DEF s, m

(* A transaction takes no asset out of a ledger. *)
LEMMA ApplyKeeps ==
    ASSUME NEW led \in Ledger, NEW tx \in Txs
    PROVE  /\ ApplyTx(led, tx) \in Ledger
           /\ \A n \in Names : ApplyTx(led, tx).meta[n] =
                  IF n = tx.name /\ tx.op = "issue" THEN tx.meta
                  ELSE IF n = tx.name /\ tx.op = "reissue" /\ led.meta[n] # None
                  THEN Reissued(led.meta[n], tx) ELSE led.meta[n]
           /\ Covers(ApplyTx(led, tx).meta, led)
<1>1. ApplyTx(led, tx) \in Ledger
  BY Zenon, ApplyTxType
<1>2. \A n \in Names : ApplyTx(led, tx).meta[n] =
        IF n = tx.name /\ tx.op = "issue" THEN tx.meta
        ELSE IF n = tx.name /\ tx.op = "reissue" /\ led.meta[n] # None
        THEN Reissued(led.meta[n], tx) ELSE led.meta[n]
  BY Zenon, TxLemma DEF ApplyTx, Ledger, MetaMap
<1>3. tx.op = "issue" => tx.meta # None
  BY Zenon, TxLemma, NoneAssumption
<1>4. \A n \in Names : tx.op = "reissue" /\ led.meta[n] # None => Reissued(led.meta[n], tx) # None
  <2> TAKE n \in Names
  <2>1. led.meta[n] \in Meta \cup {None}
    BY Zenon DEF Ledger, MetaMap
  <2> QED BY Zenon, <2>1, TxLemma, ReissuedLemma, NoneAssumption
<1> QED BY Zenon, <1>1, <1>2, <1>3, <1>4 DEF Covers

(* Applied on both sides, it keeps one ledger covering another. *)
LEMMA ApplyCovers ==
    ASSUME NEW a \in Ledger, NEW b \in Ledger, NEW tx \in Txs, Covers(a.meta, b)
    PROVE  Covers(ApplyTx(a, tx).meta, ApplyTx(b, tx))
<1>1. \A n \in Names : n = tx.name /\ tx.op = "issue" => ApplyTx(a, tx).meta[n] # None
  BY ApplyKeeps, TxLemma, NoneAssumption
<1>2. \A n \in Names : a.meta[n] # None => ApplyTx(a, tx).meta[n] # None
  BY Zenon, ApplyKeeps DEF Covers
<1>3. \A n \in Names : ~(n = tx.name /\ tx.op = "issue") /\ ApplyTx(b, tx).meta[n] # None => b.meta[n] # None
  BY Zenon, ApplyKeeps
<1> QED BY Zenon, <1>1, <1>2, <1>3 DEF Covers

(* A valid chain never loses an asset. *)
LEMMA ValidKeeps ==
    ASSUME NEW c \in Chain, Valid(c), NEW k \in 1..Len(c)
    PROVE  Covers(LedgerOf(c).meta, c[k].led)
<1>0. Len(c) \in Nat /\ \A i \in 1..Len(c) : c[i].tx \in Txs \cup {Coinbase} /\ c[i].led \in Ledger
  BY Zenon, ChainLemma
<1> DEFINE T == {j \in Nat : j \in k..Len(c) /\ ~Covers(c[j].led.meta, c[k].led)}
<1> SUFFICES ASSUME T # {} PROVE FALSE
  <2>1. Len(c) \in Nat /\ Len(c) \in k..Len(c)
    BY <1>0
  <2> QED BY Zenon, <2>1 DEF LedgerOf
<1>1. T \subseteq Nat
  BY Zenon
<1> HIDE DEF T
<1>2. PICK j \in T : \A i \in T : ~(<<i, j>> \in OpToRel(<, Nat))
  BY Zenon, <1>1, WFMin, NatLessThanWellFounded
<1>3. \A i \in T : ~(i < j)
  BY Zenon, <1>1, <1>2 DEF OpToRel
<1>4. j \in Nat /\ j \in k..Len(c) /\ ~Covers(c[j].led.meta, c[k].led)
  BY Zenon DEF T
<1>5. j # k
  BY Zenon, <1>4 DEF Covers
<1>6. j \in 2..Len(c) /\ j \in 1..Len(c) /\ j - 1 \in Nat /\ j - 1 \in 1..Len(c) /\ j - 1 \in k..Len(c) /\ j - 1 < j
  BY <1>0, <1>4, <1>5
<1>7. Covers(c[j - 1].led.meta, c[k].led)
  BY Zenon, <1>3, <1>6 DEF T
<1>8. Covers(c[j].led.meta, c[j - 1].led)
  <2>1. Follows(c[j - 1].led, c[j])
    BY Zenon, <1>6 DEF Valid
  <2>2. CASE c[j].tx = Coinbase
    BY Zenon, <2>1, <2>2 DEF Follows, Covers
  <2>3. CASE c[j].tx # Coinbase
    <3>1. c[j].tx \in Txs /\ c[j - 1].led \in Ledger /\ c[j].led = ApplyTx(c[j - 1].led, c[j].tx)
      BY Zenon, <1>0, <1>6, <2>1, <2>3 DEF Follows
    <3> QED BY Zenon, <3>1, ApplyKeeps
  <2> QED BY Zenon, <2>2, <2>3
<1> QED BY Zenon, <1>4, <1>7, <1>8 DEF Covers

(* Dropping the block's cache leaves the layers below well backed. *)
LEMMA DropBacked ==
    ASSUME NEW l, NEW p, NEW d, Backed(l, p, d)
    PROVE  Backed(EmptyCache, p, d)
<1>1. \A n \in Names : EmptyCache.new[n] = None /\ EmptyCache.reissued[n] = None
  BY Zenon DEF EmptyCache
<1> QED BY Zenon, <1>1 DEF Backed

-----------------------------------------------------------------------------
(* The steps *)

(* The LRU caches are not part of the invariant about the layers. *)
LEMMA StoreUnchanged ==
    ASSUME Store, UNCHANGED <<chain, pending, local, passets, db, marker, coinsDB, mode, flush, rpos>>
    PROVE  Store'
BY DEF Store, Backed, NameAt, ValidChains, Covered, Phases, Dumped

(* ConnectBlock, up to the end of ConnectTip. *)
LEMMA StoreBegin ==
    ASSUME RInv, mode = "run", BeginBlock
    PROVE  Store'
<1> DEFINE led == LedgerOf(chain)
<1>0. /\ pending' = <<[tx |-> Coinbase, led |-> led]>> /\ local' = EmptyCache
      /\ UNCHANGED <<chain, passets, db, marker, coinsDB, mode, flush, rpos>>
      /\ flush = "idle" /\ pending = <<>> /\ local = EmptyCache
  BY Zenon DEF BeginBlock, Idle, disk, RInv, LruInv, Quiet
<1>1. led \in Ledger
  BY Zenon, LedgerOfType, ChainLemma DEF RInv, LruInv, TypeOK
<1> HIDE DEF led
<1>2. ValidBlock(led, pending') /\ LedgerOf(pending') = led /\ pending' # <<>>
  BY Zenon, <1>0, <1>1, OpenValid
<1>3. ValidChains'
  BY Zenon, <1>0, <1>2 DEF RInv, Store, ValidChains, led
<1>4. Covered'
  BY Zenon, <1>0, <1>2 DEF RInv, Store, Covered, led
<1>5. Backed(local, passets, db)'
  BY Zenon, <1>0 DEF RInv, Store, Backed, NameAt
<1>6. Phases' /\ Dumped'
  BY Zenon, <1>0 DEF RInv, Store, Phases, Dumped
<1> QED BY Zenon, <1>3, <1>4, <1>5, <1>6 DEF Store

(* A name that a transaction may issue is not in the ledger of the block   *)
(* so far: the lookups see at least the names of the ledger.               *)
LEMMA IssueIsNew ==
    ASSUME RInv, pending # <<>>, NEW tx \in Txs, CheckTxAssets(SeenBy(local), tx), tx.op = "issue"
    PROVE  /\ MetaAt(local, passets, db, tx.name) = None
           /\ LedgerOf(pending).meta[tx.name] = None
<1>0. /\ local \in Cache /\ passets \in Cache /\ db \in Ledger /\ tx.name \in Names
      /\ TypeOK /\ LruCoherent /\ Backed(local, passets, db)
  BY Zenon, TxLemma DEF RInv, LruInv, Store, TypeOK
<1>1. ~CheckIfAssetExists(local, tx.name)
  BY Zenon, <1>0 DEF CheckTxAssets, ContextualCheckNewAsset, SeenBy
<1>2. MetaAt(local, passets, db, tx.name) = None
  BY Zenon, <1>0, <1>1, LookupLayered, NameIffMeta
<1>3. Layered(local, passets, db).meta[tx.name] = None
  BY Zenon, <1>0, <1>2, LayeredAnswers
<1> QED BY Zenon, <1>0, <1>2, <1>3 DEF RInv, Store, Covered, Covers

(* A transaction that its checks accept goes into the cache of the block. *)
LEMMA StoreConnect ==
    ASSUME RInv, NEW tx \in Txs, ConnectTx(tx)
    PROVE  Store'
<1> DEFINE led == LedgerOf(pending)
           e == [tx |-> tx, led |-> ApplyTx(led, tx)]
<1>0. /\ pending # <<>> /\ CheckTxAssets(SeenBy(local), tx)
      /\ local' = Mutate(local, tx) /\ pending' = Append(pending, e)
      /\ UNCHANGED <<chain, passets, db, marker, coinsDB, mode, flush, rpos>>
  BY Zenon DEF ConnectTx, disk
<1>1. /\ TypeOK /\ LruCoherent /\ Backed(local, passets, db)
      /\ local \in Cache /\ passets \in Cache /\ db \in Ledger /\ pending \in Chain
      /\ mode = "run" /\ flush = "idle"
  BY Zenon, <1>0 DEF RInv, LruInv, Store, TypeOK, Phases, Quiet
<1>2. led \in Ledger
  BY Zenon, <1>0, <1>1, LedgerOfType
<1>3. e \in Entry
  BY Zenon, <1>2, ApplyTxType DEF Entry
<1>4. tx.op = "issue" => MetaAt(local, passets, db, tx.name) = None /\ led.meta[tx.name] = None
  BY Zenon, <1>0, IssueIsNew
<1> HIDE DEF led
<1>5. e.tx = tx /\ e.led = ApplyTx(led, tx) /\ tx # Coinbase
  BY TxLemma DEF Coinbase
<1> HIDE DEF e
<1>6. Follows(led, e)
  BY Zenon, <1>4, <1>5 DEF Follows
<1>7. /\ ValidBlock(LedgerOf(chain), pending')
      /\ LedgerOf(pending') = ApplyTx(led, tx) /\ pending' # <<>>
  BY Zenon, <1>0, <1>1, <1>3, <1>5, <1>6, AppendValid DEF RInv, Store, ValidChains, led
<1>8. ValidChains'
  BY Zenon, <1>0, <1>7 DEF RInv, Store, ValidChains
<1>9. Layered(local', passets, db) = ApplyTx(Layered(local, passets, db), tx) /\ Backed(local', passets, db)
  <2>1. tx.op = "issue" => MetaAt(local, passets, db, tx.name) = None
    BY Zenon, <1>4
  <2> QED BY Zenon, <1>0, <1>1, <2>1, MutateLayered
<1>10. Covers(Layered(local', passets, db).meta, ApplyTx(led, tx))
  <2>1. Covers(Layered(local, passets, db).meta, led) /\ Layered(local, passets, db) \in Ledger
    BY Zenon, <1>0, <1>1, LayeredType DEF RInv, Store, Covered, led
  <2> QED BY Zenon, <1>2, <1>9, <2>1, ApplyCovers
<1>11. Covered'
  BY Zenon, <1>0, <1>7, <1>10 DEF RInv, Store, Covered
<1>12. Backed(local, passets, db)'
  BY Zenon, <1>0, <1>9 DEF Backed, NameAt
<1>13. Phases' /\ Dumped'
  BY Zenon, <1>0, <1>1 DEF RInv, Store, Phases, Dumped
<1> QED BY Zenon, <1>8, <1>11, <1>12, <1>13 DEF Store

(* An invalid block drops its cache and leaves the layers alone. *)
LEMMA StoreReject ==
    ASSUME RInv, NEW tx \in Txs, RejectBlock(tx)
    PROVE  Store'
<1>0. /\ pending # <<>> /\ pending' = <<>> /\ local' = EmptyCache
      /\ UNCHANGED <<chain, passets, db, marker, coinsDB, mode, flush, rpos>>
      /\ mode = "run"
  BY Zenon DEF RejectBlock, disk, RInv, Store, Phases
<1>1. Backed(EmptyCache, passets, db)
  BY Zenon, DropBacked DEF RInv, Store
<1>2. Backed(local, passets, db)'
  BY Zenon, <1>0, <1>1 DEF Backed, NameAt
<1> QED BY Zenon, <1>0, <1>2 DEF RInv, Store, ValidChains, Covered, Phases, Dumped

(* A lookup between blocks can only change the LRU caches. *)
LEMMA StorePreChecks ==
    ASSUME RInv, NEW tx \in Txs, PreChecks(tx)
    PROVE  Store'
BY Zenon, StoreUnchanged DEF RInv, PreChecks, disk

(* The cache of a finished block moves up into passets. *)
LEMMA StoreFinish ==
    ASSUME RInv, FinishBlock
    PROVE  Store'
<1>0. /\ pending # <<>> /\ pending' = <<>> /\ local' = EmptyCache
      /\ chain' = chain \o pending /\ passets' = Flush(local, passets)
      /\ UNCHANGED <<db, marker, coinsDB, mode, flush, rpos>>
      /\ mode = "run" /\ flush = "idle"
  BY Zenon DEF FinishBlock, disk, RInv, LruInv, Quiet, Store, Phases
<1>1. /\ local \in Cache /\ passets \in Cache /\ db \in Ledger /\ Backed(local, passets, db)
      /\ chain \in Chain /\ pending \in Chain
      /\ Valid(chain) /\ ValidBlock(LedgerOf(chain), pending)
  BY Zenon, <1>0 DEF RInv, LruInv, Store, TypeOK, ValidChains
<1>2. Valid(chain') /\ LedgerOf(chain') = LedgerOf(pending)
  BY Zenon, <1>0, <1>1, ConcatValid
<1>3. /\ Layered(EmptyCache, passets', db) = Layered(local, passets, db)
      /\ Backed(EmptyCache, passets', db)
  BY Zenon, <1>0, <1>1, FlushLayered
<1>4. ValidChains'
  BY Zenon, <1>0, <1>2 DEF RInv, Store, ValidChains
<1>5. Covered'
  BY Zenon, <1>0, <1>2, <1>3 DEF RInv, Store, Covered
<1>6. Backed(local, passets, db)'
  BY Zenon, <1>0, <1>3 DEF Backed, NameAt
<1>7. Phases' /\ Dumped'
  BY Zenon, <1>0 DEF RInv, Store, Phases, Dumped
<1> QED BY Zenon, <1>4, <1>5, <1>6, <1>7 DEF Store

(* DisconnectTip leaves the layers as they are and the chain a shorter     *)
(* one, whose assets are all assets of the longer one.                     *)
LEMMA StoreDisconnect ==
    ASSUME RInv, DisconnectTip
    PROVE  Store'
<1>0. /\ mode = "run" /\ flush = "idle" /\ pending = <<>>
      /\ passets' = Flush(EmptyCache, passets)
      /\ UNCHANGED <<pending, local, db, marker, coinsDB, mode, flush, rpos>>
  BY Zenon DEF DisconnectTip, Idle, disk
<1>1. /\ passets \in Cache /\ chain \in Chain /\ Valid(chain) /\ Len(chain) \in Nat
  BY Zenon, ChainLemma DEF RInv, LruInv, Store, TypeOK, ValidChains
<1>2. Flush(EmptyCache, passets) = passets
  BY Zenon, <1>1 DEF Flush, OrElse, EmptyCache, Cache, MetaMap
<1>3. PICK k \in 2..Len(chain) : chain' = SubSeq(chain, 1, k - 1)
  BY Zenon DEF DisconnectTip
<1>4. k - 1 \in 1..Len(chain)
  BY <1>1
<1>5. Valid(chain') /\ Covers(LedgerOf(chain).meta, LedgerOf(chain'))
  BY Zenon, <1>1, <1>3, <1>4, PrefixValid, ValidKeeps
<1>6. ValidChains'
  BY Zenon, <1>0, <1>5 DEF RInv, Store, ValidChains
<1>7. Covered'
  BY Zenon, <1>0, <1>2, <1>5 DEF RInv, Store, Covered, Covers
<1>8. Backed(local, passets, db)'
  BY Zenon, <1>0, <1>2 DEF RInv, Store, Backed, NameAt
<1>9. Phases' /\ Dumped'
  BY Zenon, <1>0 DEF RInv, Store, Phases, Dumped
<1> QED BY Zenon, <1>6, <1>7, <1>8, <1>9 DEF Store

(* FlushStateToDisk. *)
LEMMA StoreFlushCoins ==
    ASSUME RInv, mode # "import", FlushCoins
    PROVE  Store'
<1>0. /\ mode \in {"run", "stopping"} /\ pending = <<>> /\ coinsDB' = chain /\ flush' = "new"
      /\ UNCHANGED <<chain, pending, local, passets, db, marker, mode, rpos>>
  BY Zenon DEF FlushCoins, Idle
<1> QED BY Zenon, <1>0 DEF RInv, Store, Backed, NameAt, ValidChains, Covered, Phases, Dumped

(* Whether one record is written or refused, the layers answer as before. *)
LEMMA StoreDump ==
    ASSUME RInv, NEW ok \in BOOLEAN, Dump(ok), ok \/ (mode = "reindex" => rpos = Len(chain))
    PROVE  Store'
<1>0. /\ UNCHANGED <<chain, pending, local, passets, marker, coinsDB, rpos>>
      /\ flush \in {"new", "reissue", "restricted", "global"}
      /\ ok => UNCHANGED <<flush, mode>>
      /\ ~ok => /\ flush' = "idle" /\ db' = db
                /\ mode' = IF mode = "reindex" THEN "run" ELSE "stopping"
      /\ TypeOK
  BY Zenon, DumpWrites DEF RInv, LruInv
<1>1. local = EmptyCache /\ mode \notin {"down", "import"} /\ pending = <<>> /\ Backed(local, passets, db)
  BY Zenon, <1>0 DEF RInv, LruInv, Quiet, Store, Phases
<1>2. /\ Layered(EmptyCache, passets, db') = Layered(EmptyCache, passets, db)
      /\ Backed(local, passets, db)'
      /\ \A n \in Names : db.meta[n] # None => db'.meta[n] # None
  BY Zenon, <1>0, <1>1, DumpLayered
<1>3. ValidChains'
  BY Zenon, <1>0 DEF RInv, Store, ValidChains
<1>4. mode = "reindex" => Layered(EmptyCache, passets, db) = chain[rpos].led
  BY Zenon, <1>1 DEF RInv, Store, Phases
<1>5. mode' \in {"run", "stopping"} => Covers(Layered(EmptyCache, passets, db).meta, LedgerOf(chain))
  <2>1. CASE mode = "reindex" /\ ~ok
    BY Zenon, <1>4, <2>1 DEF LedgerOf, Covers
  <2>2. CASE mode \in {"run", "stopping"}
    BY Zenon, <2>2 DEF RInv, Store, Covered
  <2> QED BY Zenon, <1>0, <1>1, <2>1, <2>2 DEF TypeOK
<1>6. Covered'
  BY Zenon, <1>0, <1>1, <1>2, <1>5 DEF RInv, Store, Covered, Covers
<1>7. Phases'
  BY Zenon, <1>0, <1>1, <1>2, <1>4 DEF RInv, Store, Phases, TypeOK
<1>8. Dumped'
  <2>1. CASE ~ok
    BY Zenon, <1>0, <2>1 DEF Dumped
  <2>2. CASE ok
    <3>0. flush' = flush /\ passets' = passets
      BY Zenon, <1>0, <2>2
    <3>1. flush = "reissue" => \A n \in Names : passets.new[n] # None =>
               \/ db'.meta[n] = passets.new[n]
               \/ passets.reissued[n] # None /\ db'.meta[n] = passets.reissued[n]
      BY Zenon, DumpWrites, <1>0 DEF RInv, Store, Dumped
    <3>2. flush \in {"restricted", "global"} => \A n \in Names : db'.meta[n] = db.meta[n]
      BY Zenon, DumpWrites, <1>0
    <3>3. flush = "global" => \A k \in Key : k \in db'.frozen <=> k \in db.frozen
      BY Zenon, DumpWrites, <1>0
    <3> QED BY Zenon, <1>0, <3>0, <3>1, <3>2, <3>3 DEF RInv, Store, Dumped
  <2> QED BY Zenon, <2>1, <2>2
<1> QED BY Zenon, <1>2, <1>3, <1>6, <1>7, <1>8 DEF Store

(* The next set of the dump starts when the last one is on disk. *)
LEMMA StoreDumpNext ==
    ASSUME RInv, DumpNext
    PROVE  Store'
<1>0. /\ UNCHANGED <<chain, pending, local, passets, db, marker, coinsDB, mode, rpos>>
      /\ flush # "idle" /\ flush' \in {"reissue", "restricted", "global"}
  BY Zenon DEF DumpNext, disk
<1>1. Backed(local, passets, db)' /\ ValidChains' /\ Covered'
  BY Zenon, <1>0 DEF RInv, Store, Backed, NameAt, ValidChains, Covered
<1>2. Phases'
  BY Zenon, <1>0 DEF RInv, Store, Phases
<1>3. Dumped'
  <2>1. CASE flush = "new"
    <3>1. flush' = "reissue" /\ \A n \in Names : ~NewPending(n)
      BY Zenon, <2>1 DEF DumpNext
    <3> QED BY Zenon, <1>0, <3>1 DEF NewPending, Dumped
  <2>2. CASE flush = "reissue"
    <3>1. flush' = "restricted" /\ \A n \in Names : ~ReissuePending(n)
      BY Zenon, <2>2 DEF DumpNext
    <3> QED BY Zenon, <1>0, <2>2, <3>1 DEF ReissuePending, RInv, Store, Dumped
  <2>3. CASE flush = "restricted"
    <3>1. flush' = "global" /\ \A k \in Key : ~RestrictedPending(k)
      BY Zenon, <2>3 DEF DumpNext
    <3>2. \A k \in Key : passets.restricted[k] \in {"FREEZE", "UNFREEZE", None}
      BY Zenon DEF RInv, LruInv, TypeOK, Cache, RestrictedType
    <3>3. \A k \in Key : passets.restricted[k] # None => (passets.restricted[k] = "FREEZE" <=> k \in db.frozen)
      BY Zenon, <3>1, <3>2 DEF RestrictedPending
    <3> QED BY Zenon, <1>0, <2>3, <3>1, <3>3 DEF RInv, Store, Dumped
  <2> QED BY Zenon, <2>1, <2>2, <2>3 DEF DumpNext
<1> QED BY Zenon, <1>1, <1>2, <1>3 DEF Store

(* A full dump clears passets, with every record of it on disk. *)
LEMMA StoreDumpDone ==
    ASSUME RInv, DumpDone
    PROVE  Store'
<1>0. /\ UNCHANGED <<chain, pending, local, db, marker, coinsDB, mode, rpos>>
      /\ passets' = EmptyCache /\ flush = "global"
      /\ flush' = IF mode = "reindex" /\ rpos < Len(chain) THEN "idle" ELSE "marker"
  BY Zenon DEF DumpDone, disk
<1>1. /\ local = EmptyCache /\ pending = <<>> /\ mode \notin {"down", "import"} /\ db \in Ledger
      /\ TypeOK /\ Dumped
  BY Zenon, <1>0 DEF RInv, LruInv, Quiet, Store, Phases, TypeOK
<1>2. /\ Layered(EmptyCache, passets, db) = db /\ Layered(EmptyCache, EmptyCache, db) = db
      /\ Backed(EmptyCache, EmptyCache, db)
  BY Zenon, <1>1, DumpedLayered, EmptyLayered
<1>3. Backed(local, passets, db)' /\ ValidChains'
  BY Zenon, <1>0, <1>1, <1>2 DEF RInv, Store, Backed, NameAt, ValidChains
<1>4. Covered'
  BY Zenon, <1>0, <1>1, <1>2 DEF RInv, Store, Covered
<1>5. mode = "reindex" /\ flush' = "marker" => rpos = Len(chain)
  BY <1>0, <1>1, ChainLemma DEF TypeOK
<1>6. Phases'
  BY Zenon, <1>0, <1>1, <1>2, <1>5 DEF RInv, Store, Phases
<1>7. Dumped'
  BY Zenon, <1>0 DEF Dumped
<1> QED BY Zenon, <1>3, <1>4, <1>6, <1>7 DEF Store

(* The marker ends a dump, and a rebuild. *)
LEMMA StoreWriteBestBlock ==
    ASSUME RInv, WriteBestBlock
    PROVE  Store'
<1>0. /\ UNCHANGED <<chain, pending, local, passets, db, coinsDB, rpos>>
      /\ flush = "marker" /\ marker' = chain /\ flush' = "idle"
      /\ mode' = IF mode = "reindex" THEN "run" ELSE mode
  BY Zenon DEF WriteBestBlock
<1>1. /\ local = EmptyCache /\ passets = EmptyCache /\ pending = <<>>
      /\ mode \in {"run", "stopping", "reindex"} /\ db \in Ledger
  BY Zenon, <1>0 DEF RInv, LruInv, Quiet, Store, Phases, Dumped, TypeOK
<1>2. Layered(EmptyCache, EmptyCache, db) = db
  BY Zenon, <1>1, EmptyLayered
<1>3. Covers(db.meta, LedgerOf(chain))
  <2>1. CASE mode = "reindex"
    <3>1. chain[rpos].led = db /\ rpos = Len(chain)
      BY Zenon, <1>0, <1>1, <1>2, <2>1 DEF RInv, Store, Phases
    <3> QED BY Zenon, <3>1 DEF LedgerOf, Covers
  <2>2. CASE mode \in {"run", "stopping"}
    BY Zenon, <1>1, <1>2, <2>2 DEF RInv, Store, Covered
  <2> QED BY Zenon, <1>1, <2>1, <2>2
<1>4. Backed(local, passets, db)' /\ ValidChains'
  BY Zenon, <1>0 DEF RInv, Store, Backed, NameAt, ValidChains
<1>5. Covered'
  BY Zenon, <1>0, <1>1, <1>2, <1>3 DEF RInv, Store, Covered
<1>6. Phases' /\ Dumped'
  BY Zenon, <1>0, <1>1 DEF RInv, Store, Phases, Dumped
<1> QED BY Zenon, <1>4, <1>5, <1>6 DEF Store

(* Stopping, crashing and starting. *)
LEMMA StoreStop ==
    ASSUME RInv, StopRequest, mode = "run"
    PROVE  Store'
<1>0. /\ UNCHANGED <<chain, pending, local, passets, db, marker, coinsDB, flush, rpos>>
      /\ pending = <<>> /\ flush = "idle" /\ mode' = "stopping"
  BY Zenon DEF StopRequest, Idle, disk
<1> QED BY Zenon, <1>0 DEF RInv, Store, Backed, NameAt, ValidChains, Covered, Phases, Dumped

(* A crash keeps what is on disk. *)
LEMMA StoreCrash ==
    ASSUME RInv, Crash
    PROVE  Store'
<1>0. /\ UNCHANGED <<db, marker, coinsDB>> /\ mode' = "down"
      /\ chain' = (IF coinsDB = <<>> THEN Genesis ELSE coinsDB)
      /\ pending' = <<>> /\ local' = EmptyCache /\ passets' = EmptyCache /\ flush' = "idle"
  BY Zenon DEF Crash, disk
<1>1. Backed(EmptyCache, EmptyCache, db)
  BY Zenon, EmptyLayered DEF RInv, LruInv, TypeOK
<1>2. Backed(local, passets, db)'
  BY Zenon, <1>0, <1>1 DEF Backed, NameAt
<1>3. ValidChains'
  BY Zenon, <1>0, GenesisValid DEF RInv, Store, ValidChains
<1> QED BY Zenon, <1>0, <1>2, <1>3 DEF RInv, Store, Covered, Phases, Dumped

(* A start loads the coins tip, and wipes databases it cannot trust. *)
LEMMA StoreRestart ==
    ASSUME RInv, Restart(FALSE)
    PROVE  Store'
<1>0. /\ mode = "down"
      /\ UNCHANGED <<chain, pending, local, passets, coinsDB, flush, rpos>>
      /\ \/ /\ coinsDB # <<>> /\ marker # coinsDB
            /\ db' = EmptyLedger /\ marker' = <<>> /\ mode' = "import"
         \/ /\ coinsDB = <<>> \/ marker = coinsDB
            /\ UNCHANGED <<db, marker>> /\ mode' = "run"
  BY Zenon DEF Restart
<1>1. /\ local = EmptyCache /\ passets = EmptyCache /\ pending = <<>> /\ flush = "idle"
      /\ chain = (IF coinsDB = <<>> THEN Genesis ELSE coinsDB)
      /\ db \in Ledger /\ db' \in Ledger
  BY Zenon, <1>0, EmptyType DEF RInv, LruInv, Quiet, Store, Phases, TypeOK
<1>2. /\ Layered(EmptyCache, EmptyCache, db) = db /\ Layered(EmptyCache, EmptyCache, db') = db'
      /\ Backed(EmptyCache, EmptyCache, db')
  BY Zenon, <1>1, EmptyLayered
<1>3. Backed(local, passets, db)' /\ ValidChains'
  BY Zenon, <1>0, <1>1, <1>2 DEF RInv, Store, Backed, NameAt, ValidChains
<1>4. mode' = "run" => Covers(db.meta, LedgerOf(chain))
  <2>1. CASE coinsDB = <<>>
    BY <1>1, <2>1, GenesisValid DEF EmptyLedger, Covers
  <2>2. CASE coinsDB # <<>> /\ marker = coinsDB
    BY Zenon, <1>1, <2>2 DEF RInv, Store, Covered
  <2> QED BY Zenon, <1>0, <2>1, <2>2
<1>5. Covered'
  BY Zenon, <1>0, <1>1, <1>2, <1>4 DEF RInv, Store, Covered
<1>6. Phases' /\ Dumped'
  BY Zenon, <1>0, <1>1 DEF RInv, Store, Phases, Dumped
<1> QED BY Zenon, <1>3, <1>5, <1>6 DEF Store

(* ReindexAssets.  It starts from empty layers and the genesis ledger. *)
LEMMA StoreStartReindex ==
    ASSUME RInv, StartReindex
    PROVE  Store'
<1>0. /\ mode = "import" /\ pending = <<>> /\ flush = "idle"
      /\ UNCHANGED <<chain, pending, local, db, marker, coinsDB, flush>> /\ rpos' = 1
      /\ \/ Len(chain) = 1 /\ mode' = "run" /\ passets' = passets
         \/ Len(chain) # 1 /\ mode' = "reindex" /\ passets' = EmptyCache
  BY Zenon DEF StartReindex, Idle, disk
<1>1. /\ local = EmptyCache /\ passets = EmptyCache /\ db = EmptyLedger /\ chain = coinsDB
      /\ chain[1].led = EmptyLedger
  BY Zenon, <1>0 DEF RInv, LruInv, Quiet, Store, Phases, ValidChains, Valid
<1>2. /\ Layered(EmptyCache, EmptyCache, EmptyLedger) = EmptyLedger
      /\ Backed(EmptyCache, EmptyCache, EmptyLedger)
  BY Zenon, EmptyType, EmptyLayered
<1>3. Backed(local, passets, db)' /\ ValidChains'
  BY Zenon, <1>0, <1>1, <1>2 DEF RInv, Store, Backed, NameAt, ValidChains
<1>4. Covered'
  BY Zenon, <1>0, <1>1, <1>2 DEF RInv, Store, Covered, Covers, LedgerOf
<1>5. Phases' /\ Dumped'
  BY Zenon, <1>0, <1>1, <1>2 DEF RInv, Store, Phases, Dumped
<1> QED BY Zenon, <1>3, <1>4, <1>5 DEF Store

(* Each transaction is re-applied without checks.  The chain it is read    *)
(* from was checked, so it has the effect that the ledger records.         *)
LEMMA StoreReindexTx ==
    ASSUME RInv, ReindexTx
    PROVE  Store'
<1> DEFINE i == rpos + 1
           after == IF chain[i].tx = Coinbase THEN local ELSE Mutate(local, chain[i].tx)
<1>0. /\ mode = "reindex" /\ flush = "idle" /\ rpos < Len(chain) /\ rpos' = i
      /\ UNCHANGED <<chain, pending, db, marker, coinsDB, mode>>
      /\ \/ /\ passets' = Flush(after, passets) /\ local' = EmptyCache
            /\ flush' \in {"new", "idle"}
         \/ local' = after /\ UNCHANGED <<passets, flush>>
  BY Zenon DEF ReindexTx, disk
<1>1. /\ TypeOK /\ LruCoherent /\ Backed(local, passets, db)
      /\ local \in Cache /\ passets \in Cache /\ lru \in Ledger /\ db \in Ledger
      /\ chain \in Chain
      /\ pending = <<>> /\ chain = coinsDB /\ Valid(chain)
      /\ Layered(local, passets, db) = chain[rpos].led
  BY Zenon, <1>0 DEF RInv, LruInv, Store, TypeOK, Phases, ValidChains
<1>2. rpos \in Nat \ {0} /\ Len(chain) \in Nat
  BY Zenon, <1>1, ChainLemma DEF TypeOK
<1>3. i \in 2..Len(chain) /\ i \in 1..Len(chain) /\ i - 1 = rpos
  BY <1>0, <1>2
<1>4. Follows(chain[rpos].led, chain[i]) /\ chain[i].tx \in Txs \cup {Coinbase}
  BY Zenon, <1>1, <1>3, ChainLemma DEF Valid
<1>5. after \in Cache /\ Backed(after, passets, db) /\ Layered(after, passets, db) = chain[i].led
  <2>1. CASE chain[i].tx = Coinbase
    BY Zenon, <1>1, <1>4, <2>1 DEF Follows
  <2>2. CASE chain[i].tx # Coinbase
    <3> DEFINE tx == chain[i].tx
    <3>1. /\ tx \in Txs /\ tx.name \in Names /\ after = Mutate(local, tx)
          /\ chain[i].led = ApplyTx(Layered(local, passets, db), tx)
          /\ tx.op = "issue" => Layered(local, passets, db).meta[tx.name] = None
      BY Zenon, <1>1, <1>4, <2>2, TxLemma DEF Follows
    <3> HIDE DEF tx, after
    <3>2. tx.op = "issue" => MetaAt(local, passets, db, tx.name) = None
      BY Zenon, <1>1, <3>1, LayeredAnswers
    <3>3. Mutate(local, tx) \in Cache
      BY Zenon, <1>1, <3>1, MutateType
    <3> QED BY Zenon, <1>1, <3>1, <3>2, <3>3, MutateLayered
  <2> QED BY Zenon, <2>1, <2>2
<1> HIDE DEF i, after
<1>6. /\ Layered(EmptyCache, Flush(after, passets), db) = chain[i].led
      /\ Backed(EmptyCache, Flush(after, passets), db)
  BY Zenon, <1>1, <1>5, FlushLayered
<1>7. Backed(local, passets, db)'
  <2>1. Backed(local', passets', db)
    BY Zenon, <1>0, <1>5, <1>6
  <2> QED BY Zenon, <1>0, <2>1 DEF Backed, NameAt
<1>8. Layered(local', passets', db) = chain[i].led
  BY Zenon, <1>0, <1>5, <1>6
<1>9. ValidChains' /\ Covered'
  BY Zenon, <1>0, <1>1 DEF RInv, Store, ValidChains, Covered
<1>10. Phases' /\ Dumped'
  BY Zenon, <1>0, <1>1, <1>8 DEF RInv, Store, Phases, Dumped
<1> QED BY Zenon, <1>7, <1>9, <1>10 DEF Store

-----------------------------------------------------------------------------
(* Results *)

(* The steady node and its reorganisations are behaviours of the program. *)
LEMMA ReorgIsNext == ReorgNext => Next
BY Zenon DEF ReorgNext, SteadyNext, Next

(* LruInv is the invariant of LruAlwaysCoherent. *)
LEMMA LruStep == LruInv /\ Next => LruInv'
<1> SUFFICES ASSUME LruInv, Next PROVE LruInv'
  BY Zenon
<1>1. TypeOK' /\ Quiet' /\ ImportClean'
  BY Zenon, NextType, QuietStep, ImportStep DEF LruInv
<1>2. FreshLocal' /\ LruCoherent' /\ Written'
  BY Zenon, LruConnect, LruDump, LruRestart, LruReindex DEF Next
<1> QED BY Zenon, <1>1, <1>2 DEF LruInv

(* A fresh node satisfies the invariant. *)
LEMMA ReorgInit == Init => RInv
<1> SUFFICES ASSUME Init PROVE RInv
  BY Zenon
<1>1. TypeOK
  BY Zenon, InitType
<1>2. LruInv
  BY Zenon, <1>1 DEF Init, LruInv, Quiet, FreshLocal, LruCoherent, Written, ImportClean,
              EmptyCache, EmptyLedger
<1>3. /\ Layered(EmptyCache, EmptyCache, EmptyLedger) = EmptyLedger
      /\ Backed(EmptyCache, EmptyCache, EmptyLedger)
  BY Zenon, EmptyType, EmptyLayered
<1>4. /\ chain = Genesis /\ pending = <<>> /\ local = EmptyCache /\ passets = EmptyCache
      /\ db = EmptyLedger /\ marker = <<>> /\ coinsDB = <<>> /\ mode = "run" /\ flush = "idle"
  BY Zenon DEF Init
<1>5. Backed(local, passets, db) /\ ValidChains
  BY Zenon, <1>3, <1>4, GenesisValid DEF ValidChains
<1>6. Covered
  BY Zenon, <1>3, <1>4, GenesisValid DEF Covered, Covers
<1>7. Phases /\ Dumped
  BY Zenon, <1>4 DEF Phases, Dumped
<1> QED BY Zenon, <1>2, <1>5, <1>6, <1>7 DEF RInv, Store

(* Every step of the node with reorganisations keeps the invariant. *)
LEMMA ReorgStep == RInv /\ [ReorgNext]_vars => RInv'
<1>1. ASSUME RInv, ReorgNext PROVE RInv'
  <2>1. LruInv'
    BY Zenon, <1>1, ReorgIsNext, LruStep DEF RInv
  <2>2. Store'
    <3>1. ASSUME NEW tx \in Txs, ConnectTx(tx) \/ RejectBlock(tx) \/ PreChecks(tx) PROVE Store'
      BY Zenon, <1>1, <3>1, StoreConnect, StoreReject, StorePreChecks
    <3>2. CASE (mode = "run" /\ BeginBlock) \/ FinishBlock \/ DisconnectTip
      BY Zenon, <1>1, <3>2, StoreBegin, StoreFinish, StoreDisconnect
    <3>3. CASE Dump(TRUE) \/ ((mode = "reindex" => rpos = Len(chain)) /\ Dump(FALSE))
      BY Zenon, <1>1, <3>3, StoreDump
    <3>4. CASE (mode # "import" /\ FlushCoins) \/ DumpNext \/ DumpDone \/ WriteBestBlock
      BY Zenon, <1>1, <3>4, StoreFlushCoins, StoreDumpNext, StoreDumpDone, StoreWriteBestBlock
    <3>5. CASE (mode = "run" /\ StopRequest) \/ Crash \/ Restart(FALSE)
      BY Zenon, <1>1, <3>5, StoreStop, StoreCrash, StoreRestart
    <3>6. CASE StartReindex \/ ReindexTx
      BY Zenon, <1>1, <3>6, StoreStartReindex, StoreReindexTx
    <3> QED BY Zenon, <1>1, <3>1, <3>2, <3>3, <3>4, <3>5, <3>6 DEF ReorgNext, SteadyNext
  <2> QED BY Zenon, <2>1, <2>2 DEF RInv
<1>2. ASSUME RInv, UNCHANGED vars PROVE RInv'
  <2>1. LruInv'
    BY Zenon, <1>2 DEF RInv, LruInv, TypeOK, Quiet, FreshLocal, LruCoherent, Written, ImportClean,
                vars, LastOfBlock
  <2> QED BY Zenon, <1>2, <2>1, StoreUnchanged DEF RInv, vars
<1> QED BY Zenon, <1>1, <1>2

(* Lookups between blocks answer with the layers below the block. *)
LEMMA ViewInReorg == RInv => View = Layered(EmptyCache, passets, db)
BY Zenon, ViewLayered DEF RInv, LruInv

(* However the node reorganises, flushes, fails, crashes and rebuilds, no  *)
(* asset of the active chain is missing from the lookups: what             *)
(* DisconnectTip does not undo is too much, never too little.              *)
THEOREM NoAssetIsLost == ReorgSpec => []NoAssetLost
<1>1. RInv => NoAssetLost
  BY Zenon, ViewInReorg DEF RInv, Store, Covered, Covers, NoAssetLost
<1> QED BY <1>1, ReorgInit, ReorgStep, PTL DEF ReorgSpec

(* A rebuild that ends leaves lookups with exactly the ledger of the       *)
(* active chain, with its last dump written or failed and whatever         *)
(* reorganisations came before.                                            *)
THEOREM RebuildsAreExact == ReorgSpec => RebuildExact
<1>1. ASSUME RInv, (View = Layered(EmptyCache, passets, db))', ReorgNext,
             mode = "reindex", mode' = "run"
      PROVE  View' = LedgerOf(chain)'
  <2>1. View' = Layered(EmptyCache, passets', db')
    BY Zenon, <1>1
  <2>2. CASE WriteBestBlock
    <3>1. /\ UNCHANGED <<chain, passets, db>> /\ flush = "marker"
      BY Zenon, <2>2 DEF WriteBestBlock
    <3>2. /\ rpos = Len(chain) /\ local = EmptyCache
          /\ Layered(local, passets, db) = chain[rpos].led
      BY Zenon, <1>1, <3>1 DEF RInv, LruInv, Quiet, Store, Phases
    <3> QED BY Zenon, <2>1, <3>1, <3>2 DEF LedgerOf
  <2>3. CASE Dump(FALSE) /\ rpos = Len(chain)
    <3>1. /\ UNCHANGED <<chain, passets, db>> /\ flush # "idle"
      BY Zenon, <1>1, <2>3, DumpWrites DEF RInv, LruInv
    <3>2. local = EmptyCache /\ Layered(local, passets, db) = chain[rpos].led
      BY Zenon, <1>1, <3>1 DEF RInv, LruInv, Quiet, Store, Phases
    <3> QED BY Zenon, <2>1, <2>3, <3>1, <3>2 DEF LedgerOf
  <2>4. WriteBestBlock \/ (Dump(FALSE) /\ rpos = Len(chain))
    <3>1. ~Dump(TRUE)
      BY Zenon, <1>1, DumpWrites DEF RInv, LruInv
    <3> QED BY Zenon, <1>1, <3>1 DEF ReorgNext, SteadyNext, BeginBlock, ConnectTx, RejectBlock, PreChecks,
               FinishBlock, FlushCoins, DumpNext, DumpDone, StopRequest, Crash, Restart,
               StartReindex, ReindexTx, DisconnectTip
  <2> QED BY Zenon, <2>2, <2>3, <2>4
<1>2. RInv /\ (View = Layered(EmptyCache, passets, db))' /\ [ReorgNext]_vars =>
        [mode = "reindex" /\ mode' = "run" => View' = LedgerOf(chain)']_vars
  BY Zenon, <1>1
<1> QED BY <1>2, ReorgInit, ReorgStep, ViewInReorg, PTL DEF ReorgSpec, RebuildExact

=============================================================================
