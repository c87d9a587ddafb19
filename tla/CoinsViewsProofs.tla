-------------------------- MODULE CoinsViewsProofs --------------------------
(***************************************************************************)
(* Proofs about CoinsViews, for every set of transactions and chains of    *)
(* any length.  The two caches are handled entry by entry: the first       *)
(* lemmas say what each operation of CCoinsViewCache does to one entry     *)
(* over a given coin of the level below.                                   *)
(***************************************************************************)
EXTENDS CoinsViews, SequenceTheorems, TLAPS

(* A lookup caches the coin below and changes no answer. *)
LEMMA FetchLemma ==
    ASSUME NEW e \in CacheEntry, NEW below \in Nat, EntrySound(e, below)
    PROVE  /\ FetchCoin(e, below) \in CacheEntry
           /\ EntrySound(FetchCoin(e, below), below)
           /\ GetCoin(FetchCoin(e, below), below) = GetCoin(e, below)
BY Zenon DEF FetchCoin, EntrySound, CacheEntry, GetCoin, Absent

(* SpendCoin leaves no coin, also when there was none. *)
LEMMA SpendLemma ==
    ASSUME NEW e \in CacheEntry, NEW below \in Nat, EntrySound(e, below)
    PROVE  /\ SpendCoin(e, below) \in CacheEntry
           /\ EntrySound(SpendCoin(e, below), below)
           /\ GetCoin(SpendCoin(e, below), below) = 0
BY Zenon DEF SpendCoin, FetchCoin, EntrySound, CacheEntry, GetCoin, Absent

(* Adding after a HaveCoin always yields the coin. *)
LEMMA AddCheckedLemma ==
    ASSUME NEW e \in CacheEntry, NEW below \in Nat, EntrySound(e, below),
           NEW coin \in Nat \ {0}
    PROVE  /\ AddChecked(e, coin, below) \in CacheEntry
           /\ EntrySound(AddChecked(e, coin, below), below)
           /\ GetCoin(AddChecked(e, coin, below), below) = coin
BY Zenon DEF AddChecked, AddCoin, FetchCoin, EntrySound, CacheEntry, GetCoin, Absent

(* Uncache drops only what the level below repeats. *)
LEMMA UncacheLemma ==
    ASSUME NEW e \in CacheEntry, NEW below \in Nat, EntrySound(e, below)
    PROVE  /\ Uncache(e) \in CacheEntry
           /\ EntrySound(Uncache(e), below)
           /\ GetCoin(Uncache(e), below) = GetCoin(e, below)
BY Zenon DEF Uncache, EntrySound, CacheEntry, GetCoin, Absent

(* Folding a child's entry into ours makes us answer as the child did. *)
LEMMA BatchWriteLemma ==
    ASSUME NEW us \in CacheEntry, NEW below \in Nat, EntrySound(us, below),
           NEW child \in CacheEntry, EntrySound(child, GetCoin(us, below))
    PROVE  /\ BatchWrite(us, child) \in CacheEntry
           /\ EntrySound(BatchWrite(us, child), below)
           /\ GetCoin(BatchWrite(us, child), below) = GetCoin(child, GetCoin(us, below))
<1>1. CASE ~child.dirty
  BY Zenon, <1>1 DEF BatchWrite, EntrySound, CacheEntry, GetCoin, Absent
<1>2. CASE child.dirty /\ ~us.in
  BY <1>2 DEF BatchWrite, EntrySound, CacheEntry, GetCoin, Absent
<1>3. CASE child.dirty /\ us.in
  BY <1>3 DEF BatchWrite, EntrySound, CacheEntry, GetCoin, Absent
<1> QED BY Zenon, <1>1, <1>2, <1>3 DEF CacheEntry

(* An entry that Sync has written repeats the database. *)
LEMMA SetCleanLemma ==
    ASSUME NEW e \in CacheEntry, e.in
    PROVE  /\ SetClean(e) \in CacheEntry
           /\ EntrySound(SetClean(e), e.coin)
           /\ GetCoin(SetClean(e), e.coin) = e.coin
           /\ SetClean(e).in => SetClean(e).coin = e.coin
BY Zenon DEF SetClean, EntrySound, CacheEntry, GetCoin, Absent

LEMMA AbsentLemma ==
    /\ Absent \in CacheEntry
    /\ \A below \in Nat : EntrySound(Absent, below) /\ GetCoin(Absent, below) = below
BY Zenon DEF Absent, EntrySound, CacheEntry, GetCoin

-----------------------------------------------------------------------------
(* What the operations do to a whole cache, for any coins below it. *)
LEMMA CoinsType ==
    ASSUME NEW cache \in Cache, NEW below \in Utxo
    PROVE  Coins(cache, below) \in Utxo
BY Zenon DEF Coins, Cache, CacheEntry, Utxo, GetCoin

LEMMA EmptyLemma ==
    /\ EmptyCache \in Cache
    /\ \A below \in Utxo : Sound(EmptyCache, below) /\ Coins(EmptyCache, below) = below
BY Zenon, AbsentLemma DEF EmptyCache, Cache, Utxo, Sound, Coins

LEMMA UpdateCoinsLemma ==
    ASSUME NEW cache \in Cache, NEW below \in Utxo, Sound(cache, below),
           NEW t \in Tx, NEW height \in Nat \ {0},
           t \in Coinbase \/ \A o \in Out[t] : Coins(cache, below)[o] = 0
    PROVE  LET c == UpdateCoins(cache, below, t, height)
           IN  /\ c \in Cache
               /\ Sound(c, below)
               /\ Coins(c, below) = ApplyTx(Coins(cache, below), t, height)
<1> DEFINE c == UpdateCoins(cache, below, t, height)
<1>1. \A o \in Outpoint : cache[o] \in CacheEntry /\ below[o] \in Nat /\ EntrySound(cache[o], below[o])
  BY Zenon DEF Cache, Utxo, Sound
<1>2. \A o \in Outpoint : /\ c[o] \in CacheEntry /\ EntrySound(c[o], below[o])
                          /\ GetCoin(c[o], below[o]) = ApplyTx(Coins(cache, below), t, height)[o]
  <2> SUFFICES ASSUME NEW o \in Outpoint
               PROVE  /\ c[o] \in CacheEntry /\ EntrySound(c[o], below[o])
                      /\ GetCoin(c[o], below[o]) = ApplyTx(Coins(cache, below), t, height)[o]
    BY Zenon
  <2>1. CASE o \in Out[t]
    <3>1. t \in Coinbase \/ GetCoin(cache[o], below[o]) = 0
      BY Zenon, <2>1 DEF Coins
    <3>2. c[o] = AddCoin(cache[o], height, t \in Coinbase)
      BY Zenon, <2>1 DEF UpdateCoins
    <3>3. ApplyTx(Coins(cache, below), t, height)[o] = height
      BY Zenon, <2>1 DEF ApplyTx
    <3> HIDE DEF c
    <3> QED BY <1>1, <3>1, <3>2, <3>3 DEF AddCoin, EntrySound, CacheEntry, GetCoin, Absent
  <2>2. CASE o \notin Out[t] /\ o \in In[t]
    <3>1. c[o] = SpendCoin(cache[o], below[o])
      BY Zenon, <2>2 DEF UpdateCoins
    <3> QED BY Zenon, <1>1, <2>2, <3>1, SpendLemma DEF ApplyTx
  <2>3. CASE o \notin Out[t] /\ o \notin In[t]
    BY Zenon, <1>1, <2>3 DEF UpdateCoins, ApplyTx, Coins
  <2> QED BY Zenon, <2>1, <2>2, <2>3
<1>3. c = [o \in Outpoint |-> c[o]]
  BY Zenon DEF UpdateCoins
<1>4. ApplyTx(Coins(cache, below), t, height)
        = [o \in Outpoint |-> ApplyTx(Coins(cache, below), t, height)[o]]
  BY Zenon DEF ApplyTx
<1> HIDE DEF c
<1>5. c \in Cache /\ Sound(c, below)
  BY Zenon, <1>2, <1>3 DEF Cache, Sound
<1>6. Coins(c, below) = ApplyTx(Coins(cache, below), t, height)
  BY Zenon, <1>2, <1>4 DEF Coins
<1> QED BY Zenon, <1>5, <1>6 DEF c

(* UndoTx and RedoTx determine the coins of the transaction's inputs and   *)
(* outputs whatever was there before: this is what makes a replay over a   *)
(* half-written database right.                                            *)
LEMMA UndoTxLemma ==
    ASSUME NEW cache \in Cache, NEW below \in Utxo, Sound(cache, below),
           NEW e \in Entry, \A o \in In[e.tx] : e.undo[o] # 0
    PROVE  LET c == UndoTx(cache, below, e)
           IN  /\ c \in Cache
               /\ Sound(c, below)
               /\ \A o \in Outpoint :
                     Coins(c, below)[o] = IF o \in Out[e.tx] THEN 0
                                          ELSE IF o \in In[e.tx] THEN e.undo[o]
                                          ELSE Coins(cache, below)[o]
<1> DEFINE c == UndoTx(cache, below, e)
<1>1. \A o \in Outpoint : /\ cache[o] \in CacheEntry /\ below[o] \in Nat
                          /\ EntrySound(cache[o], below[o])
                          /\ o \in In[e.tx] => e.undo[o] \in Nat \ {0}
  BY Zenon DEF Cache, Utxo, Sound, Entry
<1>2. \A o \in Outpoint :
        /\ c[o] \in CacheEntry /\ EntrySound(c[o], below[o])
        /\ GetCoin(c[o], below[o]) = IF o \in Out[e.tx] THEN 0
                                     ELSE IF o \in In[e.tx] THEN e.undo[o]
                                     ELSE GetCoin(cache[o], below[o])
  BY Zenon, <1>1, SpendLemma, AddCheckedLemma DEF UndoTx
<1>3. c = [o \in Outpoint |-> c[o]]
  BY Zenon DEF UndoTx
<1> HIDE DEF c
<1>4. c \in Cache /\ Sound(c, below)
  BY Zenon, <1>2, <1>3 DEF Cache, Sound
<1> QED BY Zenon, <1>2, <1>4 DEF c, Coins

LEMMA RedoTxLemma ==
    ASSUME NEW cache \in Cache, NEW below \in Utxo, Sound(cache, below),
           NEW e \in Entry, e.height # 0
    PROVE  LET c == RedoTx(cache, below, e)
           IN  /\ c \in Cache
               /\ Sound(c, below)
               /\ \A o \in Outpoint :
                     Coins(c, below)[o] = IF o \in Out[e.tx] THEN e.height
                                          ELSE IF o \in In[e.tx] THEN 0
                                          ELSE Coins(cache, below)[o]
<1> DEFINE c == RedoTx(cache, below, e)
<1>1. \A o \in Outpoint : /\ cache[o] \in CacheEntry /\ below[o] \in Nat
                          /\ EntrySound(cache[o], below[o])
  BY Zenon DEF Cache, Utxo, Sound
<1>2. e.height \in Nat \ {0}
  BY Zenon DEF Entry
<1>3. \A o \in Outpoint :
        /\ c[o] \in CacheEntry /\ EntrySound(c[o], below[o])
        /\ GetCoin(c[o], below[o]) = IF o \in Out[e.tx] THEN e.height
                                     ELSE IF o \in In[e.tx] THEN 0
                                     ELSE GetCoin(cache[o], below[o])
  BY Zenon, <1>1, <1>2, SpendLemma, AddCheckedLemma DEF RedoTx
<1>4. c = [o \in Outpoint |-> c[o]]
  BY Zenon DEF RedoTx
<1> HIDE DEF c
<1>5. c \in Cache /\ Sound(c, below)
  BY Zenon, <1>3, <1>4 DEF Cache, Sound
<1> QED BY Zenon, <1>3, <1>5 DEF c, Coins

(* After the flush of a child cache the parent answers as the child did. *)
LEMMA FoldedLemma ==
    ASSUME NEW parent \in Cache, NEW below \in Utxo, Sound(parent, below),
           NEW child \in Cache, Sound(child, Coins(parent, below))
    PROVE  /\ Folded(parent, child) \in Cache
           /\ Sound(Folded(parent, child), below)
           /\ Coins(Folded(parent, child), below) = Coins(child, Coins(parent, below))
<1>1. \A o \in Outpoint : /\ parent[o] \in CacheEntry /\ child[o] \in CacheEntry
                          /\ below[o] \in Nat /\ EntrySound(parent[o], below[o])
                          /\ EntrySound(child[o], GetCoin(parent[o], below[o]))
  BY Zenon DEF Cache, Utxo, Sound, Coins
<1>2. \A o \in Outpoint :
        LET e == BatchWrite(parent[o], child[o])
        IN  /\ e \in CacheEntry /\ EntrySound(e, below[o])
            /\ GetCoin(e, below[o]) = GetCoin(child[o], GetCoin(parent[o], below[o]))
  BY Zenon, <1>1, BatchWriteLemma
<1> QED BY Zenon, <1>2 DEF Folded, Cache, Sound, Coins

(* Lookups change no answer of tip. *)
LEMMA TipFetchedLemma ==
    ASSUME tip \in Cache, db.coins \in Utxo, Sound(tip, db.coins), NEW S
    PROVE  /\ TipFetched(S) \in Cache
           /\ Sound(TipFetched(S), db.coins)
           /\ Coins(TipFetched(S), db.coins) = TipCoins
<1>1. \A o \in Outpoint : /\ tip[o] \in CacheEntry /\ db.coins[o] \in Nat
                          /\ EntrySound(tip[o], db.coins[o])
  BY Zenon DEF Cache, Utxo, Sound
<1>2. \A o \in Outpoint :
        LET e == FetchCoin(tip[o], db.coins[o])
        IN  /\ e \in CacheEntry /\ EntrySound(e, db.coins[o])
            /\ GetCoin(e, db.coins[o]) = GetCoin(tip[o], db.coins[o])
  BY Zenon, <1>1, FetchLemma
<1> QED BY Zenon, <1>1, <1>2 DEF TipFetched, Cache, Sound, Coins, TipCoins

-----------------------------------------------------------------------------
(* The inductive invariant. *)
Valid(path) == \A n \in 1..Len(path) : ValidEntry(path, n) /\ path[n].height # 0

(* Which parts of the program run in which mode, and when the database may *)
(* be between two blocks.                                                  *)
ModeInv ==
    /\ job.kind = "none" => job = NoJob
    /\ wr.kind = "none" => wr = NoWrite
    /\ mode = "up" => job.kind \in {"none", "connect", "disconnect"}
    /\ mode = "down" => job = NoJob /\ wr = NoWrite /\ tip = EmptyCache
    /\ mode = "replay" => /\ db.mid /\ chain = db.new
                          /\ job.kind \in {"none", "back", "forward"}
                          /\ job.kind = "none" => wr.kind # "none"
    /\ job.kind # "none" => wr = NoWrite
    /\ job.kind \notin {"connect", "disconnect"} => view = EmptyCache
    /\ mode = "up" /\ wr = NoWrite => ~db.mid
    /\ wr.kind # "none" /\ db.mid => db.new = chain

(* The entries of the block being connected. *)
New == Len(chain) + 1..job.n

Created(o) == \E n \in New : o \in Out[job.path[n].tx]

(* What a transaction of the block has spent stays spent for the rest of   *)
(* the block: it was unspent in the chain, so that BIP 30 forbids to       *)
(* create it, or created by a transaction that cannot come twice, because  *)
(* its own inputs are spent.                                               *)
BlockInv ==
    /\ job.kind = "connect" =>
        /\ Len(chain) <= job.n /\ job.n = Len(job.path)
        /\ \A n \in 1..Len(chain) : job.path[n] = chain[n]
        /\ \A n \in New :
               /\ job.path[n].height = Height(chain) + 1
               /\ \A o \in In[job.path[n].tx] :
                      /\ UtxoAt(job.path, job.n)[o] = 0
                      /\ UtxoOf(chain)[o] # 0 \/ Created(o)
        /\ \A o \in Outpoint :
               UtxoAt(job.path, job.n)[o] # 0 => UtxoOf(chain)[o] # 0 \/ Created(o)
    /\ job.kind = "disconnect" => job.path = chain /\ chain # <<>>

(* While ReplayBlocks walks back and forward, every coin is that of the    *)
(* place it has reached, or already that of the new tip.                   *)
ReplayInv ==
    /\ job.kind = "back" => job.path = db.old
    /\ job.kind = "forward" => job.path = db.new
    /\ job.kind \in {"back", "forward"} =>
           \A o \in Outpoint :
               TipCoins[o] \in {UtxoAt(job.path, job.n)[o], UtxoOf(db.new)[o]}

(* While the cache is written, what is not left to write is in the         *)
(* database.                                                               *)
WriteInv ==
    wr.kind # "none" =>
        /\ TipCoins = UtxoOf(chain)
        /\ \A o \in wr.left : tip[o].in
        /\ \A o \in Outpoint \ wr.left :
               /\ tip[o].in => tip[o].coin = db.coins[o]
               /\ wr.kind = "sync" => EntrySound(tip[o], db.coins[o])

PathsValid == Valid(chain) /\ Valid(job.path) /\ Valid(db.new) /\ Valid(db.old)

IInv ==
    /\ TypeOK /\ ModeInv /\ PathsValid /\ BlockInv /\ ReplayInv /\ WriteInv
    /\ FlagsSound /\ CoinsOfChain /\ DiskRecoverable

-----------------------------------------------------------------------------
(* Facts about chains. *)
LEMMA PathType ==
    ASSUME NEW path \in Seq(Entry)
    PROVE  /\ \A n \in 0..Len(path) : UtxoAt(path, n) \in Utxo
           /\ UtxoOf(path) \in Utxo
           /\ Height(path) \in Nat
           /\ Len(path) \in Nat
<1>1. \A n \in 1..Len(path) : path[n] \in Entry
  OBVIOUS
<1>2. NoCoins \in Utxo /\ Len(path) \in Nat
  BY DEF NoCoins, Utxo
<1>3. path # <<>> => Len(path) \in 1..Len(path)
  BY EmptySeq, <1>2
<1>4. Height(path) \in Nat
  BY Zenon, <1>1, <1>3 DEF Height, Entry
<1>5. \A n \in 0..Len(path) : UtxoAt(path, n) \in Utxo
  BY <1>1, <1>2 DEF UtxoAt, Entry
<1> QED BY <1>2, <1>4, <1>5 DEF UtxoOf

(* Chains that agree on their first entries agree on the coins there and   *)
(* on which of these entries are valid.                                    *)
LEMMA AgreeLemma ==
    ASSUME NEW p \in Seq(Entry), NEW q \in Seq(Entry), NEW n \in Nat,
           n <= Len(p), n <= Len(q), \A k \in 1..n : p[k] = q[k]
    PROVE  \A k \in 0..n : /\ UtxoAt(p, k) = UtxoAt(q, k)
                           /\ k # 0 => (ValidEntry(p, k) <=> ValidEntry(q, k))
<1>1. \A k \in 0..n : UtxoAt(p, k) = UtxoAt(q, k)
  BY DEF UtxoAt
<1>2. \A k \in 1..n : UtxoAt(p, k - 1) = UtxoAt(q, k - 1) /\ p[k] = q[k]
  BY <1>1
<1>3. ASSUME NEW k \in 1..n
      PROVE  ValidEntry(p, k) <=> ValidEntry(q, k)
  <2>1. UtxoAt(p, k - 1) = UtxoAt(q, k - 1) /\ p[k] = q[k]
    BY Zenon, <1>2
  <2> QED BY <2>1, Zenon DEF ValidEntry
<1> QED BY <1>1, <1>3

(* The coins before a valid entry, from those after it and its undo data. *)
LEMMA UndoneLemma ==
    ASSUME NEW p \in Seq(Entry), Valid(p), NEW n \in 1..Len(p)
    PROVE  /\ \A o \in In[p[n].tx] : p[n].undo[o] # 0
           /\ \A o \in Outpoint : UtxoAt(p, n - 1)[o]
                                    = IF o \in Out[p[n].tx] THEN 0
                                      ELSE IF o \in In[p[n].tx] THEN p[n].undo[o]
                                      ELSE UtxoAt(p, n)[o]
<1> DEFINE before == UtxoAt(p, n - 1)
           t == p[n].tx
<1>1. /\ \A o \in In[t] : before[o] # 0
      /\ \A o \in Out[t] : before[o] = 0
      /\ p[n].undo = [o \in Outpoint |-> IF o \in In[t] THEN before[o] ELSE 0]
      /\ p[n].utxo = ApplyTx(before, t, p[n].height)
  BY Zenon DEF Valid, ValidEntry
<1>2. In[t] \subseteq Outpoint
  <2>1. p[n] \in Entry
    OBVIOUS
  <2> QED BY Zenon, <2>1, TxAssumption DEF Entry
<1>3. UtxoAt(p, n) = p[n].utxo
  BY DEF UtxoAt
<1> HIDE DEF before, t
<1>4. \A o \in In[t] : p[n].undo[o] = before[o]
  BY Zenon, <1>1, <1>2
<1>5. \A o \in Outpoint : o \notin Out[t] /\ o \notin In[t] => UtxoAt(p, n)[o] = before[o]
  BY Zenon, <1>1, <1>3 DEF ApplyTx
<1> QED BY Zenon, <1>1, <1>2, <1>4, <1>5 DEF before, t

LEMMA PrefixType ==
    ASSUME NEW p \in Seq(Entry), NEW n \in 0..Len(p)
    PROVE  /\ SubSeq(p, 1, n) \in Seq(Entry) /\ Len(SubSeq(p, 1, n)) = n
           /\ \A k \in 1..n : SubSeq(p, 1, n)[k] = p[k]
OBVIOUS

LEMMA PrefixLemma ==
    ASSUME NEW p \in Seq(Entry), Valid(p), NEW n \in 0..Len(p)
    PROVE  LET q == SubSeq(p, 1, n)
           IN  /\ q \in Seq(Entry) /\ Len(q) = n
               /\ \A k \in 1..n : q[k] = p[k]
               /\ Valid(q)
               /\ UtxoOf(q) = UtxoAt(p, n)
<1> DEFINE q == SubSeq(p, 1, n)
<1>1. q \in Seq(Entry) /\ Len(q) = n /\ \A k \in 1..n : q[k] = p[k]
  OBVIOUS
<1> HIDE DEF q
<1>2. \A k \in 0..n : /\ UtxoAt(p, k) = UtxoAt(q, k)
                      /\ k # 0 => (ValidEntry(p, k) <=> ValidEntry(q, k))
  BY <1>1, AgreeLemma
<1>3. Valid(q)
  BY <1>1, <1>2 DEF Valid
<1>4. UtxoOf(q) = UtxoAt(p, n)
  BY <1>1, <1>2 DEF UtxoOf
<1> QED BY Zenon, <1>1, <1>3, <1>4 DEF q

LEMMA AppendLemma ==
    ASSUME NEW p \in Seq(Entry), Valid(p), NEW e \in Entry, e.height # 0,
           \A o \in In[e.tx] : UtxoOf(p)[o] # 0,
           \A o \in Out[e.tx] : UtxoOf(p)[o] = 0,
           e.undo = [o \in Outpoint |-> IF o \in In[e.tx] THEN UtxoOf(p)[o] ELSE 0],
           e.utxo = ApplyTx(UtxoOf(p), e.tx, e.height)
    PROVE  LET q == Append(p, e)
           IN  /\ q \in Seq(Entry) /\ Len(q) = Len(p) + 1
               /\ \A k \in 1..Len(p) : q[k] = p[k]
               /\ q[Len(p) + 1] = e
               /\ Valid(q)
               /\ UtxoOf(q) = e.utxo
<1> DEFINE q == Append(p, e)
<1>1. /\ q \in Seq(Entry) /\ Len(q) = Len(p) + 1
      /\ Len(p) \in Nat /\ Len(p) <= Len(q)
      /\ \A k \in 1..Len(p) : q[k] = p[k]
      /\ q[Len(p) + 1] = e
  OBVIOUS
<1> HIDE DEF q
<1>2. \A k \in 0..Len(p) : /\ UtxoAt(p, k) = UtxoAt(q, k)
                           /\ k # 0 => (ValidEntry(p, k) <=> ValidEntry(q, k))
  BY <1>1, AgreeLemma
<1>3. ValidEntry(q, Len(p) + 1)
  <2>1. UtxoAt(q, Len(p)) = UtxoOf(p) /\ (Len(p) + 1) - 1 = Len(p)
    BY <1>1, <1>2 DEF UtxoOf
  <2> QED BY Zenon, <2>1, <1>1 DEF ValidEntry
<1>4. Valid(q)
  <2> SUFFICES ASSUME NEW k \in 1..Len(q) PROVE ValidEntry(q, k) /\ q[k].height # 0
    BY Zenon DEF Valid
  <2>1. CASE k = Len(p) + 1
    BY Zenon, <2>1, <1>1, <1>3
  <2>2. CASE k \in 1..Len(p)
    BY <2>2, <1>1, <1>2 DEF Valid
  <2> QED BY <2>1, <2>2, <1>1
<1>5. UtxoOf(q) = e.utxo
  BY <1>1 DEF UtxoOf, UtxoAt
<1> QED BY Zenon, <1>1, <1>4, <1>5 DEF q

-----------------------------------------------------------------------------
(* Every step preserves the invariant, action by action. *)
LEMMA InitLemma == Init => IInv
<1> SUFFICES ASSUME Init PROVE IInv
  BY Zenon
<1>1. /\ <<>> \in Seq(Entry) /\ Len(<<>>) = 0
      /\ NoCoins \in Utxo /\ UtxoOf(<<>>) = NoCoins
      /\ Valid(<<>>)
  BY DEF NoCoins, Utxo, UtxoOf, UtxoAt, Valid
<1>2. /\ EmptyCache \in Cache
      /\ Sound(EmptyCache, NoCoins) /\ Coins(EmptyCache, NoCoins) = NoCoins
  BY Zenon, <1>1, EmptyLemma
<1>3. /\ db.coins = NoCoins /\ ~db.mid /\ db.new = <<>> /\ db.old = <<>>
      /\ job.kind = "none" /\ job.path = <<>> /\ job.n = 0
      /\ wr.kind = "none"
  BY Zenon DEF Init, NoJob, NoWrite
<1>4. TipCoins = NoCoins
  BY Zenon, <1>2, <1>3 DEF TipCoins, Init
<1>5. TypeOK
  BY <1>1, <1>2 DEF Init, TypeOK, NoJob, NoWrite, Jobs
<1>6. ModeInv /\ PathsValid /\ BlockInv /\ ReplayInv /\ WriteInv
  BY Zenon, <1>1, <1>3 DEF Init, ModeInv, PathsValid, BlockInv, ReplayInv, WriteInv
<1>7. FlagsSound /\ CoinsOfChain /\ DiskRecoverable
  BY Zenon, <1>1, <1>2, <1>3, <1>4 DEF Init, FlagsSound, CoinsOfChain, DiskRecoverable
<1> QED BY Zenon, <1>5, <1>6, <1>7 DEF IInv

(* A change of the clean entries of tip, between blocks. *)
LEMMA LookupLemma ==
    ASSUME IInv, Idle, UNCHANGED <<chain, view, db, job, wr, mode>>,
           tip' \in Cache, Sound(tip', db.coins), Coins(tip', db.coins) = TipCoins
    PROVE  IInv'
<1>1. TipCoins' = TipCoins
  BY Zenon DEF TipCoins
<1>2. TypeOK'
  BY Zenon DEF IInv, TypeOK
<1>3. job.kind = "none" /\ wr.kind = "none" /\ job' = job /\ wr' = wr
  BY Zenon DEF Idle, NoJob, NoWrite
<1>4. ModeInv' /\ PathsValid' /\ BlockInv' /\ ReplayInv' /\ WriteInv'
  BY Zenon, <1>3 DEF IInv, Idle, ModeInv, PathsValid, BlockInv, ReplayInv, WriteInv
<1>5. FlagsSound' /\ CoinsOfChain' /\ DiskRecoverable'
  BY Zenon, <1>1, <1>3 DEF IInv, FlagsSound, CoinsOfChain, DiskRecoverable
<1> QED BY Zenon, <1>2, <1>4, <1>5 DEF IInv

LEMMA AccessCoinLemma ==
    ASSUME IInv, NEW o \in Outpoint, AccessCoin(o) \/ UncacheCoin(o)
    PROVE  IInv'
<1>1. /\ tip \in Cache /\ db.coins \in Utxo /\ Sound(tip, db.coins)
      /\ Idle /\ UNCHANGED <<chain, view, db, job, wr, mode>>
  BY Zenon DEF IInv, TypeOK, FlagsSound, Idle, AccessCoin, UncacheCoin
<1>2. \A x \in Outpoint : /\ tip[x] \in CacheEntry /\ db.coins[x] \in Nat
                          /\ EntrySound(tip[x], db.coins[x])
  BY Zenon, <1>1 DEF Cache, Utxo, Sound
<1>3. PICK e \in {FetchCoin(tip[o], db.coins[o]), Uncache(tip[o])} :
        tip' = [tip EXCEPT ![o] = e]
  BY Zenon DEF AccessCoin, UncacheCoin
<1>4. e \in CacheEntry /\ EntrySound(e, db.coins[o])
      /\ GetCoin(e, db.coins[o]) = GetCoin(tip[o], db.coins[o])
  BY <1>2, <1>3, FetchLemma, UncacheLemma
<1>5. tip' \in Cache /\ Sound(tip', db.coins) /\ Coins(tip', db.coins) = TipCoins
  BY Zenon, <1>1, <1>2, <1>3, <1>4 DEF Cache, Sound, Coins, TipCoins
<1> QED BY Zenon, <1>1, <1>5, LookupLemma

LEMMA BeginLemma ==
    ASSUME IInv, BeginConnect \/ BeginDisconnect
    PROVE  IInv'
<1>1. /\ Idle /\ UNCHANGED <<chain, view, tip, db, wr, mode>>
      /\ job'.kind \in {"connect", "disconnect"}
      /\ job'.path = chain /\ job'.n = Len(chain)
      /\ job'.kind = "disconnect" => chain # <<>>
  BY DEF BeginConnect, BeginDisconnect
<1>2. /\ chain \in Seq(Entry) /\ Len(chain) \in Nat
      /\ view = EmptyCache /\ mode = "up" /\ wr = NoWrite /\ TipCoins \in Utxo
      /\ TipCoins = UtxoOf(chain)
  BY <1>1, CoinsType DEF IInv, TypeOK, ModeInv, CoinsOfChain, Idle, NoJob, TipCoins
<1>3. TipCoins' = TipCoins /\ ViewCoins' = TipCoins
  BY Zenon, <1>1, <1>2, EmptyLemma DEF TipCoins, ViewCoins
<1>4. TypeOK'
  <2>1. job' \in Jobs
    BY <1>2 DEF BeginConnect, BeginDisconnect, Jobs
  <2> QED BY <1>1, <1>2, <2>1 DEF IInv, TypeOK
<1>5. ModeInv' /\ PathsValid'
  BY Zenon, <1>1, <1>2 DEF IInv, ModeInv, PathsValid
<1>6. BlockInv'
  BY <1>1, <1>2 DEF BlockInv, New, UtxoOf
<1>7. ReplayInv' /\ WriteInv'
  BY Zenon, <1>1, <1>2 DEF ReplayInv, WriteInv, NoWrite
<1>8. FlagsSound' /\ DiskRecoverable'
  BY Zenon, <1>1, <1>3 DEF IInv, FlagsSound, DiskRecoverable
<1>9. CoinsOfChain'
  BY Zenon, <1>1, <1>2, <1>3 DEF CoinsOfChain, UtxoOf
<1> QED BY Zenon, <1>4, <1>5, <1>6, <1>7, <1>8, <1>9 DEF IInv

(* What holds while a block is connected or disconnected. *)
LEMMA BlockLoopLemma ==
    ASSUME IInv, job.kind \in {"connect", "disconnect"}
    PROVE  /\ mode = "up" /\ wr = NoWrite /\ wr.kind = "none" /\ ~db.mid
           /\ tip \in Cache /\ view \in Cache /\ db.coins \in Utxo
           /\ TipCoins \in Utxo
           /\ Sound(tip, db.coins) /\ Sound(view, TipCoins)
           /\ TipCoins = UtxoOf(chain) /\ ViewCoins = UtxoAt(job.path, job.n)
<1>1. /\ tip \in Cache /\ view \in Cache /\ db.coins \in Utxo /\ TipCoins \in Utxo
  BY Zenon, CoinsType DEF IInv, TypeOK, TipCoins
<1>2. mode = "up"
  BY DEF IInv, TypeOK, ModeInv, NoJob
<1>3. wr = NoWrite /\ wr.kind = "none" /\ ~db.mid
  BY <1>2 DEF IInv, ModeInv, NoWrite
<1> QED BY Zenon, <1>1, <1>2, <1>3 DEF IInv, FlagsSound, CoinsOfChain

LEMMA RejectBlockLemma ==
    ASSUME IInv, RejectBlock
    PROVE  IInv'
<1>1. /\ UNCHANGED <<chain, tip, db, wr, mode>> /\ view' = EmptyCache
      /\ job' = NoJob /\ job'.kind = "none" /\ job'.path = <<>> /\ job'.n = 0
  BY Zenon DEF RejectBlock, NoJob
<1>2. mode = "up" /\ wr = NoWrite /\ wr.kind = "none" /\ tip \in Cache /\ db.coins \in Utxo
  BY Zenon, BlockLoopLemma DEF RejectBlock
<1>3. TipCoins' = TipCoins /\ TipCoins \in Utxo
  BY Zenon, <1>1, <1>2, CoinsType DEF TipCoins
<1>4. TypeOK'
  BY <1>1, EmptyLemma DEF IInv, TypeOK, Jobs, NoJob
<1>5. Valid(<<>>)
  BY DEF Valid
<1>6. ModeInv' /\ PathsValid' /\ BlockInv' /\ ReplayInv' /\ WriteInv'
  BY Zenon, <1>1, <1>2, <1>5 DEF IInv, ModeInv, PathsValid, BlockInv, ReplayInv, WriteInv
<1>7. FlagsSound' /\ CoinsOfChain' /\ DiskRecoverable'
  BY Zenon, <1>1, <1>2, <1>3, EmptyLemma DEF IInv, FlagsSound, CoinsOfChain, DiskRecoverable
<1> QED BY Zenon, <1>4, <1>6, <1>7 DEF IInv

(* The flush of the block's view into tip, for any path whose coins are    *)
(* those of the view.                                                      *)
LEMMA FlushViewLemma ==
    ASSUME IInv, job.kind \in {"connect", "disconnect"},
           NEW path \in Seq(Entry), Valid(path), UtxoOf(path) = UtxoAt(job.path, job.n),
           FlushView(path)
    PROVE  IInv'
<1>1. /\ UNCHANGED <<db, wr, mode>> /\ view' = EmptyCache /\ chain' = path
      /\ job' = NoJob /\ job'.kind = "none" /\ job'.path = <<>> /\ job'.n = 0
      /\ tip' = Folded(tip, view)
  BY Zenon DEF FlushView, NoJob
<1>2. /\ mode = "up" /\ wr = NoWrite /\ wr.kind = "none"
      /\ tip \in Cache /\ view \in Cache /\ db.coins \in Utxo
      /\ Sound(tip, db.coins) /\ Sound(view, TipCoins)
      /\ ViewCoins = UtxoAt(job.path, job.n)
  BY Zenon, BlockLoopLemma
<1>3. tip' \in Cache /\ Sound(tip', db.coins) /\ TipCoins' = UtxoOf(path)
  <2>1. Sound(view, Coins(tip, db.coins))
    BY Zenon, <1>2 DEF TipCoins
  <2>2. tip' \in Cache /\ Sound(tip', db.coins) /\ Coins(tip', db.coins) = ViewCoins
    BY Zenon, <1>1, <1>2, <2>1, FoldedLemma DEF ViewCoins, TipCoins
  <2> QED BY Zenon, <1>1, <1>2, <2>2 DEF TipCoins
<1>4. UtxoOf(path) \in Utxo
  BY Zenon, PathType
<1>5. TypeOK'
  BY <1>1, <1>3, EmptyLemma DEF IInv, TypeOK, Jobs, NoJob
<1>6. Valid(<<>>)
  BY DEF Valid
<1>7. ModeInv' /\ PathsValid' /\ BlockInv' /\ ReplayInv' /\ WriteInv'
  BY Zenon, <1>1, <1>2, <1>6 DEF IInv, ModeInv, PathsValid, BlockInv, ReplayInv, WriteInv
<1>8. FlagsSound' /\ CoinsOfChain' /\ DiskRecoverable'
  BY Zenon, <1>1, <1>2, <1>3, <1>4, EmptyLemma DEF IInv, FlagsSound, CoinsOfChain, DiskRecoverable
<1> QED BY Zenon, <1>5, <1>7, <1>8 DEF IInv

LEMMA ConnectTipLemma ==
    ASSUME IInv, ConnectTip
    PROVE  IInv'
<1>1. job.path \in Seq(Entry) /\ Valid(job.path) /\ job.n = Len(job.path)
  BY Zenon DEF IInv, TypeOK, Jobs, PathsValid, BlockInv, ConnectTip
<1> QED BY Zenon, <1>1, FlushViewLemma DEF ConnectTip, UtxoOf

LEMMA DisconnectTipLemma ==
    ASSUME IInv, DisconnectTip
    PROVE  IInv'
<1>1. job.path \in Seq(Entry) /\ Valid(job.path) /\ job.n \in 0..Len(job.path)
  BY DEF IInv, TypeOK, Jobs, PathsValid
<1> QED BY Zenon, <1>1, PrefixLemma, FlushViewLemma DEF DisconnectTip

(* A transaction that ConnectBlock accepts is valid in its place: it is    *)
(* not in the block already, so nobody has created its outputs.            *)
LEMMA ConnectTxLemma ==
    ASSUME IInv, NEW t \in Tx, ConnectTx(t)
    PROVE  IInv'
<1> DEFINE u == UtxoAt(job.path, job.n)
           c0 == UtxoOf(chain)
           height == Height(chain) + 1
           spent == [o \in Outpoint |-> IF o \in In[t] THEN ViewCoins[o] ELSE 0]
           e == [tx |-> t, height |-> height, undo |-> spent, utxo |-> ApplyTx(u, t, height)]
<1>1. /\ job.kind = "connect"
      /\ (job.n = Len(chain)) <=> (t \in Coinbase)
      /\ \A o \in Out[t] : TipCoins[o] = 0
      /\ \A o \in In[t] : ViewCoins[o] # 0
      /\ view' = UpdateCoins(view, TipCoins, t, height)
      /\ tip' = TipFetched(In[t])
      /\ job' = [job EXCEPT !.path = Append(@, e), !.n = @ + 1]
      /\ UNCHANGED <<chain, db, wr, mode>>
  BY Zenon DEF ConnectTx, HaveInputs
<1>2. /\ mode = "up" /\ wr = NoWrite /\ wr.kind = "none" /\ ~db.mid
      /\ tip \in Cache /\ view \in Cache /\ db.coins \in Utxo /\ TipCoins \in Utxo
      /\ Sound(tip, db.coins) /\ Sound(view, TipCoins)
      /\ TipCoins = c0 /\ ViewCoins = u
  BY Zenon, <1>1, BlockLoopLemma
<1>3. /\ job \in Jobs /\ job.path \in Seq(Entry) /\ chain \in Seq(Entry)
      /\ job.n \in Nat /\ Len(chain) \in Nat /\ Height(chain) \in Nat /\ height \in Nat \ {0}
      /\ Valid(job.path) /\ Valid(chain)
      /\ job.n = Len(job.path) /\ Len(chain) <= job.n
      /\ u = UtxoOf(job.path) /\ u \in Utxo /\ c0 \in Utxo
  BY <1>1, PathType DEF IInv, TypeOK, Jobs, PathsValid, BlockInv, UtxoOf
<1>4. /\ In[t] \subseteq Outpoint /\ Out[t] \subseteq Outpoint /\ In[t] \cap Out[t] = {}
      /\ t \notin Coinbase => In[t] # {}
      /\ \A k \in New : job.path[k].tx \in Tx
  <2>1. \A k \in New : job.path[k] \in Entry
    BY <1>3 DEF New
  <2> QED BY Zenon, <2>1, TxAssumption DEF Entry
<1>5. ASSUME NEW k \in New PROVE job.path[k].tx # t
  <2> SUFFICES ASSUME job.path[k].tx = t PROVE FALSE
    BY Zenon
  <2>1. t \notin Coinbase
    BY <1>1, <1>3 DEF New
  <2>2. PICK o \in In[t] : TRUE
    BY Zenon, <2>1, <1>4
  <2>3. u[o] = 0
    BY Zenon, <1>1 DEF IInv, BlockInv
  <2> QED BY Zenon, <2>3, <1>1, <1>2
<1>6. ASSUME NEW o \in Out[t], Created(o) PROVE FALSE
  <2>1. PICK k \in New : o \in Out[job.path[k].tx]
    BY Zenon, <1>6 DEF Created
  <2> QED BY Zenon, <2>1, <1>4, <1>5, TxAssumption
<1>7. \A o \in Out[t] : u[o] = 0 /\ c0[o] = 0
  BY Zenon, <1>1, <1>2, <1>4, <1>6 DEF IInv, BlockInv
<1>8. e \in Entry /\ e.height # 0 /\ e.tx = t /\ e.undo = spent
      /\ e.height = height /\ e.utxo = ApplyTx(u, t, height) /\ ApplyTx(u, t, height) \in Utxo
  <2>1. spent \in Utxo /\ ApplyTx(u, t, height) \in Utxo
    BY Zenon, <1>2, <1>3 DEF Utxo, ApplyTx
  <2> QED BY Zenon, <2>1, <1>3 DEF Entry
<1>9. spent = [o \in Outpoint |-> IF o \in In[t] THEN u[o] ELSE 0]
  BY Zenon, <1>2
<1> HIDE DEF e, spent, u, c0, height
<1>10. /\ job' = [kind |-> "connect", path |-> Append(job.path, e), n |-> job.n + 1]
       /\ job'.kind = "connect" /\ job'.path = Append(job.path, e) /\ job'.n = job.n + 1
  BY Zenon, <1>1, <1>3 DEF Jobs
<1>11. /\ job'.path \in Seq(Entry) /\ Len(job'.path) = job.n + 1
       /\ \A k \in 1..job.n : job'.path[k] = job.path[k]
       /\ job'.path[job.n + 1] = e
       /\ Valid(job'.path)
       /\ UtxoOf(job'.path) = ApplyTx(u, t, height)
  <2>1. /\ \A o \in In[e.tx] : UtxoOf(job.path)[o] # 0
        /\ \A o \in Out[e.tx] : UtxoOf(job.path)[o] = 0
        /\ e.undo = [o \in Outpoint |-> IF o \in In[e.tx] THEN UtxoOf(job.path)[o] ELSE 0]
        /\ e.utxo = ApplyTx(UtxoOf(job.path), e.tx, e.height)
    BY Zenon, <1>1, <1>2, <1>3, <1>7, <1>8, <1>9
  <2>2. LET q == Append(job.path, e)
        IN  /\ q \in Seq(Entry) /\ Len(q) = Len(job.path) + 1
            /\ \A k \in 1..Len(job.path) : q[k] = job.path[k]
            /\ q[Len(job.path) + 1] = e
            /\ Valid(q)
            /\ UtxoOf(q) = e.utxo
    BY Zenon, <1>3, <1>8, <2>1, AppendLemma
  <2> QED BY Zenon, <1>3, <1>8, <1>10, <2>2
<1>12. UtxoAt(job'.path, job'.n) = ApplyTx(u, t, height)
  BY Zenon, <1>10, <1>11 DEF UtxoOf
<1>13. tip' \in Cache /\ Sound(tip', db.coins) /\ TipCoins' = TipCoins
  BY Zenon, <1>1, <1>2, TipFetchedLemma DEF TipCoins
<1>14. view' \in Cache /\ Sound(view', TipCoins) /\ ViewCoins' = ApplyTx(u, t, height)
  <2>1. \A o \in Out[t] : Coins(view, TipCoins)[o] = 0
    BY Zenon, <1>2, <1>7 DEF ViewCoins
  <2>2. view' \in Cache /\ Sound(view', TipCoins)
        /\ Coins(view', TipCoins) = ApplyTx(ViewCoins, t, height)
    BY <1>1, <1>2, <1>3, <2>1, UpdateCoinsLemma DEF ViewCoins
  <2> QED BY Zenon, <1>2, <1>13, <2>2 DEF ViewCoins
<1>15. TypeOK'
  <2>1. job' \in Jobs
    BY <1>3, <1>10, <1>11 DEF Jobs
  <2> QED BY <1>1, <1>10, <1>11, <1>13, <1>14, <2>1, <1>3 DEF IInv, TypeOK
<1>16. ModeInv' /\ PathsValid' /\ ReplayInv' /\ WriteInv'
  BY Zenon, <1>1, <1>2, <1>10, <1>11 DEF IInv, ModeInv, PathsValid, ReplayInv, WriteInv
<1>17. FlagsSound' /\ CoinsOfChain' /\ DiskRecoverable'
  BY Zenon, <1>1, <1>2, <1>10, <1>12, <1>13, <1>14
     DEF IInv, FlagsSound, CoinsOfChain, DiskRecoverable, c0
<1>18. BlockInv'
  <2>1. /\ \A k \in New' : k \in New \/ k = job.n + 1
        /\ \A k \in New : k \in New' /\ k \in 1..job.n
        /\ job.n + 1 \in New'
    <3>1. chain' = chain /\ job'.n = job.n + 1 /\ job.n \in Nat /\ Len(chain) \in Nat
          /\ Len(chain) <= job.n
      BY Zenon, <1>1, <1>3, <1>10
    <3> QED BY <3>1 DEF New
  <2>2. \A o \in Outpoint : Created(o) \/ o \in Out[t] => Created(o)'
    BY Zenon, <2>1, <1>8, <1>11 DEF Created
  <2>3. UtxoOf(chain)' = c0 /\ Height(chain)' = Height(chain)
    BY Zenon, <1>1 DEF c0
  <2>4. \A o \in Outpoint : u[o] # 0 => c0[o] # 0 \/ Created(o)
    BY Zenon, <1>1 DEF IInv, BlockInv, u, c0
  <2>5. \A o \in Outpoint :
          ApplyTx(u, t, height)[o] = IF o \in Out[t] THEN height ELSE IF o \in In[t] THEN 0 ELSE u[o]
    BY Zenon DEF ApplyTx
  <2>6. ASSUME NEW k \in New'
        PROVE  /\ job'.path[k].height = Height(chain) + 1
               /\ \A o \in In[job'.path[k].tx] :
                      /\ ApplyTx(u, t, height)[o] = 0
                      /\ c0[o] # 0 \/ Created(o)'
    <3>1. CASE k = job.n + 1
      <4>1. job'.path[k].height = Height(chain) + 1 /\ job'.path[k].tx = t
        BY Zenon, <3>1, <1>8, <1>11 DEF height
      <4>2. \A o \in In[t] : o \notin Out[t] /\ o \in Outpoint /\ u[o] # 0
        BY Zenon, <1>1, <1>2, <1>4
      <4> QED BY Zenon, <4>1, <4>2, <2>2, <2>4, <2>5
    <3>2. CASE k \in New
      <4>1. job'.path[k] = job.path[k]
        BY Zenon, <3>2, <2>1, <1>11
      <4>2. /\ job.path[k].height = Height(chain) + 1
            /\ \A o \in In[job.path[k].tx] : u[o] = 0 /\ (c0[o] # 0 \/ Created(o))
        BY Zenon, <3>2, <1>1 DEF IInv, BlockInv, u, c0
      <4>3. \A o \in In[job.path[k].tx] : o \in Outpoint /\ o \notin Out[t]
        <5>1. In[job.path[k].tx] \subseteq Outpoint
          BY Zenon, <3>2, <1>4, TxAssumption
        <5> QED BY Zenon, <5>1, <4>2, <1>6, <1>7
      <4> QED BY Zenon, <4>1, <4>2, <4>3, <2>2, <2>5
    <3> QED BY Zenon, <3>1, <3>2, <2>1
  <2>7. \A o \in Outpoint : ApplyTx(u, t, height)[o] # 0 => c0[o] # 0 \/ Created(o)'
    BY Zenon, <2>2, <2>4, <2>5
  <2>8. \A k \in 1..Len(chain) : job'.path[k] = chain[k]
    <3>1. \A k \in 1..Len(chain) : job.path[k] = chain[k] /\ k \in 1..job.n
      BY <1>1, <1>3 DEF IInv, BlockInv
    <3> QED BY Zenon, <3>1, <1>11
  <2>9. Len(chain) <= job'.n /\ job'.n = Len(job'.path)
    BY <1>3, <1>10, <1>11
  <2> QED BY Zenon, <1>1, <1>10, <1>12, <2>3, <2>6, <2>7, <2>8, <2>9 DEF BlockInv
<1> QED BY Zenon, <1>15, <1>16, <1>17, <1>18 DEF IInv

LEMMA DisconnectTxLemma ==
    ASSUME IInv, DisconnectTx
    PROVE  IInv'
<1> DEFINE e == job.path[job.n]
<1>1. /\ job.kind = "disconnect" /\ job.n > 0
      /\ view' = UndoTx(view, TipCoins, e)
      /\ tip' = TipFetched(In[e.tx] \cup Out[e.tx])
      /\ job' = [job EXCEPT !.n = @ - 1]
      /\ UNCHANGED <<chain, db, wr, mode>>
  BY Zenon DEF DisconnectTx, InTipBlock
<1>2. /\ mode = "up" /\ wr = NoWrite /\ wr.kind = "none" /\ ~db.mid
      /\ tip \in Cache /\ view \in Cache /\ db.coins \in Utxo /\ TipCoins \in Utxo
      /\ Sound(tip, db.coins) /\ Sound(view, TipCoins)
      /\ TipCoins = UtxoOf(chain) /\ ViewCoins = UtxoAt(job.path, job.n)
  BY Zenon, <1>1, BlockLoopLemma
<1>3. /\ job \in Jobs /\ job.path \in Seq(Entry) /\ job.n \in 1..Len(job.path)
      /\ Valid(job.path) /\ e \in Entry
  BY <1>1 DEF IInv, TypeOK, Jobs, PathsValid
<1>4. job'.kind = "disconnect" /\ job'.path = job.path /\ job'.n = job.n - 1
      /\ job' \in Jobs /\ job'.n <= Len(job'.path)
  BY <1>1, <1>3 DEF Jobs
<1>5. tip' \in Cache /\ Sound(tip', db.coins) /\ TipCoins' = TipCoins
  BY Zenon, <1>1, <1>2, TipFetchedLemma DEF TipCoins
<1>6. /\ \A o \in In[e.tx] : e.undo[o] # 0
      /\ \A o \in Outpoint : UtxoAt(job.path, job.n - 1)[o]
                               = IF o \in Out[e.tx] THEN 0
                                 ELSE IF o \in In[e.tx] THEN e.undo[o]
                                 ELSE UtxoAt(job.path, job.n)[o]
  BY Zenon, <1>3, UndoneLemma
<1> HIDE DEF e
<1>7. view' \in Cache /\ Sound(view', TipCoins) /\ ViewCoins' = UtxoAt(job'.path, job'.n)
  <2>1. /\ view' \in Cache /\ Sound(view', TipCoins)
        /\ \A o \in Outpoint : Coins(view', TipCoins)[o] = IF o \in Out[e.tx] THEN 0
                                          ELSE IF o \in In[e.tx] THEN e.undo[o]
                                          ELSE ViewCoins[o]
    BY <1>1, <1>2, <1>3, <1>6, UndoTxLemma DEF ViewCoins
  <2>2. \A o \in Outpoint : Coins(view', TipCoins)[o] = UtxoAt(job.path, job.n - 1)[o]
    BY Zenon, <1>2, <1>6, <2>1
  <2>3. UtxoAt(job.path, job.n - 1) \in Utxo /\ Coins(view', TipCoins) \in Utxo
    BY <1>2, <1>3, <2>1, PathType, CoinsType
  <2>4. Coins(view', TipCoins) = UtxoAt(job.path, job.n - 1)
    BY <2>2, <2>3 DEF Utxo
  <2> QED BY Zenon, <1>4, <1>5, <2>1, <2>4 DEF ViewCoins
<1>8. TypeOK'
  BY Zenon, <1>1, <1>4, <1>5, <1>7 DEF IInv, TypeOK
<1>9. ModeInv' /\ PathsValid' /\ BlockInv' /\ ReplayInv' /\ WriteInv'
  BY Zenon, <1>1, <1>2, <1>4 DEF IInv, ModeInv, PathsValid, BlockInv, ReplayInv, WriteInv
<1>10. FlagsSound' /\ CoinsOfChain' /\ DiskRecoverable'
  BY Zenon, <1>1, <1>2, <1>4, <1>5, <1>7 DEF IInv, FlagsSound, CoinsOfChain, DiskRecoverable
<1> QED BY Zenon, <1>8, <1>9, <1>10 DEF IInv

(* A write begins with everything that differs from the database. *)
LEMMA BeginWriteLemma ==
    ASSUME IInv, wr = NoWrite, TipCoins = UtxoOf(chain), mode # "down",
           view = EmptyCache, db.mid => db.new = chain,
           NEW kind \in {"flush", "sync"}, wr' = [kind |-> kind, left |-> Dirty(tip)],
           job' = NoJob, UNCHANGED <<chain, view, tip, db, mode>>
    PROVE  IInv'
<1>1. /\ wr'.kind = kind /\ wr'.left = Dirty(tip) /\ wr'.kind # "none"
      /\ wr' \in [kind: {"none", "flush", "sync"}, left: SUBSET Outpoint]
      /\ job'.kind = "none" /\ job'.path = <<>> /\ job'.n = 0 /\ Len(<<>>) = 0
      /\ Valid(<<>>) /\ wr' # NoWrite
  BY DEF Dirty, NoJob, NoWrite, Valid
<1>2. TypeOK'
  BY <1>1 DEF IInv, TypeOK, Jobs, NoJob
<1>3. TipCoins' = TipCoins
  BY Zenon DEF TipCoins
<1>4. ModeInv' /\ PathsValid' /\ BlockInv' /\ ReplayInv'
  BY Zenon, <1>1 DEF IInv, TypeOK, ModeInv, PathsValid, BlockInv, ReplayInv
<1>5. WriteInv'
  <2>1. \A o \in Outpoint : EntrySound(tip[o], db.coins[o]) /\ tip[o] \in CacheEntry
    BY Zenon DEF IInv, TypeOK, Cache, FlagsSound, Sound
  <2>2. \A o \in Dirty(tip) : tip[o].in
    BY <2>1 DEF Dirty, EntrySound, Absent
  <2>3. \A o \in Outpoint \ Dirty(tip) : tip[o].in => tip[o].coin = db.coins[o]
    BY Zenon, <2>1 DEF Dirty, EntrySound
  <2> QED BY Zenon, <1>1, <1>3, <2>1, <2>2, <2>3 DEF WriteInv
<1>6. FlagsSound' /\ CoinsOfChain' /\ DiskRecoverable'
  BY Zenon, <1>1, <1>3 DEF IInv, FlagsSound, CoinsOfChain, DiskRecoverable
<1> QED BY Zenon, <1>2, <1>4, <1>5, <1>6 DEF IInv

LEMMA FlushStateToDiskLemma ==
    ASSUME IInv, NEW kind \in {"flush", "sync"}, FlushStateToDisk(kind)
    PROVE  IInv'
<1>1. /\ mode = "up" /\ job = NoJob /\ wr = NoWrite /\ view = EmptyCache
      /\ TipCoins = UtxoOf(chain)
  BY Zenon DEF FlushStateToDisk, Idle, IInv, ModeInv, CoinsOfChain, NoJob
<1> QED BY Zenon, <1>1, BeginWriteLemma DEF FlushStateToDisk

LEMMA ReplayFlushLemma ==
    ASSUME IInv, ReplayFlush
    PROVE  IInv'
<1>1. /\ job.kind = "forward" /\ job.n = Len(job.path) /\ mode = "replay"
      /\ wr = NoWrite /\ view = EmptyCache /\ chain = db.new
  BY DEF ReplayFlush, IInv, TypeOK, ModeInv, NoJob
<1>2. TipCoins = UtxoOf(chain)
  <2>1. \A o \in Outpoint : TipCoins[o] = UtxoOf(chain)[o]
    BY Zenon, <1>1 DEF IInv, ReplayInv, UtxoOf
  <2>2. TipCoins \in Utxo /\ UtxoOf(chain) \in Utxo
    BY Zenon, CoinsType, PathType DEF IInv, TypeOK, TipCoins
  <2> QED BY <2>1, <2>2 DEF Utxo
<1>3. "flush" \in {"flush", "sync"}
  BY Zenon
<1> QED BY Zenon, <1>1, <1>2, <1>3, BeginWriteLemma DEF ReplayFlush

(* What holds while the cache is written. *)
LEMMA WriteLoopLemma ==
    ASSUME IInv, wr.kind # "none"
    PROVE  /\ mode \in {"up", "replay"} /\ job = NoJob /\ view = EmptyCache
           /\ tip \in Cache /\ db.coins \in Utxo /\ wr.left \subseteq Outpoint
           /\ wr.kind \in {"flush", "sync"}
           /\ chain \in Seq(Entry) /\ UtxoOf(chain) \in Utxo /\ TipCoins = UtxoOf(chain)
           /\ \A o \in Outpoint :
                 /\ tip[o] \in CacheEntry
                 /\ o \in wr.left => tip[o].in
                 /\ UtxoOf(chain)[o] = IF o \in wr.left THEN tip[o].coin ELSE db.coins[o]
                 /\ o \notin wr.left /\ tip[o].in => tip[o].coin = db.coins[o]
                 /\ o \notin wr.left /\ wr.kind = "sync" => EntrySound(tip[o], db.coins[o])
<1>1. /\ tip \in Cache /\ db.coins \in Utxo /\ wr.left \subseteq Outpoint /\ chain \in Seq(Entry)
      /\ UtxoOf(chain) \in Utxo
      /\ wr.kind \in {"flush", "sync"} /\ TipCoins = UtxoOf(chain)
  BY Zenon, PathType DEF IInv, TypeOK, WriteInv
<1>2. mode \in {"up", "replay"} /\ job = NoJob /\ view = EmptyCache
  <2>1. mode \in {"up", "down", "replay"} /\ wr # NoWrite
    BY DEF IInv, TypeOK, NoWrite
  <2>2. mode # "down" /\ job.kind = "none"
    BY Zenon, <2>1 DEF IInv, ModeInv
  <2>3. job = NoJob /\ view = EmptyCache
    BY Zenon, <2>2 DEF IInv, ModeInv
  <2> QED BY Zenon, <2>1, <2>2, <2>3
<1>3. \A o \in Outpoint : UtxoOf(chain)[o] = GetCoin(tip[o], db.coins[o])
  BY Zenon, <1>1 DEF TipCoins, Coins
<1>4. \A o \in Outpoint :
        /\ tip[o] \in CacheEntry
        /\ o \in wr.left => tip[o].in
        /\ o \notin wr.left /\ tip[o].in => tip[o].coin = db.coins[o]
        /\ o \notin wr.left /\ wr.kind = "sync" => EntrySound(tip[o], db.coins[o])
  BY Zenon, <1>1 DEF IInv, WriteInv, Cache
<1>5. \A o \in Outpoint :
        UtxoOf(chain)[o] = IF o \in wr.left THEN tip[o].coin ELSE db.coins[o]
  BY Zenon, <1>3, <1>4 DEF GetCoin
<1> QED BY Zenon, <1>1, <1>2, <1>4, <1>5

(* A batch brings the coins it holds to the new tip and changes no answer. *)
LEMMA WrittenLemma ==
    ASSUME IInv, wr.kind # "none", NEW S \in SUBSET wr.left
    PROVE  /\ Written(S) \in Utxo
           /\ \A o \in Outpoint :
                 Written(S)[o] = IF o \in S THEN UtxoOf(chain)[o] ELSE db.coins[o]
           /\ Cleaned(S) \in Cache
           /\ Coins(Cleaned(S), Written(S)) = UtxoOf(chain)
           /\ \A o \in wr.left \ S : Cleaned(S)[o].in
           /\ \A o \in Outpoint : o \notin wr.left \/ o \in S =>
                 /\ Cleaned(S)[o].in => Cleaned(S)[o].coin = Written(S)[o]
                 /\ wr.kind = "sync" => EntrySound(Cleaned(S)[o], Written(S)[o])
<1> USE WriteLoopLemma
<1>1. \A o \in Outpoint : /\ Written(S)[o] = IF o \in S THEN UtxoOf(chain)[o] ELSE db.coins[o]
                          /\ o \in S => Written(S)[o] = tip[o].coin
                          /\ Written(S)[o] \in Nat
  BY Zenon DEF Written, Utxo, CacheEntry
<1>2. Written(S) \in Utxo
  <2>1. Written(S) = [o \in Outpoint |-> Written(S)[o]]
    BY Zenon DEF Written
  <2> QED BY Zenon, <1>1, <2>1 DEF Utxo
<1>3. ASSUME NEW o \in Outpoint
      PROVE  /\ Cleaned(S)[o] \in CacheEntry
             /\ GetCoin(Cleaned(S)[o], Written(S)[o]) = UtxoOf(chain)[o]
             /\ o \in wr.left \ S => Cleaned(S)[o].in
             /\ o \notin wr.left \/ o \in S =>
                   /\ Cleaned(S)[o].in => Cleaned(S)[o].coin = Written(S)[o]
                   /\ wr.kind = "sync" => EntrySound(Cleaned(S)[o], Written(S)[o])
  <2>1. CASE wr.kind = "sync" /\ o \in S
    <3>1. Cleaned(S)[o] = SetClean(tip[o])
      BY Zenon, <2>1 DEF Cleaned
    <3>2. /\ tip[o] \in CacheEntry /\ tip[o].in
          /\ Written(S)[o] = tip[o].coin /\ Written(S)[o] = UtxoOf(chain)[o]
      BY Zenon, <2>1, <1>1
    <3>3. /\ SetClean(tip[o]) \in CacheEntry
          /\ EntrySound(SetClean(tip[o]), tip[o].coin)
          /\ GetCoin(SetClean(tip[o]), tip[o].coin) = tip[o].coin
          /\ SetClean(tip[o]).in => SetClean(tip[o]).coin = tip[o].coin
      BY Zenon, <3>2, SetCleanLemma
    <3> QED BY Zenon, <2>1, <3>1, <3>2, <3>3
  <2>2. CASE ~(wr.kind = "sync" /\ o \in S)
    <3>1. Cleaned(S)[o] = tip[o]
      BY Zenon, <2>2 DEF Cleaned
    <3> QED BY Zenon, <2>2, <3>1, <1>1 DEF GetCoin
  <2> QED BY Zenon, <2>1, <2>2
<1>4. Cleaned(S) \in Cache
  <2>1. Cleaned(S) = [o \in Outpoint |-> Cleaned(S)[o]]
    BY Zenon DEF Cleaned
  <2> QED BY Zenon, <1>3, <2>1 DEF Cache
<1>5. Coins(Cleaned(S), Written(S)) = UtxoOf(chain)
  BY Zenon, <1>3 DEF Coins, Utxo
<1> QED BY Zenon, <1>1, <1>2, <1>3, <1>4, <1>5

LEMMA WritePartialLemma ==
    ASSUME IInv, NEW S \in SUBSET wr.left, WritePartial(S)
    PROVE  IInv'
<1> DEFINE w == Written(S)
<1>1. /\ wr.kind # "none" /\ tip' = Cleaned(S)
      /\ UNCHANGED <<chain, view, job, mode>>
      /\ db' = [coins |-> w, mid |-> TRUE, new |-> chain,
                old |-> IF db.mid THEN db.old ELSE db.new]
      /\ wr' = [wr EXCEPT !.left = @ \ S]
  BY Zenon DEF WritePartial
<1>2. /\ db'.coins = w /\ db'.mid /\ db'.new = chain
      /\ db'.old = IF db.mid THEN db.old ELSE db.new
  BY Zenon, <1>1
<1>3. /\ wr'.kind = wr.kind /\ wr'.left = wr.left \ S /\ wr' # NoWrite
      /\ wr' \in [kind: {"none", "flush", "sync"}, left: SUBSET Outpoint]
  BY Zenon, <1>1 DEF IInv, TypeOK, NoWrite
<1>4. /\ w \in Utxo /\ Cleaned(S) \in Cache
      /\ \A o \in Outpoint : w[o] = IF o \in S THEN UtxoOf(chain)[o] ELSE db.coins[o]
      /\ Coins(Cleaned(S), w) = UtxoOf(chain)
      /\ \A o \in wr.left \ S : Cleaned(S)[o].in
      /\ \A o \in Outpoint : o \notin wr.left \/ o \in S =>
            /\ Cleaned(S)[o].in => Cleaned(S)[o].coin = w[o]
            /\ wr.kind = "sync" => EntrySound(Cleaned(S)[o], w[o])
  BY Zenon, <1>1, WrittenLemma
<1>5. /\ mode \in {"up", "replay"} /\ job = NoJob /\ view = EmptyCache /\ job.kind = "none"
      /\ UtxoOf(chain) \in Utxo
  BY <1>1, WriteLoopLemma DEF NoJob
<1> HIDE DEF w
<1>6. TipCoins' = UtxoOf(chain)
  BY Zenon, <1>1, <1>2, <1>4 DEF TipCoins
<1>7. TypeOK'
  <2>1. db' \in [coins: Utxo, mid: BOOLEAN, new: Seq(Entry), old: Seq(Entry)]
    BY Zenon, <1>1, <1>4 DEF IInv, TypeOK
  <2> QED BY Zenon, <1>1, <1>3, <1>4, <2>1 DEF IInv, TypeOK
<1>8. ModeInv'
  BY Zenon, <1>1, <1>2, <1>3, <1>5 DEF IInv, ModeInv
<1>9. PathsValid' /\ BlockInv' /\ ReplayInv'
  BY Zenon, <1>1, <1>2, <1>5 DEF IInv, PathsValid, BlockInv, ReplayInv
<1>10. WriteInv'
  BY Zenon, <1>1, <1>2, <1>3, <1>4, <1>6 DEF WriteInv
<1>11. FlagsSound' /\ CoinsOfChain'
  BY Zenon, <1>1, <1>3, <1>5, <1>6, EmptyLemma DEF FlagsSound, CoinsOfChain
<1>12. DiskRecoverable'
  <2>1. \A o \in Outpoint : db.coins[o] \in {UtxoOf(db'.old)[o], UtxoOf(chain)[o]}
    <3>1. CASE db.mid
      BY Zenon, <3>1, <1>1, <1>2 DEF IInv, ModeInv, DiskRecoverable
    <3>2. CASE ~db.mid
      BY Zenon, <3>2, <1>2 DEF IInv, DiskRecoverable
    <3> QED BY Zenon, <3>1, <3>2
  <2> QED BY Zenon, <1>2, <1>4, <2>1 DEF DiskRecoverable
<1> QED BY Zenon, <1>7, <1>8, <1>9, <1>10, <1>11, <1>12 DEF IInv

LEMMA WriteFinalLemma ==
    ASSUME IInv, WriteFinal
    PROVE  IInv'
<1> DEFINE w == Written(wr.left)
<1>1. /\ wr.kind # "none"
      /\ db' = [coins |-> w, mid |-> FALSE, new |-> chain, old |-> chain]
      /\ tip' = IF wr.kind = "sync" THEN Cleaned(wr.left) ELSE EmptyCache
      /\ wr' = NoWrite /\ mode' = "up"
      /\ UNCHANGED <<chain, view, job>>
  BY Zenon DEF WriteFinal
<1>2. /\ db'.coins = w /\ ~db'.mid /\ db'.new = chain /\ db'.old = chain
      /\ wr'.kind = "none" /\ wr' \in [kind: {"none", "flush", "sync"}, left: SUBSET Outpoint]
  BY Zenon, <1>1 DEF NoWrite
<1>3. /\ w \in Utxo /\ Cleaned(wr.left) \in Cache
      /\ \A o \in Outpoint : w[o] = IF o \in wr.left THEN UtxoOf(chain)[o] ELSE db.coins[o]
      /\ Coins(Cleaned(wr.left), w) = UtxoOf(chain)
      /\ wr.kind = "sync" => \A o \in Outpoint : EntrySound(Cleaned(wr.left)[o], w[o])
  <2>1. wr.left \in SUBSET wr.left
    BY Zenon
  <2>2. /\ w \in Utxo /\ Cleaned(wr.left) \in Cache
        /\ \A o \in Outpoint : w[o] = IF o \in wr.left THEN UtxoOf(chain)[o] ELSE db.coins[o]
        /\ Coins(Cleaned(wr.left), w) = UtxoOf(chain)
        /\ \A o \in Outpoint : wr.kind = "sync" => EntrySound(Cleaned(wr.left)[o], w[o])
    BY Zenon, <1>1, <2>1, WrittenLemma
  <2> QED BY Zenon, <2>2
<1>4. /\ job = NoJob /\ view = EmptyCache /\ job.kind = "none"
      /\ chain \in Seq(Entry) /\ UtxoOf(chain) \in Utxo
      /\ \A o \in Outpoint :
            UtxoOf(chain)[o] = IF o \in wr.left THEN tip[o].coin ELSE db.coins[o]
  <2>1. NoJob.kind = "none"
    BY Zenon DEF NoJob
  <2>2. /\ job = NoJob /\ view = EmptyCache
        /\ chain \in Seq(Entry) /\ UtxoOf(chain) \in Utxo
        /\ \A o \in Outpoint :
              UtxoOf(chain)[o] = IF o \in wr.left THEN tip[o].coin ELSE db.coins[o]
    BY Zenon, <1>1, WriteLoopLemma
  <2> QED BY Zenon, <2>1, <2>2
<1> HIDE DEF w
<1>5. w = UtxoOf(chain)
  BY <1>3, <1>4 DEF Utxo
<1>6. tip' \in Cache /\ Sound(tip', w) /\ TipCoins' = UtxoOf(chain)
  <2>1. CASE wr.kind = "sync"
    BY Zenon, <2>1, <1>1, <1>2, <1>3 DEF Sound, TipCoins
  <2>2. CASE wr.kind # "sync"
    BY Zenon, <2>2, <1>1, <1>2, <1>4, <1>5, EmptyLemma DEF TipCoins
  <2> QED BY Zenon, <2>1, <2>2
<1>7. TypeOK'
  <2>1. db' \in [coins: Utxo, mid: BOOLEAN, new: Seq(Entry), old: Seq(Entry)]
    BY Zenon, <1>1, <1>3, <1>4
  <2> QED BY Zenon, <1>1, <1>2, <1>6, <2>1 DEF IInv, TypeOK
<1>8. ModeInv'
  BY Zenon, <1>1, <1>2, <1>4 DEF IInv, ModeInv
<1>9. PathsValid' /\ BlockInv' /\ ReplayInv' /\ WriteInv'
  BY Zenon, <1>1, <1>2, <1>4 DEF IInv, PathsValid, BlockInv, ReplayInv, WriteInv
<1>10. FlagsSound' /\ CoinsOfChain' /\ DiskRecoverable'
  BY Zenon, <1>1, <1>2, <1>4, <1>5, <1>6, EmptyLemma DEF FlagsSound, CoinsOfChain, DiskRecoverable
<1> QED BY Zenon, <1>7, <1>8, <1>9, <1>10 DEF IInv

LEMMA CrashLemma ==
    ASSUME IInv, Crash
    PROVE  IInv'
<1>1. /\ mode' = "down" /\ view' = EmptyCache /\ tip' = EmptyCache
      /\ job' = NoJob /\ job'.kind = "none" /\ job'.path = <<>> /\ job'.n = 0
      /\ wr' = NoWrite /\ wr'.kind = "none" /\ Len(<<>>) = 0 /\ Valid(<<>>)
      /\ UNCHANGED <<chain, db>>
  <2>1. /\ mode' = "down" /\ view' = EmptyCache /\ tip' = EmptyCache
        /\ job' = NoJob /\ wr' = NoWrite /\ UNCHANGED <<chain, db>>
    BY Zenon DEF Crash
  <2>2. job'.kind = "none" /\ job'.path = <<>> /\ job'.n = 0 /\ wr'.kind = "none"
    BY Zenon, <2>1 DEF NoJob, NoWrite
  <2>3. Len(<<>>) = 0
    BY Zenon
  <2>4. Valid(<<>>)
    BY <2>3 DEF Valid
  <2> QED BY Zenon, <2>1, <2>2, <2>3, <2>4
<1>2. db.coins \in Utxo /\ TipCoins' = db.coins
  BY Zenon, <1>1, EmptyLemma DEF IInv, TypeOK, TipCoins
<1>3. TypeOK'
  <2>1. NoJob \in Jobs /\ NoJob.n <= Len(NoJob.path)
    BY DEF Jobs, NoJob
  <2>2. NoWrite \in [kind: {"none", "flush", "sync"}, left: SUBSET Outpoint]
    BY Zenon DEF NoWrite
  <2>3. mode' \in {"up", "down", "replay"}
    BY Zenon, <1>1
  <2> QED BY Zenon, <1>1, <2>1, <2>2, <2>3, EmptyLemma DEF IInv, TypeOK
<1>4. ModeInv' /\ PathsValid' /\ BlockInv' /\ ReplayInv' /\ WriteInv'
  BY Zenon, <1>1 DEF IInv, ModeInv, PathsValid, BlockInv, ReplayInv, WriteInv
<1>5. FlagsSound' /\ CoinsOfChain' /\ DiskRecoverable'
  BY Zenon, <1>1, <1>2, EmptyLemma DEF IInv, FlagsSound, CoinsOfChain, DiskRecoverable
<1> QED BY Zenon, <1>3, <1>4, <1>5 DEF IInv

LEMMA RestartLemma ==
    ASSUME IInv, Restart
    PROVE  IInv'
<1>1. /\ mode = "down" /\ job = NoJob /\ wr = NoWrite /\ tip = EmptyCache
      /\ job.kind = "none" /\ wr.kind = "none" /\ view = EmptyCache
      /\ UNCHANGED <<view, tip, db, wr>> /\ chain' = db.new
      /\ job.n = 0 /\ job.path = <<>>
  BY DEF Restart, IInv, ModeInv, NoJob, NoWrite
<1>2. /\ db.coins \in Utxo /\ db.new \in Seq(Entry) /\ db.old \in Seq(Entry)
      /\ Len(db.old) \in Nat /\ UtxoOf(db.new) \in Utxo
      /\ Valid(db.new) /\ Valid(db.old)
      /\ TipCoins = db.coins
  BY Zenon, <1>1, EmptyLemma, PathType DEF IInv, TypeOK, PathsValid, TipCoins
<1>3. TipCoins' = db.coins
  BY Zenon, <1>1, <1>2 DEF TipCoins
<1>4. CASE db.mid
  <2>1. /\ mode' = "replay" /\ job'.kind = "back" /\ job'.path = db.old /\ job'.n = Len(db.old)
        /\ job' \in Jobs
    <3>1. mode' = "replay" /\ job' = [kind |-> "back", path |-> db.old, n |-> Len(db.old)]
      BY Zenon, <1>4 DEF Restart
    <3>2. [kind |-> "back", path |-> db.old, n |-> Len(db.old)] \in Jobs
      BY Zenon, <1>2 DEF Jobs
    <3> QED BY Zenon, <3>1, <3>2
  <2>2. TypeOK' /\ ModeInv' /\ PathsValid'
    <3>1. TypeOK'
      BY <1>1, <1>2, <2>1 DEF IInv, TypeOK
    <3>2. ModeInv'
      BY Zenon, <1>1, <1>4, <2>1 DEF IInv, ModeInv
    <3>3. PathsValid'
      BY Zenon, <1>1, <1>2, <2>1 DEF PathsValid
    <3> QED BY Zenon, <3>1, <3>2, <3>3
  <2>3. BlockInv' /\ WriteInv'
    BY Zenon, <1>1, <2>1 DEF BlockInv, WriteInv
  <2>4. ReplayInv'
    BY Zenon, <1>1, <1>3, <1>4, <2>1 DEF IInv, DiskRecoverable, ReplayInv, UtxoOf
  <2>5. FlagsSound' /\ CoinsOfChain' /\ DiskRecoverable'
    BY Zenon, <1>1, <1>2, <1>3, <2>1, EmptyLemma DEF IInv, FlagsSound, CoinsOfChain, DiskRecoverable
  <2> QED BY Zenon, <2>2, <2>3, <2>4, <2>5 DEF IInv
<1>5. CASE ~db.mid
  <2>1. mode' = "up" /\ job' = job
    BY Zenon, <1>5 DEF Restart
  <2>2. db.coins = UtxoOf(db.new)
    BY <1>2, <1>5 DEF IInv, DiskRecoverable, Utxo
  <2>3. TypeOK' /\ ModeInv' /\ PathsValid'
    BY Zenon, <1>1, <1>2, <1>5, <2>1 DEF IInv, TypeOK, ModeInv, PathsValid
  <2>4. BlockInv' /\ WriteInv' /\ ReplayInv'
    BY Zenon, <1>1, <2>1 DEF BlockInv, WriteInv, ReplayInv
  <2>5. FlagsSound' /\ CoinsOfChain' /\ DiskRecoverable'
    BY Zenon, <1>1, <1>2, <1>3, <2>1, <2>2, EmptyLemma DEF IInv, FlagsSound, CoinsOfChain, DiskRecoverable
  <2> QED BY Zenon, <2>3, <2>4, <2>5 DEF IInv
<1> QED BY Zenon, <1>4, <1>5

(* What holds while ReplayBlocks walks over a chain. *)
LEMMA ReplayLoopLemma ==
    ASSUME IInv, job.kind \in {"back", "forward"}
    PROVE  /\ mode = "replay" /\ wr = NoWrite /\ wr.kind = "none" /\ view = EmptyCache
           /\ db.mid /\ chain = db.new
           /\ tip \in Cache /\ db.coins \in Utxo /\ Sound(tip, db.coins)
           /\ job \in Jobs /\ job.path \in Seq(Entry) /\ job.n \in 0..Len(job.path)
           /\ Valid(job.path)
           /\ db.new \in Seq(Entry) /\ UtxoOf(db.new) \in Utxo /\ TipCoins \in Utxo
<1>1. mode = "replay"
  BY DEF IInv, TypeOK, ModeInv, NoJob
<1>2. wr = NoWrite /\ wr.kind = "none" /\ view = EmptyCache /\ db.mid /\ chain = db.new
  BY <1>1 DEF IInv, ModeInv, NoWrite
<1>3. /\ tip \in Cache /\ db.coins \in Utxo /\ Sound(tip, db.coins)
      /\ job \in Jobs /\ job.path \in Seq(Entry) /\ job.n \in 0..Len(job.path)
      /\ Valid(job.path) /\ db.new \in Seq(Entry)
  BY <1>2 DEF IInv, TypeOK, FlagsSound, Jobs, PathsValid
<1>4. UtxoOf(db.new) \in Utxo /\ TipCoins \in Utxo
  BY Zenon, <1>3, PathType, CoinsType DEF TipCoins
<1> QED BY Zenon, <1>1, <1>2, <1>3, <1>4

(* A step of the replay to an adjacent place of the same chain. *)
LEMMA ReplayStepLemma ==
    ASSUME IInv, job.kind \in {"back", "forward"}, job' \in Jobs,
           job'.kind = job.kind, job'.path = job.path, job'.n \in 0..Len(job.path),
           UNCHANGED <<chain, view, db, wr, mode>>,
           tip' \in Cache, Sound(tip', db.coins),
           \A o \in Outpoint : Coins(tip', db.coins)[o]
               \in {UtxoAt(job.path, job'.n)[o], UtxoOf(db.new)[o]}
    PROVE  IInv'
<1> USE ReplayLoopLemma
<1>1. TypeOK'
  <2>1. TypeOK /\ job'.n <= Len(job'.path)
    BY DEF IInv
  <2> QED BY ONLY Zenon, <2>1, job' \in Jobs, tip' \in Cache, UNCHANGED <<chain, view, db, wr, mode>> DEF TypeOK
<1>2. ModeInv' /\ PathsValid' /\ BlockInv' /\ WriteInv'
  <2>1. ModeInv'
    BY Zenon DEF IInv, ModeInv
  <2>2. PathsValid'
    BY Zenon DEF IInv, PathsValid
  <2>3. BlockInv' /\ WriteInv'
    BY Zenon DEF BlockInv, WriteInv
  <2> QED BY Zenon, <2>1, <2>2, <2>3
<1>3. ReplayInv'
  BY Zenon DEF IInv, ReplayInv, TipCoins
<1>4. TipCoins' \in Utxo
  BY Zenon, CoinsType DEF TipCoins
<1>5. FlagsSound' /\ CoinsOfChain' /\ DiskRecoverable'
  BY Zenon, <1>4, EmptyLemma DEF IInv, FlagsSound, CoinsOfChain, DiskRecoverable
<1> QED BY Zenon, <1>1, <1>2, <1>3, <1>5 DEF IInv

LEMMA RollbackTxLemma ==
    ASSUME IInv, RollbackTx
    PROVE  IInv'
<1> DEFINE e == job.path[job.n]
<1>1. /\ job.kind = "back" /\ ~Common(db.old, db.new, job.n)
      /\ tip' = UndoTx(tip, db.coins, e)
      /\ job' = [job EXCEPT !.n = @ - 1]
      /\ UNCHANGED <<chain, view, db, wr, mode>>
  BY Zenon DEF RollbackTx
<1>2. /\ tip \in Cache /\ db.coins \in Utxo /\ Sound(tip, db.coins)
      /\ job \in Jobs /\ job.path \in Seq(Entry) /\ job.n \in 0..Len(job.path)
      /\ Valid(job.path) /\ db.new \in Seq(Entry) /\ job.path = db.old
  BY Zenon, <1>1, ReplayLoopLemma DEF IInv, ReplayInv
<1>3. job.n \in 1..Len(job.path)
  <2>1. Common(db.old, db.new, 0)
    BY <1>2 DEF Common, BlockEnd
  <2> QED BY <1>1, <1>2, <2>1
<1>4. /\ e \in Entry /\ job' \in Jobs
      /\ job'.kind = job.kind /\ job'.path = job.path /\ job'.n = job.n - 1
      /\ job'.n \in 0..Len(job.path)
  BY <1>1, <1>2, <1>3 DEF Jobs
<1>5. /\ \A o \in In[e.tx] : e.undo[o] # 0
      /\ \A o \in Outpoint : UtxoAt(job.path, job.n - 1)[o]
                               = IF o \in Out[e.tx] THEN 0
                                 ELSE IF o \in In[e.tx] THEN e.undo[o]
                                 ELSE UtxoAt(job.path, job.n)[o]
  BY Zenon, <1>2, <1>3, UndoneLemma
<1> HIDE DEF e
<1>6. /\ tip' \in Cache /\ Sound(tip', db.coins)
      /\ \A o \in Outpoint : Coins(tip', db.coins)[o] = IF o \in Out[e.tx] THEN 0
                                          ELSE IF o \in In[e.tx] THEN e.undo[o]
                                          ELSE TipCoins[o]
  BY <1>1, <1>2, <1>4, <1>5, UndoTxLemma DEF TipCoins
<1>7. \A o \in Outpoint : TipCoins[o] \in {UtxoAt(job.path, job.n)[o], UtxoOf(db.new)[o]}
  BY Zenon, <1>1 DEF IInv, ReplayInv
<1>8. \A o \in Outpoint : Coins(tip', db.coins)[o]
         \in {UtxoAt(job.path, job'.n)[o], UtxoOf(db.new)[o]}
  BY Zenon, <1>4, <1>5, <1>6, <1>7
<1> QED BY Zenon, <1>1, <1>4, <1>6, <1>8, ReplayStepLemma

LEMMA RollforwardTxLemma ==
    ASSUME IInv, RollforwardTx
    PROVE  IInv'
<1> DEFINE e == job.path[job.n + 1]
<1>1. /\ job.kind = "forward" /\ job.n < Len(job.path)
      /\ tip' = RedoTx(tip, db.coins, e)
      /\ job' = [job EXCEPT !.n = @ + 1]
      /\ UNCHANGED <<chain, view, db, wr, mode>>
  BY Zenon DEF RollforwardTx
<1>2. /\ tip \in Cache /\ db.coins \in Utxo /\ Sound(tip, db.coins)
      /\ job \in Jobs /\ job.path \in Seq(Entry) /\ job.n \in 0..Len(job.path)
      /\ Valid(job.path)
  BY Zenon, <1>1, ReplayLoopLemma
<1>3. job.n + 1 \in 1..Len(job.path) /\ (job.n + 1) - 1 = job.n
  BY <1>1, <1>2
<1>4. /\ e \in Entry /\ job' \in Jobs
      /\ job'.kind = job.kind /\ job'.path = job.path /\ job'.n = job.n + 1
      /\ job'.n \in 0..Len(job.path)
  BY <1>1, <1>2, <1>3 DEF Jobs
<1>5. e.height # 0 /\ UtxoAt(job.path, job.n + 1) = ApplyTx(UtxoAt(job.path, job.n), e.tx, e.height)
  <2>1. ValidEntry(job.path, job.n + 1) /\ e.height # 0
    BY Zenon, <1>2, <1>3 DEF Valid
  <2>2. UtxoAt(job.path, job.n + 1) = job.path[job.n + 1].utxo
    BY <1>2, <1>3 DEF UtxoAt
  <2> QED BY Zenon, <1>3, <2>1, <2>2 DEF ValidEntry
<1> HIDE DEF e
<1>6. /\ tip' \in Cache /\ Sound(tip', db.coins)
      /\ \A o \in Outpoint : Coins(tip', db.coins)[o] = IF o \in Out[e.tx] THEN e.height
                                          ELSE IF o \in In[e.tx] THEN 0
                                          ELSE TipCoins[o]
  BY <1>1, <1>2, <1>4, <1>5, RedoTxLemma DEF TipCoins
<1>7. \A o \in Outpoint : TipCoins[o] \in {UtxoAt(job.path, job.n)[o], UtxoOf(db.new)[o]}
  BY Zenon, <1>1 DEF IInv, ReplayInv
<1>8. \A o \in Outpoint : Coins(tip', db.coins)[o]
         \in {UtxoAt(job.path, job'.n)[o], UtxoOf(db.new)[o]}
  BY <1>4, <1>5, <1>6, <1>7 DEF ApplyTx
<1> QED BY Zenon, <1>1, <1>4, <1>6, <1>8, ReplayStepLemma

LEMMA RolledBackLemma ==
    ASSUME IInv, RolledBack
    PROVE  IInv'
<1>1. /\ job.kind = "back" /\ Common(db.old, db.new, job.n)
      /\ job' = [kind |-> "forward", path |-> db.new, n |-> job.n]
      /\ UNCHANGED <<chain, view, tip, db, wr, mode>>
  BY Zenon DEF RolledBack
<1>2. /\ mode = "replay" /\ wr = NoWrite /\ wr.kind = "none" /\ view = EmptyCache
      /\ db.mid /\ chain = db.new /\ Valid(db.new)
      /\ job.path \in Seq(Entry) /\ job.n \in 0..Len(job.path) /\ job.path = db.old
      /\ db.new \in Seq(Entry)
  BY Zenon, <1>1, ReplayLoopLemma DEF IInv, PathsValid, ReplayInv
<1>3. job'.kind = "forward" /\ job'.path = db.new /\ job'.n = job.n
  BY Zenon, <1>1
<1>4. job.n <= Len(db.new) /\ UtxoAt(job.path, job.n) = UtxoAt(db.new, job.n)
  <2>1. /\ job.n \in Nat /\ job.n <= Len(job.path) /\ job.n <= Len(db.new)
        /\ SubSeq(job.path, 1, job.n) = SubSeq(db.new, 1, job.n)
    BY <1>1, <1>2 DEF Common
  <2>2. \A k \in 1..job.n : job.path[k] = db.new[k]
    <3>1. \A k \in 1..job.n : /\ SubSeq(job.path, 1, job.n)[k] = job.path[k]
                              /\ SubSeq(db.new, 1, job.n)[k] = db.new[k]
      BY <1>2, <2>1
    <3> QED BY Zenon, <2>1, <3>1
  <2>3. \A k \in 0..job.n : UtxoAt(job.path, k) = UtxoAt(db.new, k)
    BY Zenon, <1>2, <2>1, <2>2, AgreeLemma
  <2> QED BY <2>1, <2>3
<1>5. TypeOK'
  <2>1. job' \in Jobs
    BY <1>1, <1>2 DEF Jobs
  <2> QED BY Zenon, <1>1, <1>3, <1>4, <2>1 DEF IInv, TypeOK
<1>6. ModeInv' /\ PathsValid' /\ BlockInv' /\ WriteInv'
  BY Zenon, <1>1, <1>2, <1>3 DEF IInv, ModeInv, PathsValid, BlockInv, WriteInv
<1>7. TipCoins' = TipCoins
  BY Zenon, <1>1 DEF TipCoins
<1>8. ReplayInv'
  BY Zenon, <1>1, <1>3, <1>4, <1>7 DEF IInv, ReplayInv
<1>9. FlagsSound' /\ CoinsOfChain' /\ DiskRecoverable'
  BY Zenon, <1>1, <1>2, <1>7 DEF IInv, FlagsSound, CoinsOfChain, DiskRecoverable
<1> QED BY Zenon, <1>5, <1>6, <1>8, <1>9 DEF IInv

LEMMA StutterLemma ==
    ASSUME IInv, UNCHANGED vars
    PROVE  IInv'
<1>1. UNCHANGED <<chain, view, tip, db, job, wr, mode>>
  BY Zenon DEF vars
<1>2. TipCoins' = TipCoins /\ ViewCoins' = ViewCoins /\ New' = New
  BY Zenon, <1>1 DEF TipCoins, ViewCoins, New
<1>3. \A o : Created(o)' = Created(o)
  BY Zenon, <1>1 DEF Created, New
<1>4. TypeOK' /\ ModeInv' /\ PathsValid'
  BY Zenon, <1>1 DEF IInv, TypeOK, ModeInv, PathsValid
<1>5. BlockInv' /\ ReplayInv' /\ WriteInv'
  BY Zenon, <1>1, <1>2, <1>3 DEF IInv, BlockInv, ReplayInv, WriteInv
<1>6. FlagsSound' /\ CoinsOfChain' /\ DiskRecoverable'
  BY Zenon, <1>1, <1>2 DEF IInv, FlagsSound, CoinsOfChain, DiskRecoverable
<1> QED BY Zenon, <1>4, <1>5, <1>6 DEF IInv

LEMMA NextLemma == IInv /\ [Next]_vars => IInv'
<1> SUFFICES ASSUME IInv, [Next]_vars PROVE IInv'
  BY Zenon
<1>1. CASE Blocks
  BY Zenon, <1>1, AccessCoinLemma, BeginLemma, ConnectTxLemma, RejectBlockLemma, ConnectTipLemma,
     DisconnectTxLemma, DisconnectTipLemma DEF Blocks
<1>2. CASE Writes
  BY Zenon, <1>2, FlushStateToDiskLemma, WritePartialLemma, WriteFinalLemma DEF Writes
<1>3. CASE Replay
  BY Zenon, <1>3, RestartLemma, RollbackTxLemma, RolledBackLemma, RollforwardTxLemma, ReplayFlushLemma
     DEF Replay
<1> QED BY Zenon, <1>1, <1>2, <1>3, CrashLemma, StutterLemma DEF Next

-----------------------------------------------------------------------------
LEMMA InvariantLemma == Spec => []IInv
BY InitLemma, NextLemma, PTL DEF Spec

(* The variables keep their types. *)
THEOREM TypeCorrect == Spec => []TypeOK
<1>1. IInv => TypeOK
  BY Zenon DEF IInv
<1> QED BY <1>1, InvariantLemma, PTL

(* The DIRTY and FRESH flags of both caches say what they mean, whatever   *)
(* sequence of cache operations led there.                                 *)
THEOREM FlagsAreSound == Spec => []FlagsSound
<1>1. IInv => FlagsSound
  BY Zenon DEF IInv
<1> QED BY <1>1, InvariantLemma, PTL

(* Lookups answer with the unspent coins of the chain. *)
THEOREM LookupsAreRight == Spec => []CoinsOfChain
<1>1. IInv => CoinsOfChain
  BY Zenon DEF IInv
<1> QED BY <1>1, InvariantLemma, PTL

(* The database is that of a block, or repairable. *)
THEOREM DiskIsRecoverable == Spec => []DiskRecoverable
<1>1. IInv => DiskRecoverable
  BY Zenon DEF IInv
<1> QED BY <1>1, InvariantLemma, PTL

LEMMA NoFailureLemma == IInv => NoFailure
<1> SUFFICES ASSUME IInv PROVE NoFailure
  BY Zenon
<1>1. ASSUME job.kind = "connect", NEW n \in Len(chain) + 1..job.n
      PROVE  ValidEntry(job.path, n)
  <2>1. n \in 1..Len(job.path)
    BY <1>1, PathType DEF IInv, TypeOK, Jobs
  <2> QED BY Zenon, <2>1 DEF IInv, PathsValid, Valid
<1>2. ASSUME job.kind = "disconnect", InTipBlock
      PROVE  /\ \A o \in Out[job.path[job.n].tx] : ViewCoins[o] = job.path[job.n].height
             /\ \A o \in In[job.path[job.n].tx] : ViewCoins[o] = 0
  <2> DEFINE e == job.path[job.n]
  <2>1. job.n \in 1..Len(job.path) /\ Valid(job.path) /\ job.path \in Seq(Entry)
    BY <1>2 DEF IInv, TypeOK, Jobs, PathsValid, InTipBlock
  <2>2. ViewCoins = e.utxo
    BY <1>2, <2>1, BlockLoopLemma DEF UtxoAt
  <2>3. e.utxo = ApplyTx(UtxoAt(job.path, job.n - 1), e.tx, e.height)
    BY Zenon, <2>1 DEF Valid, ValidEntry
  <2>4. e \in Entry
    BY <2>1
  <2> HIDE DEF e
  <2>5. /\ Out[e.tx] \subseteq Outpoint /\ In[e.tx] \subseteq Outpoint
        /\ In[e.tx] \cap Out[e.tx] = {}
    BY Zenon, <2>4, TxAssumption DEF Entry
  <2>6. /\ \A o \in Out[e.tx] : ViewCoins[o] = e.height
        /\ \A o \in In[e.tx] : ViewCoins[o] = 0
    BY Zenon, <2>2, <2>3, <2>5 DEF ApplyTx
  <2> QED BY Zenon, <2>6 DEF e
<1> QED BY Zenon, <1>1, <1>2 DEF NoFailure

(* AddCoin never throws and DisconnectTip never meets a block that does    *)
(* not match its undo data.                                                *)
THEOREM NeverFails == Spec => []NoFailure
BY NoFailureLemma, InvariantLemma, PTL

-----------------------------------------------------------------------------
(* Refinement: which step of the ledger each action is. *)
LEMMA LedgerOperators ==
    /\ Ledger!NoCoins = NoCoins
    /\ \A p : Ledger!UtxoOf(p) = UtxoOf(p) /\ Ledger!Height(p) = Height(p)
    /\ \A p, n : ValidEntry(p, n) => Ledger!ValidEntry(p, n)
<1>1. Ledger!NoCoins = NoCoins
  BY Zenon DEF Ledger!NoCoins, NoCoins
<1>2. \A p, n : Ledger!UtxoAt(p, n) = UtxoAt(p, n)
  BY Zenon, <1>1 DEF Ledger!UtxoAt, UtxoAt
<1>3. \A p : Ledger!UtxoOf(p) = UtxoOf(p) /\ Ledger!Height(p) = Height(p)
  BY Zenon, <1>2 DEF Ledger!UtxoOf, UtxoOf, Ledger!Height, Height
<1>4. \A u, t, h : Ledger!ApplyTx(u, t, h) = ApplyTx(u, t, h)
  BY Zenon DEF Ledger!ApplyTx, ApplyTx
<1>5. ASSUME NEW p, NEW n, ValidEntry(p, n) PROVE Ledger!ValidEntry(p, n)
  <2>1. Ledger!UtxoAt(p, n - 1) = UtxoAt(p, n - 1)
    BY Zenon, <1>2
  <2>2. Ledger!ApplyTx(UtxoAt(p, n - 1), p[n].tx, p[n].height)
          = ApplyTx(UtxoAt(p, n - 1), p[n].tx, p[n].height)
    BY Zenon, <1>4
  <2> QED BY <1>5, <2>1, <2>2, Zenon DEF Ledger!ValidEntry, ValidEntry
<1> QED BY Zenon, <1>1, <1>3, <1>5

LEMMA LedgerBlockStep ==
    ASSUME IInv, ConnectTip \/ DisconnectTip
    PROVE  Ledger!Next
<1>1. /\ job.kind \in {"connect", "disconnect"} /\ mode' = mode /\ db' = db
  BY Zenon DEF ConnectTip, DisconnectTip, FlushView
<1>2. mode = "up" /\ mode' = "up"
  BY Zenon, <1>1, BlockLoopLemma
<1>3. /\ chain \in Seq(Entry) /\ job.path \in Seq(Entry) /\ Valid(job.path) /\ Valid(chain)
      /\ job.n \in 0..Len(job.path) /\ Len(chain) \in Nat
  BY DEF IInv, TypeOK, Jobs, PathsValid
<1>4. IInv' /\ TipCoins' = UtxoOf(chain')
  <2>1. IInv'
    BY Zenon, ConnectTipLemma, DisconnectTipLemma
  <2> QED BY Zenon, <2>1, <1>2 DEF IInv, CoinsOfChain
<1>5. CASE ConnectTip
  <2>1. /\ chain' = job.path /\ job.n > Len(chain) /\ job.n = Len(job.path)
        /\ \A n \in 1..Len(chain) : job.path[n] = chain[n]
        /\ \A n \in Len(chain) + 1..job.n : job.path[n].height = Height(chain) + 1
    BY Zenon, <1>5 DEF ConnectTip, FlushView, IInv, BlockInv, New
  <2>2. SubSeq(job.path, 1, Len(chain)) = chain
    <3>1. /\ SubSeq(job.path, 1, Len(chain)) \in Seq(Entry)
          /\ Len(SubSeq(job.path, 1, Len(chain))) = Len(chain)
          /\ \A n \in 1..Len(chain) : SubSeq(job.path, 1, Len(chain))[n] = job.path[n]
      <4>1. job.path \in Seq(Entry) /\ Len(chain) \in 0..Len(job.path)
        BY <1>3, <2>1
      <4> QED BY ONLY Zenon, <4>1, PrefixType
    <3>2. /\ chain \in Seq(Entry)
          /\ \A n \in 1..Len(chain) : SubSeq(job.path, 1, Len(chain))[n] = chain[n]
      BY Zenon, <1>3, <2>1, <3>1
    <3> QED BY ONLY Zenon, <3>1, <3>2, SeqEqual
  <2>3. \A n \in Len(chain) + 1..Len(job.path) : ValidEntry(job.path, n)
    <3>1. Len(chain) \in Nat /\ Valid(job.path)
      BY Zenon, <1>3
    <3> QED BY ONLY <3>1 DEF Valid
  <2>4. Ledger!Connect
    BY Zenon, <1>1, <1>2, <1>4, <2>1, <2>2, <2>3, LedgerOperators DEF Ledger!Connect
  <2> QED BY Zenon, <2>4 DEF Ledger!Next
<1>6. CASE DisconnectTip
  <2>1. /\ chain' = SubSeq(job.path, 1, job.n) /\ ~InTipBlock /\ job.path = chain
        /\ chain # <<>>
    BY Zenon, <1>6 DEF DisconnectTip, FlushView, IInv, BlockInv
  <2>2. /\ Len(chain') = job.n /\ chain' \in Seq(Entry)
        /\ \A k \in 1..job.n : chain'[k] = chain[k]
    BY Zenon, <1>3, <2>1, PrefixLemma
  <2>3. Len(chain) > 0 /\ Height(chain) = chain[Len(chain)].height /\ Height(chain) # 0
    BY <1>3, <2>1, EmptySeq DEF Height, Valid
  <2>4. job.n < Len(chain)
    BY <1>3, <2>1, <2>3 DEF InTipBlock
  <2>5. Height(chain') # Height(chain)
    <3>1. CASE job.n = 0
      BY Zenon, <3>1, <2>2, <2>3, EmptySeq DEF Height
    <3>2. CASE job.n > 0
      <4>1. Height(chain') = chain[job.n].height
        BY <3>2, <2>2, <1>3, EmptySeq DEF Height
      <4> QED BY Zenon, <4>1, <3>2, <2>1 DEF InTipBlock
    <3> QED BY <3>1, <3>2, <1>3
  <2>6. Ledger!Disconnect
    BY Zenon, <1>1, <1>2, <1>4, <2>1, <2>2, <2>4, <2>5, LedgerOperators DEF Ledger!Disconnect
  <2> QED BY Zenon, <2>6 DEF Ledger!Next
<1> QED BY Zenon, <1>5, <1>6

(* Steps that leave the chain, the database's block and the answers alone. *)
LEMMA LedgerStutter ==
    ASSUME IInv, IInv', mode' = mode, db'.new = db.new, chain' = chain
    PROVE  UNCHANGED Ledger!vars
<1>1. mode = "up" => TipCoins' = TipCoins
  BY Zenon DEF IInv, CoinsOfChain
<1> QED BY Zenon, <1>1 DEF Ledger!vars

(* A batch is where the new block becomes durable, or one has already been. *)
LEMMA LedgerWriteStep ==
    ASSUME IInv, IInv', WriteFinal \/ \E S \in SUBSET wr.left : WritePartial(S)
    PROVE  [Ledger!Next]_(Ledger!vars)
<1>1. wr.kind # "none" /\ chain' = chain /\ db'.new = chain
  BY DEF WriteFinal, WritePartial
<1>2. mode \in {"up", "replay"} /\ (mode = "replay" => db.new = chain)
  BY Zenon, <1>1, WriteLoopLemma DEF IInv, ModeInv
<1>3. mode' \in {mode, "up"}
  BY Zenon DEF WriteFinal, WritePartial
<1>4. CASE mode = "up"
  <2>1. mode' = "up"
    BY Zenon, <1>3, <1>4
  <2>2. TipCoins' = TipCoins
    BY Zenon, <1>1, <1>4, <2>1 DEF IInv, CoinsOfChain
  <2>3. Ledger!Persist
    BY Zenon, <1>1, <1>4, <2>1, <2>2 DEF Ledger!Persist
  <2> QED BY Zenon, <2>3 DEF Ledger!Next
<1>5. CASE mode = "replay"
  <2>1. db'.new = db.new /\ chain = db.new
    BY Zenon, <1>1, <1>2, <1>5
  <2>2. mode' = "up" => TipCoins' = UtxoOf(db.new)
    BY Zenon, <1>1, <2>1 DEF IInv, CoinsOfChain
  <2> QED BY Zenon, <1>1, <1>3, <1>5, <2>1, <2>2 DEF Ledger!vars
<1> QED BY Zenon, <1>2, <1>4, <1>5

LEMMA LedgerCrashStep ==
    ASSUME IInv, IInv', Crash \/ Restart
    PROVE  [Ledger!Next]_(Ledger!vars)
<1>1. CASE Crash
  <2>1. mode' = "down" /\ db' = db
    BY Zenon, <1>1 DEF Crash
  <2>2. Ledger!Crash
    BY Zenon, <2>1, LedgerOperators DEF Ledger!Crash
  <2> QED BY Zenon, <2>2 DEF Ledger!Next
<1>2. CASE Restart
  <2>1. mode = "down" /\ db' = db /\ chain' = db.new /\ mode' \in {"up", "replay"}
    BY Zenon, <1>2 DEF Restart
  <2>2. mode' = "up" => TipCoins' = UtxoOf(db.new)
    BY Zenon, <2>1 DEF IInv, CoinsOfChain
  <2> QED BY Zenon, <2>1, <2>2 DEF Ledger!vars
<1> QED BY Zenon, <1>1, <1>2

LEMMA LedgerNext == IInv /\ IInv' /\ [Next]_vars => [Ledger!Next]_(Ledger!vars)
<1> SUFFICES ASSUME IInv, IInv', [Next]_vars PROVE [Ledger!Next]_(Ledger!vars)
  BY Zenon
<1>1. CASE ConnectTip \/ DisconnectTip
  BY Zenon, <1>1, LedgerBlockStep
<1>2. CASE WriteFinal \/ \E S \in SUBSET wr.left : WritePartial(S)
  BY Zenon, <1>2, LedgerWriteStep
<1>3. CASE Crash \/ Restart
  BY Zenon, <1>3, LedgerCrashStep
<1>4. CASE UNCHANGED vars
  BY Zenon, <1>4, LedgerStutter DEF vars
<1>5. CASE \/ \E o \in Outpoint : AccessCoin(o) \/ UncacheCoin(o)
           \/ BeginConnect \/ (\E t \in Tx : ConnectTx(t)) \/ RejectBlock
           \/ BeginDisconnect \/ DisconnectTx
           \/ \E kind \in {"flush", "sync"} : FlushStateToDisk(kind)
           \/ RollbackTx \/ RolledBack \/ RollforwardTx \/ ReplayFlush
  <2>1. UNCHANGED <<mode, db, chain>>
    BY Zenon, <1>5 DEF AccessCoin, UncacheCoin, BeginConnect, ConnectTx, RejectBlock, BeginDisconnect,
       DisconnectTx, FlushStateToDisk, RollbackTx, RolledBack, RollforwardTx, ReplayFlush
  <2> QED BY Zenon, <2>1, LedgerStutter
<1> QED BY Zenon, <1>1, <1>2, <1>3, <1>4, <1>5 DEF Next, Blocks, Writes, Replay

(* The layered caches, the batches and the replay implement the ledger     *)
(* with one set of coins, one durable chain and atomic crashes.            *)
THEOREM ViewsImplementLedger == Spec => KeepsPromise
<1>1. Init => Ledger!Init
  <2> SUFFICES ASSUME Init PROVE Ledger!Init
    BY Zenon
  <2>1. IInv
    BY Zenon, InitLemma
  <2>2. TipCoins = NoCoins
    BY Zenon, <2>1 DEF IInv, CoinsOfChain, Init, UtxoOf, UtxoAt
  <2> QED BY Zenon, <2>2, LedgerOperators DEF Init, Ledger!Init
<1> QED BY <1>1, LedgerNext, InvariantLemma, PTL DEF Spec, Ledger!Spec, KeepsPromise

-----------------------------------------------------------------------------
(* How far ReplayBlocks is: walking back, walking forward, or writing; and *)
(* the transactions that the walk still has before it.                     *)
Stage == IF job.kind = "back" THEN 2 ELSE IF job.kind = "forward" THEN 1 ELSE 0

Ahead == IF job.kind = "back" THEN job.n ELSE Len(job.path) - job.n

(* A step of ReplayBlocks or of its Flush brings the end nearer, and       *)
(* neither a step nor a crash changes where it is going: the two heads in  *)
(* the database are the same until one best block replaces them, so that a *)
(* replay that is interrupted starts again with the same task.             *)
ReplayAdvances ==
    mode = "replay" =>
        /\ db'.new = db.new
        /\ mode' \in {"replay", "down"} => db'.mid /\ db'.old = db.old
        /\ mode' = "up" => ~db'.mid /\ chain' = db.new
        /\ mode' = "replay" =>
               \/ Stage' < Stage
               \/ Stage' = Stage /\ Stage > 0 /\ Ahead' < Ahead /\ Ahead' \in Nat
               \/ Stage' = 0 /\ Stage = 0 /\ wr'.left \subseteq wr.left /\ wr'.left # wr.left

(* One step of a replay, or the crash that interrupts it. *)
LEMMA ReplayStepAdvances ==
    ASSUME IInv, IInv', Next, mode = "replay"
    PROVE  ReplayAdvances
<1>1. /\ TypeOK /\ ModeInv /\ (TypeOK)'
      /\ db.mid /\ chain = db.new /\ job.kind \in {"none", "back", "forward"}
      /\ job.kind = "none" => wr.kind # "none"
      /\ job.kind # "none" => wr = NoWrite
  BY Zenon DEF IInv, ModeInv
<1>2. /\ job \in Jobs /\ job' \in Jobs /\ job.n \in Nat /\ job'.n \in Nat
      /\ Len(job.path) \in Nat /\ Len(job'.path) \in Nat
      /\ job.n <= Len(job.path) /\ job'.n <= Len(job'.path)
  <2>1. /\ job \in Jobs /\ job' \in Jobs
        /\ job.n <= Len(job.path) /\ job'.n <= Len(job'.path)
    BY Zenon, <1>1 DEF TypeOK
  <2>2. \A j \in Jobs : j.n \in Nat /\ Len(j.path) \in Nat
    BY DEF Jobs
  <2> QED BY Zenon, <2>1, <2>2
<1>3. CASE Crash
  BY Zenon, <1>1, <1>3 DEF Crash, ReplayAdvances
<1>4. CASE RollbackTx
  <2>1. /\ job.kind = "back" /\ job'.kind = "back" /\ job'.n = job.n - 1
        /\ db' = db /\ mode' = mode
    BY Zenon, <1>2, <1>4 DEF RollbackTx, Jobs
  <2> QED
    BY <1>1, <1>2, <2>1 DEF ReplayAdvances, Stage, Ahead
<1>5. CASE RolledBack
  <2>1. job.kind = "back" /\ job'.kind = "forward" /\ db' = db /\ mode' = mode
    BY Zenon, <1>5 DEF RolledBack
  <2> QED
    BY <1>1, <2>1 DEF ReplayAdvances, Stage
<1>6. CASE RollforwardTx
  <2>1. /\ job.kind = "forward" /\ job'.kind = "forward" /\ job'.n = job.n + 1
        /\ job'.path = job.path /\ db' = db /\ mode' = mode
    BY Zenon, <1>2, <1>6 DEF RollforwardTx, Jobs
  <2> QED
    BY <1>1, <1>2, <2>1 DEF ReplayAdvances, Stage, Ahead
<1>7. CASE ReplayFlush
  <2>1. job.kind = "forward" /\ job'.kind = "none" /\ db' = db /\ mode' = mode
    BY Zenon, <1>7 DEF ReplayFlush, NoJob
  <2> QED
    BY <1>1, <2>1 DEF ReplayAdvances, Stage
<1>8. ASSUME NEW S \in SUBSET wr.left, WritePartial(S) PROVE ReplayAdvances
  <2>1. /\ wr.kind # "none" /\ S # {} /\ wr'.left = wr.left \ S /\ job' = job /\ mode' = mode
        /\ db'.new = chain /\ db'.mid /\ db'.old = db.old
    BY Zenon, <1>1, <1>8 DEF WritePartial, TypeOK
  <2>2. job.kind = "none"
    BY <1>1, <2>1 DEF NoWrite
  <2> QED
    BY Zenon, <1>1, <1>8, <2>1, <2>2 DEF ReplayAdvances, Stage
<1>9. CASE WriteFinal
  BY Zenon, <1>1, <1>9 DEF WriteFinal, ReplayAdvances
<1>10. ~Blocks /\ ~Restart /\ ~(\E kind \in {"flush", "sync"} : FlushStateToDisk(kind))
  BY Zenon, <1>1 DEF Blocks, AccessCoin, UncacheCoin, BeginConnect, ConnectTx, RejectBlock, ConnectTip,
              BeginDisconnect, DisconnectTx, DisconnectTip, Restart, FlushStateToDisk, Idle
<1> QED
  BY Zenon, <1>3, <1>4, <1>5, <1>6, <1>7, <1>8, <1>9, <1>10 DEF Next, Writes, Replay

(* ReplayBlocks makes progress with every step, for all chains: it walks   *)
(* back and forward at most once over the branches, writes every entry at  *)
(* most once, and ends at the block that the interrupted write was for.    *)
THEOREM ReplayAlwaysAdvances == Spec => [][ReplayAdvances]_vars
<1>1. IInv /\ IInv' /\ [Next]_vars => [ReplayAdvances]_vars
  BY Zenon, ReplayStepAdvances DEF ReplayAdvances
<1> QED
  BY <1>1, InvariantLemma, PTL DEF Spec

=============================================================================
