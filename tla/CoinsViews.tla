---------------------------- MODULE CoinsViews ----------------------------
(***************************************************************************)
(* The unspent coins as the program keeps them: a cache for the block      *)
(* being connected or disconnected (view), over the cache of the chain     *)
(* state (tip), over the database (db).  A cache entry is a coin or the    *)
(* absence of one, with two flags: DIRTY, it differs from the level below  *)
(* and must be written; FRESH, the level below has no coin, so that a      *)
(* spent one can be dropped.  The database is written in several batches   *)
(* with a crash possible between any two; ReplayBlocks repairs it.         *)
(*                                                                         *)
(* cs_main is held while a block is processed and while the state is       *)
(* written, so these interleave with a crash only.                         *)
(***************************************************************************)
EXTENDS CoinsRules

CONSTANTS
    MaxHeight,  \* bound: height of the longest chain explored
    MaxBlock    \* bound: transactions of a block

ASSUME BoundsAssumption == MaxHeight \in Nat /\ MaxBlock \in Nat

VARIABLES
    chain,  \* the chain of CoinsTip().GetBestBlock()
    view,   \* the CCoinsViewCache on the stack of ConnectTip or DisconnectTip
    tip,    \* CoinsTip(), or the cache of ReplayBlocks
    db,     \* the coins database
    job,    \* the loop over a block's transactions that is running
    wr,     \* CCoinsViewDB::BatchWrite while it runs
    mode    \* up, down, or replay: ReplayBlocks runs

vars == <<chain, view, tip, db, job, wr, mode>>

-----------------------------------------------------------------------------
(* CCoinsCacheEntry.  An entry that is not in the map is Absent. *)
CacheEntry == [in: BOOLEAN, coin: Nat, dirty: BOOLEAN, fresh: BOOLEAN]

Absent == [in |-> FALSE, coin |-> 0, dirty |-> FALSE, fresh |-> FALSE]

Cache == [Outpoint -> CacheEntry]

EmptyCache == [o \in Outpoint |-> Absent]

(* What GetCoin answers, given the level below. *)
GetCoin(e, below) == IF e.in THEN e.coin ELSE below

(* GetCoin of the level below never returns a spent coin. *)
FetchCoin(e, below) ==
    IF ~e.in /\ below # 0
    THEN [in |-> TRUE, coin |-> below, dirty |-> FALSE, fresh |-> FALSE]
    ELSE e

(* Mutant: FRESH also for a coin whose spentness is not flushed yet. *)
AddCoinFresh(e, coin, possible_overwrite) ==
    [in |-> TRUE, coin |-> coin, dirty |-> TRUE, fresh |-> e.fresh \/ ~possible_overwrite]

AddCoin(e, coin, possible_overwrite) ==
    [in |-> TRUE, coin |-> coin, dirty |-> TRUE,
     fresh |-> e.fresh \/ (~possible_overwrite /\ ~e.dirty)]

SpendCoin(e0, below) ==
    LET e == FetchCoin(e0, below)
    IN  IF ~e.in THEN e
        ELSE IF e.fresh THEN Absent
        ELSE [in |-> TRUE, coin |-> 0, dirty |-> TRUE, fresh |-> FALSE]

(* AddCoins with check_for_overwrite, and ApplyTxInUndo: whether the coin  *)
(* is there decides possible_overwrite.                                    *)
AddChecked(e, coin, below) ==
    AddCoin(FetchCoin(e, below), coin, GetCoin(e, below) # 0)

(* Mutant: Uncache also drops what has not been written. *)
UncacheAny(e) == Absent

Uncache(e) == IF ~e.dirty /\ ~e.fresh THEN Absent ELSE e

(* CCoinsViewCache::BatchWrite: an entry of the child is folded into ours. *)
BatchWrite(us, child) ==
    IF ~child.dirty THEN us
    ELSE IF ~us.in
    THEN IF child.fresh /\ child.coin = 0 THEN us
         ELSE [in |-> TRUE, coin |-> child.coin, dirty |-> TRUE, fresh |-> child.fresh]
    ELSE IF us.fresh /\ child.coin = 0 THEN Absent
    ELSE [in |-> TRUE, coin |-> child.coin, dirty |-> TRUE, fresh |-> us.fresh]

(* NextAndMaybeErase of a cursor that does not erase. *)
SetClean(e) ==
    IF e.coin = 0 THEN Absent
    ELSE [in |-> TRUE, coin |-> e.coin, dirty |-> FALSE, fresh |-> FALSE]

Coins(cache, below) == [o \in Outpoint |-> GetCoin(cache[o], below[o])]

TipCoins == Coins(tip, db.coins)

ViewCoins == Coins(view, TipCoins)

(* A lookup in view of o \in S that misses leaves the coin in tip. *)
TipFetched(S) ==
    [o \in Outpoint |->
        IF o \in S /\ ~view[o].in THEN FetchCoin(tip[o], db.coins[o]) ELSE tip[o]]

(* The inputs of t are spent, then its outputs added. *)
UpdateCoins(cache, below, t, height) ==
    [o \in Outpoint |->
        IF o \in Out[t] THEN AddCoin(cache[o], height, t \in Coinbase)
        ELSE IF o \in In[t] THEN SpendCoin(cache[o], below[o])
        ELSE cache[o]]

(* DisconnectBlock for one transaction: its outputs are spent, then its    *)
(* inputs restored.  RollforwardBlock for one: inputs first.               *)
UndoTx(cache, below, e) ==
    [o \in Outpoint |->
        IF o \in Out[e.tx] THEN SpendCoin(cache[o], below[o])
        ELSE IF o \in In[e.tx] THEN AddChecked(cache[o], e.undo[o], below[o])
        ELSE cache[o]]

RedoTx(cache, below, e) ==
    [o \in Outpoint |->
        IF o \in Out[e.tx] THEN AddChecked(cache[o], e.height, below[o])
        ELSE IF o \in In[e.tx] THEN SpendCoin(cache[o], below[o])
        ELSE cache[o]]

NoJob == [kind |-> "none", path |-> <<>>, n |-> 0]

NoWrite == [kind |-> "none", left |-> {}]

Dirty(cache) == {o \in Outpoint : cache[o].dirty}

-----------------------------------------------------------------------------
Init ==
    /\ chain = <<>>
    /\ view = EmptyCache
    /\ tip = EmptyCache
    /\ db = [coins |-> NoCoins, mid |-> FALSE, new |-> <<>>, old |-> <<>>]
    /\ job = NoJob
    /\ wr = NoWrite
    /\ mode = "up"

Idle == mode = "up" /\ job = NoJob /\ wr = NoWrite

(* Lookups by the mempool and by RPC, and the Uncache of what a refused    *)
(* transaction fetched.                                                    *)
AccessCoin(o) ==
    /\ Idle
    /\ tip' = [tip EXCEPT ![o] = FetchCoin(@, db.coins[o])]
    /\ UNCHANGED <<chain, view, db, job, wr, mode>>

UncacheCoin(o) ==
    /\ Idle
    /\ tip' = [tip EXCEPT ![o] = Uncache(@)]
    /\ UNCHANGED <<chain, view, db, job, wr, mode>>

-----------------------------------------------------------------------------
(* ConnectTip: ConnectBlock transaction by transaction, then the Flush of  *)
(* view into tip.  Checks that do not look at coins are left open: any     *)
(* block may also be rejected.                                             *)
BeginConnect ==
    /\ Idle
    /\ Height(chain) < MaxHeight
    /\ job' = [kind |-> "connect", path |-> chain, n |-> Len(chain)]
    /\ UNCHANGED <<chain, view, tip, db, wr, mode>>

(* Mutant: one input that is there is enough. *)
HaveSomeInput(t) == In[t] = {} \/ \E o \in In[t] : ViewCoins[o] # 0

HaveInputs(t) == \A o \in In[t] : ViewCoins[o] # 0

ConnectTx(t) ==
    LET spent == [o \in Outpoint |-> IF o \in In[t] THEN ViewCoins[o] ELSE 0]
        height == Height(chain) + 1
        e == [tx |-> t, height |-> height, undo |-> spent,
              utxo |-> ApplyTx(UtxoAt(job.path, job.n), t, height)]
    IN  /\ job.kind = "connect"
        /\ job.n < Len(chain) + MaxBlock
        /\ (job.n = Len(chain)) <=> (t \in Coinbase)
        /\ \A o \in Out[t] : TipCoins[o] = 0       \* BIP 30
        /\ HaveInputs(t)
        /\ view' = UpdateCoins(view, TipCoins, t, height)
        /\ tip' = TipFetched(In[t])
        /\ job' = [job EXCEPT !.path = Append(@, e), !.n = @ + 1]
        /\ UNCHANGED <<chain, db, wr, mode>>

RejectBlock ==
    /\ job.kind = "connect"
    /\ view' = EmptyCache
    /\ job' = NoJob
    /\ UNCHANGED <<chain, tip, db, wr, mode>>

Folded(parent, child) == [o \in Outpoint |-> BatchWrite(parent[o], child[o])]

(* Flush of view into tip, and SetBestBlock. *)
FlushView(path) ==
    /\ tip' = Folded(tip, view)
    /\ view' = EmptyCache
    /\ chain' = path
    /\ job' = NoJob
    /\ UNCHANGED <<db, wr, mode>>

ConnectTip ==
    /\ job.kind = "connect"
    /\ job.n > Len(chain)
    /\ FlushView(job.path)

(* Mutant: the loop of DisconnectBlock starts one past the block. *)
BeginDisconnectPast ==
    /\ Idle
    /\ chain # <<>>
    /\ job' = [kind |-> "disconnect", path |-> chain, n |-> Len(chain) + 1]
    /\ UNCHANGED <<chain, view, tip, db, wr, mode>>

BeginDisconnect ==
    /\ Idle
    /\ chain # <<>>
    /\ job' = [kind |-> "disconnect", path |-> chain, n |-> Len(chain)]
    /\ UNCHANGED <<chain, view, tip, db, wr, mode>>

(* Mutant: the loop of DisconnectBlock stops before the coinbase. *)
InTipBlockNoCoinbase ==
    /\ job.n > 0 /\ job.path[job.n].height = Height(chain)
    /\ job.path[job.n].tx \notin Coinbase

(* The last transaction of the block that is not yet undone. *)
InTipBlock == job.n > 0 /\ job.path[job.n].height = Height(chain)

DisconnectTx ==
    LET e == job.path[job.n]
    IN  /\ job.kind = "disconnect"
        /\ InTipBlock
        /\ view' = UndoTx(view, TipCoins, e)
        /\ tip' = TipFetched(In[e.tx] \cup Out[e.tx])
        /\ job' = [job EXCEPT !.n = @ - 1]
        /\ UNCHANGED <<chain, db, wr, mode>>

DisconnectTip ==
    /\ job.kind = "disconnect"
    /\ ~InTipBlock
    /\ FlushView(SubSeq(job.path, 1, job.n))

-----------------------------------------------------------------------------
(* FlushStateToDisk: Flush empties the cache, Sync keeps the unspent coins.*)
(* CCoinsViewDB::BatchWrite puts DB_HEAD_BLOCKS in its first batch and     *)
(* replaces it by DB_BEST_BLOCK in its last.  Here db.mid says which of    *)
(* the two is present: the transition from db.old to db.new, or the best   *)
(* block db.new.  A transition to another block than ours is an assertion. *)
FlushStateToDisk(kind) ==
    /\ Idle
    /\ db.mid => db.new = chain
    /\ wr' = [kind |-> kind, left |-> Dirty(tip)]
    /\ UNCHANGED <<chain, view, tip, db, job, mode>>

Written(S) ==
    [o \in Outpoint |-> IF o \in S THEN tip[o].coin ELSE db.coins[o]]

Cleaned(S) ==
    [o \in Outpoint |-> IF wr.kind = "sync" /\ o \in S THEN SetClean(tip[o]) ELSE tip[o]]

(* Mutant: the old tip of an interrupted transition is not kept. *)
WritePartialNewHeads(S) ==
    /\ wr.kind # "none"
    /\ S # {}
    /\ db' = [coins |-> Written(S), mid |-> TRUE, new |-> chain, old |-> db.new]
    /\ tip' = Cleaned(S)
    /\ wr' = [wr EXCEPT !.left = @ \ S]
    /\ UNCHANGED <<chain, view, job, mode>>

WritePartial(S) ==
    /\ wr.kind # "none"
    /\ S # {}
    /\ db' = [coins |-> Written(S), mid |-> TRUE, new |-> chain,
              old |-> IF db.mid THEN db.old ELSE db.new]
    /\ tip' = Cleaned(S)
    /\ wr' = [wr EXCEPT !.left = @ \ S]
    /\ UNCHANGED <<chain, view, job, mode>>

WriteFinal ==
    /\ wr.kind # "none"
    /\ db' = [coins |-> Written(wr.left), mid |-> FALSE, new |-> chain, old |-> chain]
    /\ tip' = IF wr.kind = "sync" THEN Cleaned(wr.left) ELSE EmptyCache
    /\ wr' = NoWrite
    /\ mode' = "up"
    /\ UNCHANGED <<chain, view, job>>

(* A batch that holds S cannot be written, and FatalError asks the node to *)
(* stop.  Flush leaves its entries as they are, but Sync has unflagged     *)
(* those of the lost batch.  Until the node has stopped, blocks are still  *)
(* connected and the state is still flushed, at the latest by Shutdown.    *)
WriteFails(S) ==
    /\ mode = "up" /\ wr.kind # "none"
    /\ tip' = Cleaned(S)
    /\ wr' = NoWrite
    /\ UNCHANGED <<chain, view, db, job, mode>>

-----------------------------------------------------------------------------
(* The process ends: at any point, with everything in memory lost. *)
Crash ==
    /\ mode # "down"
    /\ mode' = "down"
    /\ view' = EmptyCache
    /\ tip' = EmptyCache
    /\ job' = NoJob
    /\ wr' = NoWrite
    /\ UNCHANGED <<chain, db>>

(* ReplayBlocks if a transition was interrupted, then LoadChainTip. *)
Restart ==
    /\ mode = "down"
    /\ chain' = db.new
    /\ IF db.mid
       THEN /\ mode' = "replay"
            /\ job' = [kind |-> "back", path |-> db.old, n |-> Len(db.old)]
       ELSE mode' = "up" /\ UNCHANGED job
    /\ UNCHANGED <<view, tip, db, wr>>

(* A block ends at entry n of path. *)
BlockEnd(path, n) ==
    n \in 1..Len(path) - 1 => path[n].height # path[n + 1].height

(* Both chains have the same blocks up to entry n.  Walking back from the  *)
(* old tip, the first such n is LastCommonAncestor.                        *)
Common(a, b, n) ==
    /\ n <= Len(a) /\ n <= Len(b)
    /\ BlockEnd(a, n) /\ BlockEnd(b, n)
    /\ SubSeq(a, 1, n) = SubSeq(b, 1, n)

RollbackTx ==
    /\ job.kind = "back"
    /\ ~Common(db.old, db.new, job.n)
    /\ tip' = UndoTx(tip, db.coins, job.path[job.n])
    /\ job' = [job EXCEPT !.n = @ - 1]
    /\ UNCHANGED <<chain, view, db, wr, mode>>

RolledBack ==
    /\ job.kind = "back"
    /\ Common(db.old, db.new, job.n)
    /\ job' = [kind |-> "forward", path |-> db.new, n |-> job.n]
    /\ UNCHANGED <<chain, view, tip, db, wr, mode>>

(* Mutant: the loop over the new branch does not advance. *)
RollforwardTxStuck ==
    /\ job.kind = "forward"
    /\ job.n < Len(job.path)
    /\ tip' = RedoTx(tip, db.coins, job.path[job.n + 1])
    /\ UNCHANGED <<chain, view, db, job, wr, mode>>

RollforwardTx ==
    /\ job.kind = "forward"
    /\ job.n < Len(job.path)
    /\ tip' = RedoTx(tip, db.coins, job.path[job.n + 1])
    /\ job' = [job EXCEPT !.n = @ + 1]
    /\ UNCHANGED <<chain, view, db, wr, mode>>

(* The Flush at the end of ReplayBlocks. *)
ReplayFlush ==
    /\ job.kind = "forward"
    /\ job.n = Len(job.path)
    /\ job' = NoJob
    /\ wr' = [kind |-> "flush", left |-> Dirty(tip)]
    /\ UNCHANGED <<chain, view, tip, db, mode>>

-----------------------------------------------------------------------------
Blocks ==
    \/ \E o \in Outpoint : AccessCoin(o) \/ UncacheCoin(o)
    \/ BeginConnect \/ (\E t \in Tx : ConnectTx(t)) \/ RejectBlock \/ ConnectTip
    \/ BeginDisconnect \/ DisconnectTx \/ DisconnectTip

Replay == Restart \/ RollbackTx \/ RolledBack \/ RollforwardTx \/ ReplayFlush

Writes ==
    \/ \E kind \in {"flush", "sync"} : FlushStateToDisk(kind)
    \/ \E S \in SUBSET wr.left : WritePartial(S)
    \/ WriteFinal

Next == Blocks \/ Writes \/ Crash \/ Replay

Spec == Init /\ [][Next]_vars

(* Start-up and a write that has begun go on unless the process ends. *)
FairSpec == Spec /\ WF_vars(Replay) /\ WF_vars(WriteFinal)

(* Batches may also fail to be written. *)
FaultSpec == Init /\ [][Next \/ \E S \in SUBSET wr.left : WriteFails(S)]_vars

-----------------------------------------------------------------------------
Jobs == [kind: {"none", "connect", "disconnect", "back", "forward"},
         path: Seq(Entry), n: Nat]

TypeOK ==
    /\ chain \in Seq(Entry)
    /\ view \in Cache
    /\ tip \in Cache
    /\ db \in [coins: Utxo, mid: BOOLEAN, new: Seq(Entry), old: Seq(Entry)]
    /\ job \in Jobs
    /\ job.n <= Len(job.path)
    /\ wr \in [kind: {"none", "flush", "sync"}, left: SUBSET Outpoint]
    /\ mode \in {"up", "down", "replay"}

(* The five states of an entry that SanityCheck admits, with what they     *)
(* claim about the level below: an entry that is not DIRTY repeats it, and *)
(* under a FRESH entry there is no coin, which is when BatchWrite would    *)
(* throw "FRESH flag misapplied to coin that exists in parent cache".      *)
EntrySound(e, below) ==
    /\ ~e.in => e = Absent
    /\ e.in /\ ~e.dirty => e.coin = below /\ e.coin # 0 /\ ~e.fresh
    /\ e.fresh => e.coin # 0 /\ below = 0

Sound(cache, below) == \A o \in Outpoint : EntrySound(cache[o], below[o])

(* Whatever the interleaving of connects, disconnects, rejected blocks,    *)
(* lookups, Uncache, Flush and Sync, the flags of both caches are right.   *)
(* While a write runs, entries already written are FRESH over their coin.  *)
FlagsSound ==
    /\ Sound(view, TipCoins)
    /\ wr = NoWrite => Sound(tip, db.coins)

(* CoinsTip answers with the unspent coins of the active chain, and the    *)
(* view of a block with those after the transactions processed so far.     *)
(* So ConnectBlock accepts a transaction exactly when the chain has its    *)
(* inputs, DisconnectBlock finds what it expects, and a rejected block     *)
(* leaves no trace.                                                        *)
CoinsOfChain ==
    mode = "up" =>
        /\ TipCoins = UtxoOf(chain)
        /\ job.kind # "none" => ViewCoins = UtxoAt(job.path, job.n)

(* The exceptions and failures of the code are not reached: a coin that    *)
(* AddCoin adds without possible_overwrite is not there (every entry of    *)
(* the block being connected is valid in its place), and DisconnectBlock   *)
(* never answers DISCONNECT_UNCLEAN to DisconnectTip, which would stop the *)
(* node.                                                                   *)
NoFailure ==
    /\ job.kind = "connect" => \A n \in Len(chain) + 1..job.n : ValidEntry(job.path, n)
    /\ job.kind = "disconnect" /\ InTipBlock =>
           LET e == job.path[job.n]
           IN  /\ \A o \in Out[e.tx] : ViewCoins[o] = e.height
               /\ \A o \in In[e.tx] : ViewCoins[o] = 0

(* A database that says it is consistent with a block holds the coins of   *)
(* that block; one that says it is between two blocks holds, for each      *)
(* outpoint, what one or the other says.                                   *)
DiskRecoverable ==
    \A o \in Outpoint :
        IF db.mid THEN db.coins[o] \in {UtxoOf(db.old)[o], UtxoOf(db.new)[o]}
        ELSE db.coins[o] = UtxoOf(db.new)[o]

(* The caches, the partial batches and ReplayBlocks implement the ledger:  *)
(* in particular a crash at any moment, also of ReplayBlocks itself, is    *)
(* followed by the coins of exactly one block.                             *)
Ledger == INSTANCE CoinsLedger WITH
    chain <- IF mode = "up" THEN chain ELSE db.new,
    disk  <- db.new,
    coins <- IF mode = "up" THEN TipCoins ELSE UtxoOf(db.new)

KeepsPromise == Ledger!Spec

(* A node that does not crash for ever comes up: ReplayBlocks ends. *)
ReplayEnds == []<><<mode' = "down">>_vars \/ []<>(mode = "up")

=============================================================================
