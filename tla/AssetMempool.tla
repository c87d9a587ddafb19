----------------------------- MODULE AssetMempool -----------------------------
(***************************************************************************)
(* The mempool's indexes of asset transactions: mapAssetToHash, which      *)
(* keeps a name from being issued twice, and the pairs of maps of          *)
(* mempool_asset.cpp, one from values to transaction ids and one back.     *)
(* Transactions enter alone, as a replacement, in a package or after a     *)
(* reorganisation, and leave by replacement, eviction, confirmation and    *)
(* conflict.  The asset state behind the checks is that of AssetStore in   *)
(* its steady state, except that disconnecting a block does not undo it.   *)
(*                                                                         *)
(* A transaction has inputs, outputs, an address that its asset output     *)
(* pays and one asset operation.  Fees and standardness are left open:     *)
(* whatever passes the asset checks may be refused for another reason.     *)
(***************************************************************************)
EXTENDS AssetRules, Functions

CONSTANTS
    Qualifiers,  \* names of qualifier assets ("#KYC")
    Coins,       \* outpoints
    Funding,     \* the outpoints that are unspent at first
    MTxs,        \* transactions
    MaxBlocks,   \* bound: blocks of the longest chain explored
    MaxBlockTxs  \* bound: transactions of a block

NoAsset == [op |-> "none"]

TagTx == [op: {"tag"}, name: Qualifiers, addr: Addrs, type: {"ADD", "REMOVE"}]

MTx == [vin: SUBSET Coins, vout: SUBSET Coins, to: Addrs,
        asset: Txs \cup TagTx \cup {NoAsset}]

(* An outpoint names the transaction that creates it. *)
ASSUME MempoolAssumption ==
    /\ MTxs \subseteq MTx
    /\ None \notin MTxs
    /\ \A tx \in MTxs : tx.vin # {} /\ tx.vin \cap tx.vout = {}
    /\ \A s, t \in MTxs : s # t => s.vout \cap t.vout = {}
    /\ \A tx \in MTxs : tx.vout \cap Funding = {}
    /\ Funding \subseteq Coins
    /\ MaxBlocks \in Nat /\ MaxBlockTxs \in Nat

VARIABLES
    chain,           \* the blocks above the first, each a sequence of transactions
    utxo,            \* unspent outpoints
    view,            \* what asset lookups answer
    tags,            \* the <<address, qualifier>> pairs that lookups find
    mp,              \* the mempool
    disconnectpool,  \* transactions of disconnected blocks, earliest first
    vHashUpdate,     \* those of them that are back in the mempool
    phase            \* "idle", or how far a reorganisation has come

vars == <<chain, utxo, view, tags, mp, disconnectpool, vHashUpdate, phase>>

-----------------------------------------------------------------------------
(* Index entries: <<map, value>> *)

IssuedName(tx) == IF tx.asset.op = "issue" THEN {tx.asset.name} ELSE {}

(* The restricted assets among the outputs that carry an asset. *)
RestrictedOutput(tx) ==
    IF tx.asset.op \in {"issue", "reissue", "transfer"} /\ tx.asset.name \in Restricted
    THEN {tx.asset.name} ELSE {}

(* Values that one transaction of the mempool at a time may hold. *)
Exclusive(tx) ==
    IF tx.asset.op = "global"
    THEN {<<IF tx.asset.type = "FREEZE" THEN "mapGlobalFreezing" ELSE "mapGlobalUnFreezing",
            tx.asset.name>>}
    ELSE IF tx.asset.op = "tag"
    THEN {<<IF tx.asset.type = "ADD" THEN "mapAddressAddedTag" ELSE "mapAddressRemoveTag",
            <<tx.asset.addr, tx.asset.name>>>>}
    ELSE {}

(* RegisterVouts *)
VoutEntries(tx) ==
    Exclusive(tx)
    \cup {<<"mapAddressesQualifiersChanged", tx.to>> : n \in RestrictedOutput(tx)}
    \cup {<<"mapAssetVerifierChanged", n>> : n \in RestrictedOutput(tx)}

(* RegisterVins: the restricted assets that the inputs hold. *)
VinEntries(tx) ==
    IF tx.asset.op = "transfer" /\ tx.asset.name \in Restricted
    THEN {<<"mapAssetMarkedGlobalFrozen", tx.asset.name>>,
          <<"mapAddressesMarkedFrozen", <<tx.asset.from, tx.asset.name>>>>}
    ELSE {}

Entries(tx) == VoutEntries(tx) \cup VinEntries(tx)

EmptyMempool == [mapTx |-> {}, links |-> {}, mapAssetToHash |-> [n \in Names |-> None],
                 byValue |-> {}, byHash |-> {}]

Spends(child, parent) == child.vin \cap parent.vout # {}

Register(p, tx, entries) ==
    [p EXCEPT !.byValue = @ \cup {<<e, tx>> : e \in entries},
              !.byHash = @ \cup {<<tx, e>> : e \in entries}]

(* mapTx.insert and addNewTransaction: links to parents, none to children. *)
AddNewTransaction(p, tx) ==
    [Register(p, tx, VoutEntries(tx)) EXCEPT
        !.mapTx = @ \cup {tx},
        !.links = @ \cup {<<q, tx>> : q \in {q \in p.mapTx : Spends(tx, q)}},
        !.mapAssetToHash = [n \in Names |-> IF n \in IssuedName(tx) THEN tx ELSE @[n]]]

RegisterVins(p, tx) == Register(p, tx, VinEntries(tx))

(* Mutant: a removed transaction keeps its place in the maps from values. *)
MutRemoveStaged(p, S) ==
    [mapTx |-> p.mapTx \ S,
     links |-> {l \in p.links : l[1] \notin S /\ l[2] \notin S},
     mapAssetToHash |-> [n \in Names |->
         IF \E tx \in S : n \in IssuedName(tx) /\ p.mapAssetToHash[n] = tx
         THEN None ELSE p.mapAssetToHash[n]],
     byValue |-> p.byValue,
     byHash |-> {x \in p.byHash : x[1] \notin S}]

(* removeUnchecked with UnregisterAssetMempoolTx, for every member of S. *)
RemoveStaged(p, S) ==
    [mapTx |-> p.mapTx \ S,
     links |-> {l \in p.links : l[1] \notin S /\ l[2] \notin S},
     mapAssetToHash |-> [n \in Names |->
         IF \E tx \in S : n \in IssuedName(tx) /\ p.mapAssetToHash[n] = tx
         THEN None ELSE p.mapAssetToHash[n]],
     byValue |-> {x \in p.byValue : ~ (x[2] \in S /\ <<x[2], x[1]>> \in p.byHash)},
     byHash |-> {x \in p.byHash : x[1] \notin S}]

ClosedUnderChildren(p, D) == \A l \in p.links : l[1] \in D => l[2] \in D

(* CalculateDescendants: the least set that has S and its members' children. *)
Descendants(p, S) ==
    {tx \in p.mapTx : \A D \in SUBSET p.mapTx :
                          S \subseteq D /\ ClosedUnderChildren(p, D) => tx \in D}

(* removeRecursive: a transaction that is not in the mempool takes the     *)
(* transactions that spend it along.                                       *)
RemoveRecursive(p, T) ==
    RemoveStaged(p, Descendants(p,
        {tx \in p.mapTx : tx \in T \/ \E q \in T \ p.mapTx : Spends(tx, q)}))

(* Expire and TrimToSize: which transactions go depends on age and fees. *)
LimitMempoolSize(p) ==
    {RemoveStaged(p, D) : D \in {D \in SUBSET p.mapTx : ClosedUnderChildren(p, D)}}

-----------------------------------------------------------------------------
(* Checks *)

CheckAssets(seen, tgs, asset) ==
    \/ asset = NoAsset
    \/ /\ asset.op = "tag"
       /\ (asset.type = "ADD") <=> (<<asset.addr, asset.name>> \notin tgs)
    \/ CheckTxAssets(seen, asset)

Conflicts(p, tx) == {q \in p.mapTx : q.vin \cap tx.vin # {}}

Parents(p, tx) == {q \in p.mapTx : Spends(tx, q)}

(* PreChecks, where extra holds the outputs of the package so far. *)
PreChecks(tx, extra) ==
    /\ tx \notin mp.mapTx
    /\ tx.vin \subseteq utxo \cup extra \cup UNION {q.vout : q \in mp.mapTx}
    /\ CheckAssets(LedgerSeen(view, view), tags, tx.asset)
    /\ \A n \in IssuedName(tx) : mp.mapAssetToHash[n] = None
    /\ Parents(mp, tx) \cap Descendants(mp, Conflicts(mp, tx)) = {}

(* HasNoNewUnconfirmed *)
ReplacementChecks(tx) ==
    LET all == Descendants(mp, Conflicts(mp, tx)) IN
    all # {} => \A q \in Parents(mp, tx) : \E c \in all : Spends(c, q)

(* CheckAndStageVouts finds a value in the mempool, *)
InMempool(p, tx) ==
    \/ \E n \in IssuedName(tx) : p.mapAssetToHash[n] # None
    \/ \E e \in Exclusive(tx), q \in MTxs : <<e, q>> \in p.byValue

(* or staged by an earlier transaction of the package. *)
SameClaim(s, t) ==
    IssuedName(s) \cap IssuedName(t) # {} \/ Exclusive(s) \cap Exclusive(t) # {}

CheckAssetMempoolPolicy(p, tx) == ~ InMempool(p, tx)

(* Mutant: each transaction of the package is checked on its own. *)
MutMempoolPolicyPackage(p, parent, child) == ~ InMempool(p, parent) /\ ~ InMempool(p, child)

CheckAssetMempoolPolicyPackage(p, parent, child) ==
    ~ InMempool(p, parent) /\ ~ InMempool(p, child) /\ ~ SameClaim(parent, child)

-----------------------------------------------------------------------------
(* Actions *)

Init ==
    /\ chain = <<>>
    /\ utxo = Funding
    /\ view = EmptyLedger
    /\ tags = {}
    /\ mp = EmptyMempool
    /\ disconnectpool = <<>>
    /\ vHashUpdate = {}
    /\ phase = "idle"

(* Mutant: what the transaction replaces stays. *)
MutAccepted(p, tx) == RegisterVins(AddNewTransaction(p, tx), tx)

(* FinalizeSubpackage and RegisterAssetMempoolTxInputs *)
Accepted(p, tx) ==
    RegisterVins(AddNewTransaction(RemoveStaged(p, Descendants(p, Conflicts(p, tx))), tx), tx)

CanAccept(tx) ==
    PreChecks(tx, {}) /\ ReplacementChecks(tx) /\ CheckAssetMempoolPolicy(mp, tx)

AcceptSingleTransaction(tx) ==
    /\ phase = "idle"
    /\ CanAccept(tx)
    /\ mp' \in LimitMempoolSize(Accepted(mp, tx))
    /\ UNCHANGED <<chain, utxo, view, tags, disconnectpool, vHashUpdate, phase>>

(* SubmitPackage: both are added before the inputs of either are registered. *)
AcceptedPackage(p, parent, child) ==
    LET out == Descendants(p, Conflicts(p, parent) \cup Conflicts(p, child))
        both == AddNewTransaction(AddNewTransaction(RemoveStaged(p, out), parent), child)
    IN RegisterVins(RegisterVins(both, parent), child)

(* A package of a parent and a child that were not accepted one by one.  A *)
(* package that replaces has no other parents in the mempool.              *)
AcceptMultipleTransactions(parent, child) ==
    /\ phase = "idle"
    /\ parent # child
    /\ Spends(child, parent)
    /\ parent.vin \cap child.vin = {}
    /\ PreChecks(parent, {})
    /\ PreChecks(child, parent.vout)
    /\ Conflicts(mp, parent) \cup Conflicts(mp, child) # {} =>
           Parents(mp, parent) \cup Parents(mp, child) = {}
    /\ CheckAssetMempoolPolicyPackage(mp, parent, child)
    /\ mp' \in LimitMempoolSize(AcceptedPackage(mp, parent, child))
    /\ UNCHANGED <<chain, utxo, view, tags, disconnectpool, vHashUpdate, phase>>

Outputs(S) == UNION {tx.vout : tx \in S}

Inputs(S) == UNION {tx.vin : tx \in S}

Before(blk, i) == SubSeq(blk, 1, i - 1)

ApplyAsset(led, asset) ==
    IF asset = NoAsset \/ asset.op = "tag" THEN led ELSE ApplyTx(led, asset)

AppliedTo(led, blk) ==
    LET after[i \in 0..Len(blk)] ==
            IF i = 0 THEN led ELSE ApplyAsset(after[i - 1], blk[i].asset)
    IN  after[Len(blk)]

ApplyTags(tgs, blk) ==
    (tgs \ {<<tx.asset.addr, tx.asset.name>> :
                tx \in {tx \in Range(blk) : tx.asset.op = "tag" /\ tx.asset.type = "REMOVE"}})
    \cup {<<tx.asset.addr, tx.asset.name>> :
                tx \in {tx \in Range(blk) : tx.asset.op = "tag" /\ tx.asset.type = "ADD"}}

(* ConnectBlock without an asset cache, as TestBlockValidity calls it. *)
CheckBlockInputs(blk) ==
    \A i \in DOMAIN blk :
        blk[i].vin \subseteq (utxo \cup Outputs(Range(Before(blk, i)))) \ Inputs(Range(Before(blk, i)))

(* What ConnectBlock adds when it has one. *)
CheckBlockAssets(blk) ==
    \A i \in DOMAIN blk :
        CheckAssets(LedgerSeen(AppliedTo(view, Before(blk, i)), view), tags, blk[i].asset)

(* removeForBlock: the confirmed transactions leave, and what conflicts    *)
(* with them, with descendants.                                            *)
RemoveForBlock(p, S) ==
    RemoveStaged(p, (p.mapTx \cap S)
                    \cup Descendants(p, (UNION {Conflicts(p, tx) : tx \in S}) \ S))

(* DisconnectedBlockTransactions::removeForBlock *)
Without(pool, S) ==
    LET kept[i \in 0..Len(pool)] ==
            IF i = 0 THEN <<>>
            ELSE IF pool[i] \in S THEN kept[i - 1] ELSE Append(kept[i - 1], pool[i])
    IN  kept[Len(pool)]

ConnectTip(blk) ==
    /\ phase \in {"idle", "disconnecting", "connecting"}
    /\ Len(chain) < MaxBlocks
    /\ CheckBlockInputs(blk)
    /\ CheckBlockAssets(blk)
    /\ chain' = Append(chain, blk)
    /\ utxo' = (utxo \cup Outputs(Range(blk))) \ Inputs(Range(blk))
    /\ view' = AppliedTo(view, blk)
    /\ tags' = ApplyTags(tags, blk)
    /\ mp' = RemoveForBlock(mp, Range(blk))
    /\ disconnectpool' = Without(disconnectpool, Range(blk))
    /\ phase' = IF phase = "idle" THEN "idle" ELSE "connecting"
    /\ UNCHANGED vHashUpdate

(* The pool of disconnected transactions is bounded; the latest go first.  *)
(* The asset state stays as it is: the view that DisconnectBlock fills is  *)
(* not written back.                                                       *)
DisconnectTip ==
    /\ phase \in {"idle", "disconnecting"}
    /\ chain # <<>>
    /\ LET blk == chain[Len(chain)]
           queued == blk \o disconnectpool
       IN /\ utxo' = (utxo \ Outputs(Range(blk)))
                     \cup (Inputs(Range(blk)) \ Outputs(Range(blk)))
          /\ \E k \in 0..Len(queued) :
                /\ disconnectpool' = SubSeq(queued, 1, k)
                /\ mp' = RemoveRecursive(mp, Range(SubSeq(queued, k + 1, Len(queued))))
    /\ chain' = SubSeq(chain, 1, Len(chain) - 1)
    /\ phase' = "disconnecting"
    /\ UNCHANGED <<view, tags, vHashUpdate>>

(* One turn of the loop of MaybeUpdateMempoolForReorg. *)
Resubmit(tx) ==
    /\ phase # "idle"
    /\ disconnectpool # <<>>
    /\ tx = Head(disconnectpool)
    /\ \/ /\ CanAccept(tx)
          /\ mp' = Accepted(mp, tx)
          /\ vHashUpdate' = vHashUpdate \cup {tx}
       \/ /\ mp' = RemoveRecursive(mp, {tx})
          /\ UNCHANGED vHashUpdate
    /\ disconnectpool' = Tail(disconnectpool)
    /\ phase' = "resubmitting"
    /\ UNCHANGED <<chain, utxo, view, tags>>

(* Mutant: the links stay incomplete. *)
MutUpdateTransactionsFromBlock(p, S) == p

(* Links from a re-added transaction to children that were there already. *)
UpdateTransactionsFromBlock(p, S) ==
    [p EXCEPT !.links = @ \cup {l \in (p.mapTx \cap S) \X (p.mapTx \ S) : Spends(l[2], l[1])}]

(* The rest of it: chains that became too long and transactions that are   *)
(* no longer final leave, and the mempool is cut to its size.              *)
FinishReorg ==
    /\ phase # "idle"
    /\ disconnectpool = <<>>
    /\ mp' \in LimitMempoolSize(UpdateTransactionsFromBlock(mp, vHashUpdate))
    /\ vHashUpdate' = {}
    /\ phase' = "idle"
    /\ UNCHANGED <<chain, utxo, view, tags, disconnectpool>>

Blocks == UNION {Injection(1..n, MTxs) : n \in 0..MaxBlockTxs}

Next ==
    \/ \E tx \in MTxs : AcceptSingleTransaction(tx)
    \/ \E parent, child \in MTxs : AcceptMultipleTransactions(parent, child)
    \/ \E blk \in Blocks : ConnectTip(blk)
    \/ DisconnectTip
    \/ \E tx \in MTxs : Resubmit(tx)
    \/ FinishReorg

Spec == Init /\ [][Next]_vars

-----------------------------------------------------------------------------
(* Properties *)

AllEntries == UNION {Entries(tx) : tx \in MTxs}

Mempool == [mapTx: SUBSET MTxs, links: SUBSET (MTxs \X MTxs),
            mapAssetToHash: [Names -> MTxs \cup {None}],
            byValue: SUBSET (AllEntries \X MTxs),
            byHash: SUBSET (MTxs \X AllEntries)]

(* Every variable has its type. *)
TypeOK ==
    /\ chain \in Seq(Seq(MTxs))
    /\ utxo \in SUBSET Coins
    /\ view \in Ledger
    /\ tags \in SUBSET (Addrs \X Qualifiers)
    /\ mp \in Mempool
    /\ disconnectpool \in Seq(MTxs)
    /\ vHashUpdate \in SUBSET MTxs
    /\ phase \in {"idle", "disconnecting", "connecting", "resubmitting"}

Mirrors(p) ==
    /\ \A e \in AllEntries, tx \in MTxs :
           /\ <<e, tx>> \in p.byValue <=> tx \in p.mapTx /\ e \in Entries(tx)
           /\ <<tx, e>> \in p.byHash <=> tx \in p.mapTx /\ e \in Entries(tx)
    /\ \A n \in Names, tx \in MTxs :
           p.mapAssetToHash[n] = tx <=> tx \in p.mapTx /\ n \in IssuedName(tx)

(* However transactions come and go, the index holds what the transactions *)
(* of the mempool say and nothing else: each pair of maps lists the values *)
(* of each transaction, and mapAssetToHash each issue.                     *)
IndexMirrorsPool == Mirrors(mp)

(* No two transactions of the mempool issue one name, make the same global *)
(* change of an asset or the same change of a tag, which is what           *)
(* CheckAndStageVouts is for.                                              *)
ClaimsExclusive == \A s, t \in mp.mapTx : s # t => ~ SameClaim(s, t)

(* mapNextTx has room for one spender of an outpoint: the mempool never    *)
(* holds two.                                                              *)
NoDoubleSpend == \A s, t \in mp.mapTx : s # t => s.vin \cap t.vin = {}

(* What CTxMemPool::check asserts after every step of ActivateBestChain:   *)
(* inputs are unspent or made in the mempool, and the links between        *)
(* transactions are complete.                                              *)
PoolConsistent ==
    phase = "idle" =>
        /\ Inputs(mp.mapTx) \subseteq utxo \cup Outputs(mp.mapTx)
        /\ Outputs(mp.mapTx) \cap utxo = {}
        /\ mp.links = {l \in mp.mapTx \X mp.mapTx : Spends(l[2], l[1])}

(* CreateNewBlock takes transactions of the mempool whose inputs it can    *)
(* satisfy.  A template that TestBlockValidity lets pass is a block that   *)
(* ConnectTip accepts.                                                     *)
TemplateValid ==
    phase = "idle" =>
        \A blk \in Blocks :
            Range(blk) \subseteq mp.mapTx /\ CheckBlockInputs(blk) => CheckBlockAssets(blk)

=============================================================================
