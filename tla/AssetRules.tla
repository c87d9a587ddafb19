------------------------------ MODULE AssetRules ------------------------------
(***************************************************************************)
(* The data of the asset system: transactions, the consensus rules that    *)
(* CheckTxAssets applies to them, and their effect on a ledger.  The rules *)
(* read a plain record of what lookups answer; AssetLedger evaluates them  *)
(* on the ledger of the chain, AssetStore on its caches and databases.     *)
(*                                                                         *)
(* A chain is kept flat, as the sequence of its transactions in chain      *)
(* order with the ledger each one leaves behind.  A coinbase entry opens   *)
(* every block, and the first entry is the genesis block.                  *)
(***************************************************************************)
EXTENDS Integers, Sequences, FiniteSets

CONSTANTS
    Names,       \* asset names
    Restricted,  \* the names of restricted assets ("$TOKEN")
    Addrs,       \* addresses
    Txs,         \* the asset transactions that blocks may contain
    None,        \* "not found"
    MaxMoney,    \* MAX_MONEY
    MaxUnit      \* MAX_UNIT, 8 in the code

(* CNewAsset, without the fields that no rule below reads. *)
Meta == [amount: Nat, units: 0..MaxUnit, reissuable: BOOLEAN]

MetaMap == [Names -> Meta \cup {None}]

Key == Names \X Addrs

RestrictedType == {"FREEZE", "UNFREEZE"}

Coinbase == [op |-> "coinbase"]

IssueTx == [op: {"issue"}, name: Names, meta: Meta]

ReissueTx == [op: {"reissue"}, name: Names, amount: Nat,
              units: -1..MaxUnit, reissuable: BOOLEAN]

TransferTx == [op: {"transfer"}, name: Names, from: Addrs, amount: Nat]

RestrictTx == [op: {"restrict"}, name: Names, addr: Addrs, type: RestrictedType]

GlobalTx == [op: {"global"}, name: Names, type: RestrictedType]

AssetTx == IssueTx \cup ReissueTx \cup TransferTx \cup RestrictTx \cup GlobalTx

ASSUME ConstantsAssumption ==
    /\ MaxMoney \in Nat
    /\ MaxUnit \in Nat
    /\ Restricted \subseteq Names
    /\ Txs \subseteq AssetTx

ASSUME NoneAssumption ==
    /\ None \notin Meta
    /\ None \notin RestrictedType

(* MAX_UNIT is 8. *)
ASSUME UnitAssumption == MaxUnit <= 8

(* What a transaction check may see: asset metadata, the names that exist, *)
(* the frozen (asset, address) pairs and the globally frozen assets.       *)
Seen == [meta: MetaMap, exists: SUBSET Names,
         frozen: SUBSET Key, global: SUBSET Names]

Ledger == [meta: MetaMap, frozen: SUBSET Key,
           global: SUBSET Names]

EmptyLedger == [meta |-> [n \in Names |-> None], frozen |-> {}, global |-> {}]

Entry == [tx: Txs \cup {Coinbase}, led: Ledger]

Genesis == <<[tx |-> Coinbase, led |-> EmptyLedger]>>

LedgerOf(c) == c[Len(c)].led

(* Metadata is read as the block so far has left it; frozen and global are *)
(* read as of the tip, so that the order of a block's transactions does    *)
(* not matter to them.                                                     *)
LedgerSeen(led, tip) ==
    [meta |-> led.meta, exists |-> {n \in Names : led.meta[n] # None},
     frozen |-> tip.frozen, global |-> tip.global]

-----------------------------------------------------------------------------
(* Consensus rules *)

CheckAmountWithUnits(amount, units) == amount % 10^(MaxUnit - units) = 0

ContextualCheckNewAsset(s, tx) ==
    /\ tx.name \notin s.exists
    /\ tx.meta.amount \in 1..MaxMoney
    /\ CheckAmountWithUnits(tx.meta.amount, tx.meta.units)

(* Mutant: the total supply is not checked. *)
MutReissueSupply(s, tx) ==
    LET prev == s.meta[tx.name] IN
    /\ tx.amount < MaxMoney
    /\ prev # None
    /\ prev.reissuable
    /\ CheckAmountWithUnits(tx.amount, prev.units)
    /\ tx.units >= prev.units \/ tx.units = -1

ContextualCheckReissueAsset(s, tx) ==
    LET prev == s.meta[tx.name] IN
    /\ tx.amount < MaxMoney
    /\ prev # None
    /\ prev.reissuable
    /\ prev.amount + tx.amount <= MaxMoney
    /\ CheckAmountWithUnits(tx.amount, prev.units)
    /\ tx.units >= prev.units \/ tx.units = -1

ContextualCheckTransferAsset(s, tx) ==
    /\ tx.amount > 0
    /\ tx.name \in Restricted => /\ <<tx.name, tx.from>> \notin s.frozen
                                 /\ tx.name \notin s.global
    /\ s.meta[tx.name] # None
    /\ CheckAmountWithUnits(tx.amount, s.meta[tx.name].units)

VerifyRestrictedAddressChange(s, tx) ==
    /\ tx.name \in Restricted
    /\ (tx.type = "FREEZE") <=> (<<tx.name, tx.addr>> \notin s.frozen)

VerifyGlobalRestrictedChange(s, tx) ==
    (tx.type = "FREEZE") <=> (tx.name \notin s.global)

CheckTxAssets(s, tx) ==
    \/ tx.op = "issue"    /\ ContextualCheckNewAsset(s, tx)
    \/ tx.op = "reissue"  /\ ContextualCheckReissueAsset(s, tx)
    \/ tx.op = "transfer" /\ ContextualCheckTransferAsset(s, tx)
    \/ tx.op = "restrict" /\ VerifyRestrictedAddressChange(s, tx)
    \/ tx.op = "global"   /\ VerifyGlobalRestrictedChange(s, tx)

-----------------------------------------------------------------------------
(* The effect of a transaction *)

(* Mutant: -1, "leave the units alone", is stored as it is. *)
MutReissued(prev, tx) ==
    [amount |-> prev.amount + tx.amount, units |-> tx.units, reissuable |-> tx.reissuable]

(* Mutant: the reissued amount replaces the supply. *)
MutReissuedAmount(prev, tx) ==
    [amount |-> tx.amount,
     units |-> IF tx.units = -1 THEN prev.units ELSE tx.units,
     reissuable |-> tx.reissuable]

Reissued(prev, tx) ==
    [amount |-> prev.amount + tx.amount,
     units |-> IF tx.units = -1 THEN prev.units ELSE tx.units,
     reissuable |-> tx.reissuable]

Switch(S, k, type) == IF type = "FREEZE" THEN S \cup {k} ELSE S \ {k}

ApplyTx(led, tx) ==
    [meta |-> IF tx.op = "issue" THEN [led.meta EXCEPT ![tx.name] = tx.meta]
              ELSE IF tx.op = "reissue" /\ led.meta[tx.name] # None
              THEN [led.meta EXCEPT ![tx.name] = Reissued(@, tx)]
              ELSE led.meta,
     frozen |-> IF tx.op = "restrict" THEN Switch(led.frozen, <<tx.name, tx.addr>>, tx.type)
                ELSE led.frozen,
     global |-> IF tx.op = "global" THEN Switch(led.global, tx.name, tx.type)
                ELSE led.global]

=============================================================================
