----------------------------- MODULE CoinsRules -----------------------------
(***************************************************************************)
(* Transactions as the coins views see them: what they spend, what they    *)
(* create, and what they do to a set of unspent coins.                     *)
(***************************************************************************)
EXTENDS Integers, Sequences

CONSTANTS
    Tx,        \* transactions, by txid
    Outpoint,  \* outputs that can be spent
    Coinbase,  \* the transactions that are coinbases
    In,        \* In[t]: the outpoints that t spends
    Out        \* Out[t]: the outpoints that t creates

(* Txids commit to what a transaction spends and creates, so no two        *)
(* transactions create the same outpoint and none spends its own output.   *)
(* CheckTransaction refuses a transaction without inputs.                  *)
ASSUME TxAssumption ==
    /\ Coinbase \subseteq Tx
    /\ In \in [Tx -> SUBSET Outpoint]
    /\ Out \in [Tx -> SUBSET Outpoint]
    /\ \A t \in Tx : In[t] \cap Out[t] = {}
    /\ \A t, u \in Tx : t # u => Out[t] \cap Out[u] = {}
    /\ \A t \in Tx : In[t] = {} <=> t \in Coinbase

(* A coin is known by the height of the block that created it; no coin is  *)
(* 0.  The genesis block has height 0 and creates no coin.                 *)
Utxo == [Outpoint -> Nat]

NoCoins == [o \in Outpoint |-> 0]

(* An entry of a chain: a transaction, its block's height, the coins that  *)
(* its undo record holds, and the unspent coins after it, which is history *)
(* that no operation reads.  A chain is the sequence of its transactions,  *)
(* without the genesis block; it also stands for the hash of its last      *)
(* block.                                                                  *)
Entry == [tx: Tx, height: Nat, undo: Utxo, utxo: Utxo]

UtxoAt(path, n) == IF n = 0 THEN NoCoins ELSE path[n].utxo

UtxoOf(path) == UtxoAt(path, Len(path))

Height(path) == IF path = <<>> THEN 0 ELSE path[Len(path)].height

ApplyTx(utxo, t, height) ==
    [o \in Outpoint |->
        IF o \in Out[t] THEN height ELSE IF o \in In[t] THEN 0 ELSE utxo[o]]

(* Entry n of path is a transaction with its inputs unspent, its outputs   *)
(* new, and undo data that restores what it spends.                        *)
ValidEntry(path, n) ==
    LET before == UtxoAt(path, n - 1)
        t == path[n].tx
    IN  /\ \A o \in In[t] : before[o] # 0
        /\ \A o \in Out[t] : before[o] = 0
        /\ path[n].undo = [o \in Outpoint |-> IF o \in In[t] THEN before[o] ELSE 0]
        /\ path[n].utxo = ApplyTx(before, t, path[n].height)

=============================================================================
