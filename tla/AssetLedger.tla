----------------------------- MODULE AssetLedger -----------------------------
(***************************************************************************)
(* What the asset state of a node promises: whatever caches, databases and *)
(* restarts lie behind it, lookups answer with the ledger of the active    *)
(* chain, and a block is accepted or rejected by that ledger alone.        *)
(***************************************************************************)
EXTENDS AssetRules

VARIABLES
    chain,    \* the active chain, Seq(Entry)
    pending,  \* the entries of the block being connected, empty when there is none
    view      \* what lookups answer

vars == <<chain, pending, view>>

Init ==
    /\ chain = Genesis
    /\ pending = <<>>
    /\ view = EmptyLedger

Begin ==
    /\ pending = <<>>
    /\ pending' = <<[tx |-> Coinbase, led |-> LedgerOf(chain)]>>
    /\ UNCHANGED <<chain, view>>

Connect(tx) ==
    /\ pending # <<>>
    /\ CheckTxAssets(LedgerSeen(LedgerOf(pending), view), tx)
    /\ pending' = Append(pending, [tx |-> tx, led |-> ApplyTx(LedgerOf(pending), tx)])
    /\ UNCHANGED <<chain, view>>

Reject(tx) ==
    /\ pending # <<>>
    /\ ~CheckTxAssets(LedgerSeen(LedgerOf(pending), view), tx)
    /\ pending' = <<>>
    /\ UNCHANGED <<chain, view>>

Finish ==
    /\ pending # <<>>
    /\ chain' = chain \o pending
    /\ view' = LedgerOf(pending)
    /\ pending' = <<>>

(* A restart goes back to an earlier tip, with the ledger of that tip. *)
Rollback ==
    \E n \in 1..Len(chain) :
        /\ n < Len(chain) => chain[n + 1].tx = Coinbase
        /\ chain' = SubSeq(chain, 1, n)
        /\ view' = chain[n].led
        /\ pending' = <<>>

Next ==
    \/ Begin \/ Finish \/ Rollback
    \/ \E tx \in Txs : Connect(tx) \/ Reject(tx)

Spec == Init /\ [][Next]_vars

=============================================================================
