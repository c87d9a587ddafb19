---------------------------- MODULE CoinsLedger ----------------------------
(***************************************************************************)
(* What the coins views promise.  There is one set of unspent coins, that  *)
(* of the active chain, and one durable chain.  A block changes the first  *)
(* in one step, a flush moves the second to the first in one step, and a   *)
(* crash falls back to the second.  Caches, partial batches and replays    *)
(* are invisible.                                                          *)
(***************************************************************************)
EXTENDS CoinsRules

VARIABLES
    chain,  \* the chain whose coins lookups see
    disk,   \* the chain that a restart would load
    coins   \* what lookups answer

vars == <<chain, disk, coins>>

Init == chain = <<>> /\ disk = <<>> /\ coins = NoCoins

(* A block becomes the tip, or stops being it. *)
Connect ==
    /\ Len(chain') > Len(chain)
    /\ SubSeq(chain', 1, Len(chain)) = chain
    /\ \A n \in Len(chain) + 1..Len(chain') :
           /\ ValidEntry(chain', n)
           /\ chain'[n].height = Height(chain) + 1
    /\ coins' = UtxoOf(chain')
    /\ UNCHANGED disk

Disconnect ==
    /\ Len(chain') < Len(chain)
    /\ chain' = SubSeq(chain, 1, Len(chain'))
    /\ Height(chain') # Height(chain)
    /\ coins' = UtxoOf(chain')
    /\ UNCHANGED disk

Persist == disk' = chain /\ UNCHANGED <<chain, coins>>

Crash == chain' = disk /\ coins' = UtxoOf(disk) /\ UNCHANGED disk

Next == Connect \/ Disconnect \/ Persist \/ Crash

Spec == Init /\ [][Next]_vars

=============================================================================
