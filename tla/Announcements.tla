--------------------------- MODULE Announcements ---------------------------
(***************************************************************************)
(* The announcements that TxRequestTracker keeps, one for every peer and   *)
(* txhash, and the priority by which it chooses among them.                *)
(***************************************************************************)
EXTENDS Integers, FiniteSets

CONSTANTS
    Peer, TxHash,
    Time,           \* the times that reqtime, expiry and now are taken from
    Announced,      \* <<peer, txhash>> for the transactions that a peer may announce
    Preferred,      \* the peers whose connection is preferred
    Low,            \* the salted hash of <<peer, txhash>>, 63 bits
    PreferredBit    \* 2^63

(* The hash has no collisions among the peers of a txhash. *)
ASSUME TxRequestAssumption ==
    /\ IsFiniteSet(Peer)
    /\ IsFiniteSet(TxHash)
    /\ Time \subseteq Nat
    /\ 0 \in Time
    /\ Announced \subseteq Peer \X TxHash
    /\ Preferred \subseteq Peer
    /\ PreferredBit \in Nat
    /\ Low \in [Peer \X TxHash -> 0..(PreferredBit - 1)]
    /\ \A h \in TxHash : \A p, q \in Peer : Low[<<p, h>>] = Low[<<q, h>>] => p = q

Pair == Peer \X TxHash
Nothing == [state |-> "NOTHING", time |-> 0]

(* PriorityComputer *)
Priority(x) == IF x[1] \in Preferred THEN Low[x] + PreferredBit ELSE Low[x]

============================================================================
