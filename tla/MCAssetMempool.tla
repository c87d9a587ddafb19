--------------------------- MODULE MCAssetMempool ---------------------------
(***************************************************************************)
(* A small instance of AssetMempool.  Two issues claim one name from       *)
(* different coins, two freezes claim the same as a package, three         *)
(* transactions spend one coin, and three form a chain, so that            *)
(* replacement, eviction, conflicts with a block and reorganisations all   *)
(* meet the indexes.                                                       *)
(***************************************************************************)
EXTENDS AssetMempool

CONSTANTS A, R, Q, a

MCNames == {A, R}

MCRestricted == {R}

MCAddrs == {a}

MCQualifiers == {Q}

MCCoins == 1..15

MCFunding == {1, 2, 3}

Issue(n) ==
    [op |-> "issue", name |-> n, meta |-> [amount |-> 1, units |-> 0, reissuable |-> TRUE]]

Tag(type) == [op |-> "tag", name |-> Q, addr |-> a, type |-> type]

Global(type) == [op |-> "global", name |-> R, type |-> type]

Transfer == [op |-> "transfer", name |-> R, from |-> a, amount |-> 1]

(* -1 leaves the units alone. *)
Reissue == [op |-> "reissue", name |-> A, amount |-> 1, units |-> -1, reissuable |-> TRUE]

MCTxs == {Issue(n) : n \in MCNames} \cup {Reissue} \cup {Global(t) : t \in RestrictedType} \cup {Transfer}

Tx(vin, vout, asset) == [vin |-> vin, vout |-> vout, to |-> a, asset |-> asset]

(* The plain transaction is what a reorganisation can put back, as issues  *)
(* and tags of a disconnected block are still found; it has children to    *)
(* meet it there.                                                          *)
MCMTxs ==
    {Tx({1}, {4}, Issue(R)), Tx({4}, {5}, Transfer), Tx({2}, {6}, Issue(A)),
     Tx({3}, {7}, Issue(A)), Tx({6}, {8}, Reissue),
     Tx({3}, {9}, NoAsset), Tx({9}, {10}, Global("FREEZE")), Tx({10}, {11}, Global("FREEZE")),
     Tx({4, 3}, {12}, Global("UNFREEZE")), Tx({6, 9}, {13}, Tag("ADD")),
     Tx({13}, {14}, Tag("REMOVE")), Tx({10}, {15}, NoAsset)}

=============================================================================
