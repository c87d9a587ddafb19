---------------------------- MODULE MCAssetStore ----------------------------
(***************************************************************************)
(* Small instances of AssetStore: one reissuable asset and one restricted  *)
(* asset with one address.  Amounts are in tenths, so that the smallest    *)
(* amount of an asset without decimals is 10.                              *)
(***************************************************************************)
EXTENDS AssetStore, TLC

CONSTANTS A, R, a

MCNames == {A, R}

MCRestricted == {R}

MCAddrs == {a}

Issue(n, amount, units) ==
    [op |-> "issue", name |-> n,
     meta |-> [amount |-> amount, units |-> units, reissuable |-> TRUE]]

Reissue(n, amount, units, reissuable) ==
    [op |-> "reissue", name |-> n, amount |-> amount, units |-> units,
     reissuable |-> reissuable]

(* The second reissue needs the decimal place that the first one adds, and *)
(* closes the asset.                                                       *)
MetaTxs == {Issue(A, 10, 0), Reissue(A, 10, 1, TRUE), Reissue(A, 5, -1, FALSE), Issue(R, 10, 0)}

Restrict(type) == [op |-> "restrict", name |-> R, addr |-> a, type |-> type]

Global(type) == [op |-> "global", name |-> R, type |-> type]

RestrictTxs == {Issue(R, 10, 0), [op |-> "transfer", name |-> R, from |-> a, amount |-> 10]}
    \cup {Restrict(t) : t \in RestrictedType} \cup {Global(t) : t \in RestrictedType}

AllTxs == MetaTxs \cup RestrictTxs

-----------------------------------------------------------------------------
(* The steady node with one more behaviour of the program each. *)

InterruptSpec == Init /\ [][SteadyNext \/ ReindexInterrupted]_vars

UnreadableSpec == Init /\ [][SteadyNext \/ ReindexSkipBlock]_vars

ImportSpec == Init /\ [][SteadyNext \/ BeginBlock]_vars

ReindexAssetsSpec == Init /\ [][SteadyNext \/ Restart(TRUE)]_vars

ReindexChainstateSpec == Init /\ [][SteadyNext \/ RestartReindexChainstate]_vars

=============================================================================
