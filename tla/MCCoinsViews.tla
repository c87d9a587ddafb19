---------------------------- MODULE MCCoinsViews ----------------------------
(***************************************************************************)
(* Two coinbases, two transactions that spend the same coin, and one that  *)
(* spends outputs of the first and of a coinbase.                          *)
(***************************************************************************)
EXTENDS CoinsViews, TLC

MCIn == "cb1" :> {} @@ "cb2" :> {} @@ "t1" :> {"a"} @@ "t2" :> {"a"} @@ "t3" :> {"b", "c"}

MCOut == "cb1" :> {"a"} @@ "cb2" :> {"b"} @@ "t1" :> {"c"} @@ "t2" :> {"d"} @@ "t3" :> {}

=============================================================================
