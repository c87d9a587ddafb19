---------------------------- MODULE MCBaseIndex ----------------------------
(***************************************************************************)
(* A genesis block, a chain of two above it and a fork of one, so that a   *)
(* reorganisation removes two blocks, one of which is not overwritten.     *)
(***************************************************************************)
EXTENDS BaseIndex

MCLabel == {1, 2}

MCBlock == {<<1>>, <<1, 1>>, <<1, 1, 1>>, <<1, 2>>}

=============================================================================
