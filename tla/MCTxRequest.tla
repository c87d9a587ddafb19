---------------------------- MODULE MCTxRequest ----------------------------
(***************************************************************************)
(* Peers are numbers.  Three announce the first transaction, so that a     *)
(* READY announcement waits behind another; the first peer also announces  *)
(* a second transaction, so that a peer has two.                           *)
(***************************************************************************)
EXTENDS TxRequest

MCAnnounced == {<<1, 1>>, <<2, 1>>, <<3, 1>>, <<1, 2>>}
MCPreferredBit == 4
MCLow == [x \in Peer \X TxHash |-> (x[1] + x[2]) % MCPreferredBit]

============================================================================
