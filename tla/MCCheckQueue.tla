---------------------------- MODULE MCCheckQueue ----------------------------
(***************************************************************************)
(* Two workers and the master; four checks, so that a thread can take two  *)
(* at once; two rounds, so that the first can leave something behind.      *)
(***************************************************************************)
EXTENDS CheckQueue

=============================================================================
