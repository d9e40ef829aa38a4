---------------------------- MODULE MCTxnReplay ----------------------------
(* TLC instance of TxnReplay. *)
EXTENDS TxnReplay
===========================================================================
