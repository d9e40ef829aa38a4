------------------------------- MODULE MCTxn -------------------------------
(* TLC instances of TxnProtocol; the configurations give every constant. *)
EXTENDS TxnProtocol, TLC
===========================================================================
