------------------------------ MODULE MCTxData ------------------------------
(* Instances of TxData for TLC.                                            *)
EXTENDS TxData
=============================================================================
