-------------------------- MODULE MCCoinSelection --------------------------
(* Instances of CoinSelection for TLC.                                     *)
EXTENDS CoinSelection

\* No estimate, and 3 and 20 sats per vbyte.
MCEstimates == {-1, 2049, 20480}
=============================================================================
