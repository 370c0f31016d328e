---------------------------- MODULE MCRedeemHTLC ----------------------------
(* Instances of RedeemHTLC for TLC.                                        *)
EXTENDS RedeemHTLC
=============================================================================
