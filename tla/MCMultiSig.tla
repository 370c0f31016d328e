----------------------------- MODULE MCMultiSig -----------------------------
(* Instances of MultiSig for TLC.                                          *)
EXTENDS MultiSig

CONSTANTS f1, f2, f3, f4, f5

MCFollowers == <<f1, f2, f3, f4, f5>>
=============================================================================
