------------------------- MODULE MCFinalizeOutbound -------------------------
(* Instances of FinalizeOutbound for TLC.                                  *)
EXTENDS FinalizeOutbound, TLC

CONSTANTS s1, s2, t1, t2

\* One payment per swap.
MCMembers == {[swap |-> s1, txid |-> t1], [swap |-> s2, txid |-> t2]}
=============================================================================
