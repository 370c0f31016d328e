--------------------------- MODULE MCSendOutbound ---------------------------
(* Instances of SendOutbound for TLC.                                      *)
EXTENDS SendOutbound, TLC

\* Jobs and txids are interchangeable; no safety property tells them apart.
MCSymmetry == Permutations(Jobs) \cup Permutations(Txids)
=============================================================================
