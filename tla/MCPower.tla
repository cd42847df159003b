------------------------------ MODULE MCPower ------------------------------
(* Power with requests as model values.                                     *)
EXTENDS Power, TLC

Symmetry == Permutations(Requests)
=============================================================================
