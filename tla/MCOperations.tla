---------------------------- MODULE MCOperations ----------------------------
(* Operations with users as interchangeable model values.                   *)
EXTENDS Operations, TLC

Symmetry == Permutations(Users) \cup Permutations(Sessions)
=============================================================================
