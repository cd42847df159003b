------------------------------ MODULE MCLedger ------------------------------
(* Two API requests and the worker posting for two customers, one charge key *)
(* and keyless grants.                                                       *)
EXTENDS Ledger, TLC

MCAmounts == {-1, 2}
Symmetry == Permutations(Sessions) \cup Permutations(Users)
=============================================================================
