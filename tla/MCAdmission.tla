---------------------------- MODULE MCAdmission ----------------------------
(* Admission with the values of the configurations.                         *)
EXTENDS Admission, TLC
Symmetry == Permutations(Machines)
=============================================================================
