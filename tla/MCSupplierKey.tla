--------------------------- MODULE MCSupplierKey ---------------------------
(* SupplierKey with the values of the configurations.                       *)
EXTENDS SupplierKey
GrantsUpDown == {-1, 2}
=============================================================================
