--------------------------- MODULE MCEnforceWatch ---------------------------
(* EnforceWatch with three interchangeable leases. *)
EXTENDS EnforceWatch, TLC

CONSTANTS l1, l2, l3

Interchangeable == Permutations({l1, l2, l3})
=============================================================================
