---------------------------- MODULE MCReconciler ----------------------------
(* Reconciler with two leases in succession. *)
EXTENDS Reconciler, TLC

CONSTANTS l1, l2

Interchangeable == Permutations({l1, l2})
=============================================================================
