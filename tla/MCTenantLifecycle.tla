------------------------- MODULE MCTenantLifecycle -------------------------
(* Instances of the life of a tenant for TLC.                              *)
EXTENDS TenantLifecycle, TLC

CONSTANTS r1, r2, r3

Symmetry == Permutations(Requests)
=============================================================================
