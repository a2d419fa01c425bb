-------------------------- MODULE MCTenantCommission --------------------------
(***************************************************************************)
(* Instances of the commissioning of a tenant for TLC.                     *)
(***************************************************************************)
EXTENDS TenantCommission, TLC

Symmetry ==
  Permutations(Keys) \cup Permutations(Executors) \cup Permutations(Sweepers)
===============================================================================
