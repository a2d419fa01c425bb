--------------------------- MODULE MCTenantProjection ---------------------------
(***************************************************************************)
(* Instances of the tenant projection for TLC.                             *)
(***************************************************************************)
EXTENDS TenantProjection, TLC

Symmetry == Permutations(Handlers)
===============================================================================
