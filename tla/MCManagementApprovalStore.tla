---------------------- MODULE MCManagementApprovalStore -----------------------
(***************************************************************************)
(* Instances of the approval store for TLC.                                *)
(***************************************************************************)
EXTENDS ManagementApprovalStore, TLC

Symmetry ==
  Permutations(Handlers) \cup Permutations(Hashes) \cup Permutations(Operators)
===============================================================================
