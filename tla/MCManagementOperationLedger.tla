---------------------- MODULE MCManagementOperationLedger ----------------------
(***************************************************************************)
(* Instances of the ledger for TLC.                                        *)
(***************************************************************************)
EXTENDS ManagementOperationLedger, TLC

Symmetry ==
  Permutations(Handlers) \cup Permutations(Hashes) \cup Permutations(Refs)
===============================================================================
