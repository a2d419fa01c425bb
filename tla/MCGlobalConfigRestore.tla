------------------------- MODULE MCGlobalConfigRestore -------------------------
(***************************************************************************)
(* Instances of the global configuration restore for TLC.                  *)
(***************************************************************************)
EXTENDS GlobalConfigRestore, TLC

Symmetry ==
  Permutations(Packages) \cup Permutations(Approvals) \cup Permutations(Contents)
    \cup Permutations(Handlers)
===============================================================================
