--------------------------- MODULE MCGovernedCommand ---------------------------
(***************************************************************************)
(* Instances of the governed command for TLC.                              *)
(***************************************************************************)
EXTENDS GovernedCommand, TLC

Symmetry ==
  Permutations(Executors) \cup Permutations(Sweepers) \cup Permutations(Keys)
===============================================================================
