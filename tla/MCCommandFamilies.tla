--------------------------- MODULE MCCommandFamilies ---------------------------
(***************************************************************************)
(* Instances of the command families for TLC.                              *)
(***************************************************************************)
EXTENDS CommandFamilies, TLC

Symmetry == Permutations(Keys) \cup Permutations(Approvals) \cup Permutations(Handlers)
===============================================================================
