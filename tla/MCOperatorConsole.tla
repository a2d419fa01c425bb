---------------------------- MODULE MCOperatorConsole ----------------------------
(* Two targets, components opened twice, three keys, three reads and two     *)
(* submissions on their way at once.                                         *)
EXTENDS OperatorConsole, TLC

Symmetry == Permutations(Targets)
===============================================================================
