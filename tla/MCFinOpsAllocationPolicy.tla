----------------------- MODULE MCFinOpsAllocationPolicy -----------------------
(***************************************************************************)
(* Instances of the FinOps allocation policy for TLC: valid rule sets with *)
(* an overlap of rules, and rule sets that validation refuses.             *)
(***************************************************************************)
EXTENDS FinOpsAllocationPolicy, TLC

Rule(id, source, provider, allocations) ==
  [id |-> id, source |-> source, provider |-> provider, allocations |-> allocations]

MCRuleSets ==
  { <<>>,
    <<Rule("r1", "aws", "EC2", <<60, 15, 25>>), Rule("r2", "aws", AnyProvider, <<30>>)>>,
    <<Rule("r1", "aws", AnyProvider, <<60, 60>>)>>,
    <<Rule("r1", "aws", AnyProvider, <<100>>), Rule("r1", "azure", AnyProvider, <<50>>)>>,
    <<Rule("r1", "azure", AnyProvider, <<>>)>> }

MCFacts ==
  [source : {"aws", "azure"}, provider : {"EC2", "other"}, amount : {-7, 0, 200}]

Symmetry == Permutations(Keys) \cup Permutations(Handlers)
===============================================================================
