SPECIFICATION PolicySpec
CONSTANTS
  NoVersion = NoVersion
  AnyProvider = AnyProvider
  Keys = {k1, k2, k3}
  Handlers = {h1, h2, h3}
  RuleIds = {"r1", "r2"}
  Sources = {"aws", "azure"}
  Providers = {"EC2", "other"}
  RuleSets <- MCRuleSets
  Facts <- MCFacts
SYMMETRY Symmetry
CHECK_DEADLOCK FALSE
INVARIANTS
  PolicyChain
  CostIsConserved
