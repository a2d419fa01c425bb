SPECIFICATION Spec
CONSTANTS
  NoRow = NoRow
  Approvals = {a1}
  Operators = {alice, bob, carol}
  Hashes = {x1, x2}
  Handlers = {h1, h2}
  Ttl = 1
  MaxTime = 2
  MaxGrants = 2
SYMMETRY Symmetry
INVARIANTS
  OneExecutionPerApproval
PROPERTIES
  DecisionIsFinal
  ExecutionMatchesApproval
