SPECIFICATION Spec
CONSTANTS
  NoRow = NoRow
  Keys = {k1, k2}
  Approvals = {a1}
  Values = {v1, v2}
  Guarded = {v1}
  Handlers = {h1, h2}
  MaxChanges = 1
SYMMETRY Symmetry
CHECK_DEADLOCK FALSE
INVARIANTS
  OutcomeIsTrue
  ExecutedAsApproved
  RecoveryIsComplete
