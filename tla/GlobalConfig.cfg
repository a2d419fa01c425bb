SPECIFICATION Spec
CONSTANTS
  NoRow = NoRow
  Packages = {p1, p2}
  Approvals = {a1, a2}
  Contents = {c1, c2}
  Handlers = {h1, h2}
  MaxChanges = 1
SYMMETRY Symmetry
CHECK_DEADLOCK FALSE
INVARIANTS
  OutcomeIsTrue
  RestoreFollowsLedger
  AppliedWasApplied
  StagedOnce
