SPECIFICATION Spec
CONSTANTS
  NoRow = NoRow
  Keys = {k1, k2}
  Approvals = {a1}
  Executors = {e1, e2}
  Sweepers = {s1}
  HasReceipts = TRUE
  LateDelivery = FALSE
  SlowExecutors = FALSE
  MaxDispatches = 2
SYMMETRY Symmetry
INVARIANTS
  OneCommandPerApproval
  StrandedNeverDispatched
  FailedMeansNotExecuted
