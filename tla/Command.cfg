SPECIFICATION FairSpec
CONSTANTS
  NoRow = NoRow
  Keys = {k1}
  Approvals = {a1}
  Executors = {e1}
  Sweepers = {s1, s2}
  HasReceipts = TRUE
  LateDelivery = TRUE
  SlowExecutors = TRUE
  MaxDispatches = 2
INVARIANTS
  CompletedMeansExecuted
  OneDispatchPerKey
PROPERTIES
  RegistrySpec
  OperationSettles
