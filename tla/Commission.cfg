SPECIFICATION Spec
CONSTANTS
  NoRow = NoRow
  Keys = {k1, k2, k3}
  Executors = {e1, e2}
  Sweepers = {s1, s2}
SYMMETRY Symmetry
CHECK_DEADLOCK FALSE
INVARIANTS
  ActiveMeansCommissioned
  RecordedTenantExists
  FailedMeansNoTenant
PROPERTIES
  FailedStaysFailed
