SPECIFICATION LiveProjectionSpec
CONSTANTS
  NoProjection = NoProjection
  Tenants = {t1}
  Handlers = {h1, h2}
  MaxCommands = 2
  MaxAttempts = 2
CHECK_DEADLOCK FALSE
INVARIANTS
  ObservedDecommissionIsTrue
  DisagreementIsListed
PROPERTIES
  ObservationCatchesUp
