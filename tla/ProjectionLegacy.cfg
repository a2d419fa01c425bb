SPECIFICATION ProjectionSpec
CONSTANTS
  NoProjection = NoProjection
  Tenants = {t1}
  Handlers = {h1, h2}
  MaxCommands = 1
  MaxAttempts = 1
CHECK_DEADLOCK FALSE
INVARIANTS
  SettledCommissionIsBound
