SPECIFICATION Spec
CONSTANTS
  NoRow = NoRow
  Keys = {k1}
  Hashes = {x1, x2}
  Refs = {r1, r2}
  Handlers = {h1, h2}
SYMMETRY Symmetry
INVARIANTS
  KeyAgreesWithOperation
  ReservationAccounted
  AuditIsHistory
PROPERTIES
  TerminalIsFrozen
