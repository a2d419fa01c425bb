SPECIFICATION Spec
CONSTANTS
  Operators = {o1, o2}
  Transactions = {x1, x2}
  Sessions = {s1, s2}
  Tabs = {t1, t2}
  Handlers = {h1, h2}
  None = None
SYMMETRY Symmetry
INVARIANTS
  CommandRunsAsShown
  StepUpIsProven
  OneSessionPerLogin
PROPERTIES
  DisabledStays
  SignedOutIsOut
CHECK_DEADLOCK FALSE
