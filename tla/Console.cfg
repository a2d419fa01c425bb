SPECIFICATION ConsoleSpec
CONSTANTS
  Targets = {t1, t2}
  MaxOpenings = 2
  MaxKeys = 3
  MaxReads = 3
  MaxCalls = 2
  Nothing = Nothing
SYMMETRY Symmetry
CHECK_DEADLOCK FALSE
INVARIANTS
  OneCommandPerIntent
  OutcomeIsHonest
  RefusalIsDefinitive
PROPERTY
  GuardedViewAdvances
