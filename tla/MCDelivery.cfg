SPECIFICATION Spec
CONSTANTS
  N = 3
  AckOrder <- TextAcks
  MaxFaults = 1
INVARIANTS
  PushesAreOrderly
  LedgerIsTrue
  AcksAreAwaited
CHECK_DEADLOCK FALSE
