SPECIFICATION Spec
CONSTANTS
  Call = {c1, c2}
  Out = Out
  MaxTokens = 3
  MaxFaults = 0
INVARIANTS
  SingleUse
CHECK_DEADLOCK FALSE
