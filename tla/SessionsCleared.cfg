SPECIFICATION Spec
CONSTANTS
  Call = {c1, c2}
  Out = Out
  MaxTokens = 3
  MaxFaults = 0
PROPERTIES
  ClearedIsDead
CHECK_DEADLOCK FALSE
