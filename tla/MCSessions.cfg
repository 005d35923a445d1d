SPECIFICATION Spec
CONSTANTS
  Call = {c1, c2, c3}
  Out = Out
  MaxTokens = 3
  MaxFaults = 1
INVARIANTS
  StoredIsUsable
SYMMETRY Symmetry
CHECK_DEADLOCK FALSE
