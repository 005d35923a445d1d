SPECIFICATION Spec
CONSTANTS
  Request = {r1, r2}
  Key = {k1}
  NoKey = NoKey
  Nothing = Nothing
  Patient = FALSE
  MaxFaults = 0
INVARIANTS
  OnePerKey
CHECK_DEADLOCK FALSE
