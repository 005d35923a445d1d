SPECIFICATION Spec
CONSTANTS
  Request = {r1, r2}
  Key = {k1}
  NoKey = NoKey
  Nothing = Nothing
  Patient = TRUE
  MaxFaults = 1
INVARIANTS
  OnePerKey
CHECK_DEADLOCK FALSE
