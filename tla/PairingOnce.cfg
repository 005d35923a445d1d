SPECIFICATION Spec
CONSTANTS
  User = {u1, u2}
  Pairing = {p1, p2}
  Code = {k1, k2}
  Call = {c1, c2}
  NoCode = NoCode
  NoPairing = NoPairing
  Devices = 2
INVARIANTS
  SingleUse
CHECK_DEADLOCK FALSE
