SPECIFICATION CSpec
CONSTANTS
  Note = {1, 2}
  Silent = {2}
  Limit = 1
  Load = {l1, l2}
  Wake = {w1, w2}
  Logins = 2
  MaxFaults = 1
INVARIANTS
  ListedOnce
  OneConnection
PROPERTIES
  StaysConnected
  WakesShow
  RefreshesConverge
CHECK_DEADLOCK FALSE
