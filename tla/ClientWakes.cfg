SPECIFICATION CSpec
CONSTANTS
  Note = {1, 2}
  Silent = {}
  Limit = 1
  Load = {l1}
  Wake = {w1}
  Logins = 1
  MaxFaults = 0
PROPERTIES
  WakesShowUnread
CHECK_DEADLOCK FALSE
