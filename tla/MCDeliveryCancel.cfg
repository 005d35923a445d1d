SPECIFICATION Spec
CONSTANTS
  N = 2
  AckOrder <- TextAcks
  MaxFaults = 0
PROPERTIES
  CancelOnlyUnacknowledged
CHECK_DEADLOCK FALSE
