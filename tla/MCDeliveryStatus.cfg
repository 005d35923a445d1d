SPECIFICATION Spec
CONSTANTS
  N = 2
  AckOrder <- TextAcks
  MaxFaults = 0
PROPERTIES
  StatusAdvances
CHECK_DEADLOCK FALSE
