SPECIFICATION RFairSpec
CONSTANTS
  N = 2
  AckOrder <- FailingAcks
  MaxFaults = 1
PROPERTIES
  RemovalEscalates
CHECK_DEADLOCK FALSE
