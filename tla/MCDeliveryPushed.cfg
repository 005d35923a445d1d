SPECIFICATION Spec
CONSTANTS
  N = 2
  AckOrder <- TextAcks
  MaxFaults = 1
INVARIANTS
  TrueMeansPushed
CHECK_DEADLOCK FALSE
