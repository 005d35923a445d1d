SPECIFICATION Spec
CONSTANTS
  Sockets = 2
  MaxFaults = 0
INVARIANTS
  ConnectedIsOnline
