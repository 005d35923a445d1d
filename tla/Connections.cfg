SPECIFICATION FairSpec
CONSTANTS
  Sockets = 3
  MaxFaults = 2
INVARIANTS
  RegisteredIsServed
  NothingLeaks
PROPERTIES
  ImplementsLink
  GoneIsUnregistered
