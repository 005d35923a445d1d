SPECIFICATION DSpec
CONSTANTS
  NoDevice = NoDevice
  NoView = NoView
  Unasked = Unasked
  Automatic = Automatic
  Devices = {1, 2, 3}
  Device = {1, 2, 3}
  Scores = {30, 49, 50, 64}
  Threshold = 15
  Hold = 1
INVARIANTS
  PlansAreSound
  ShownIsServed
  AuthorityIsGranted
PROPERTIES
  LivelierScoresMore
CHECK_DEADLOCK FALSE
