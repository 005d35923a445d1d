SPECIFICATION PFairSpec
CONSTANTS
  Device = {1, 2}
  Threshold = 15
  Hold = 2
  Call = {c1, c2}
  Reports <- MCReports
PROPERTIES
  PrimaryHeld
  AheadTakesOver
