SPECIFICATION FairSpec
CONSTANTS
  r1 = r1
  r2 = r2
  Roots <- MCRoots
  CatchUp = TRUE
  MaxScans = 2
  MaxEvents = 1
  MaxUpsets = 1
INVARIANTS
  ScansNeverStack
  OnlyDropsForget
PROPERTIES
  ChangesScanned
