SPECIFICATION Spec
CONSTANTS
  p1 = p1
  p2 = p2
  x1 = x1
  u1 = u1
  u2 = u2
  red = red
  blue = blue
  Paths <- MCPaths
  Contents <- MCContents
  Disks <- OneFile
  MaxId = 2
  Users = {}
  Indexers = {x1}
  SkipIngest = TRUE
  MaxUpsets = 1
PROPERTY
  EarliestCopySurvives
