SPECIFICATION RuntimeSpec
CONSTANTS
  tA = tA
  tB = tB
  i1 = i1
  i2 = i2
  i3 = i3
  Target <- MCOneTarget
  Id <- MCIds
  NoSelection = NoSelection
  Debounce = 1
  Recheck = 1
  TTL = 2
  QueueSize = 1
  MaxVersion = 2
  MaxDeaths = 1
  MaxTime = 3
  MaxRevision = 20
INVARIANTS
  LeasesAgree
PROPERTIES
  ImplementsController
SYMMETRY MCIdSymmetry
CHECK_DEADLOCK FALSE
