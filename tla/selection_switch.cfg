SPECIFICATION RuntimeSpec
CONSTANTS
  tA = tA
  tB = tB
  i1 = i1
  i2 = i2
  i3 = i3
  Target <- MCTargets
  Id <- MCIds
  NoSelection = NoSelection
  Debounce = 1
  Recheck = 1
  TTL = 3
  QueueSize = 1
  MaxVersion = 1
  MaxDeaths = 0
  MaxTime = 3
  MaxRevision = 20
INVARIANTS
  SwitchesAreClean
SYMMETRY MCSymmetry
