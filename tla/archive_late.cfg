SPECIFICATION Spec
CONSTANTS
  Bucket = {0, 1}
  DayEnd = 2
  Retention = 3
  LiveReach = 1
  BatchSize = 1
  KeptFiles = 1
  NoRow = NoRow
  MaxClock = 5
  MaxGeneration = 2
PROPERTIES
  LateCandleIsRearchived
