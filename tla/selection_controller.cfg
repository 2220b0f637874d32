SPECIFICATION FairSpec
CONSTANTS
  Id = {i1, i2}
  Target = {tA, tB}
  NoSelection = NoSelection
  Debounce = 1
  TTL = 2
  MaxTime = 4
  MaxRevision = 3
INVARIANTS
  SingleSubscription
  NoLeakedSubscription
PROPERTIES
  OnlyLatestActivates
  PendingNeverLost
  ExpiredIsClosed
