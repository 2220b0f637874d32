SPECIFICATION EachSpec
CONSTANTS
  r1 = r1
  r2 = r2
  s1 = s1
  s2 = s2
  Request <- MCRequest
  Change = {c1}
  None = None
  Limit = 2
  Stale = 2
  Timeout = 1
  Price = {1, 2}
  Size = {0, 1}
  NoBook = NoBook
  Commits = 2
  Deals = 1
  SeenLimit = 2
  MaxUpdates = 2
  MaxTrades = 1
  MaxLost = 1
  MaxBreaks = 1
  N = 2
  VenueOf <- MCVenueOf
  LastMinute = 1
  Requests = 1
  Pages = 1
  Nothing = Nothing
  MaxChanges = 1
  MaxFaults = 1
  MaxDeaths = 1
  Symbols = {x}
  Sweeps <- MCSweeps
  Interval = 2
  Grace = 1
  Lookback = 2
  Settlements = 2
  MaxTime = 5
  MaxVersions = 2
  MaxSetbacks = 1
INVARIANTS
  StoreIsSerial
  DisplayIsHonest
  
PROPERTIES
  RequestsEnd
  ImplementsFeed
  BookAppears
  EveryTargetIsAsked
  SettlementsAreRecorded
CHECK_DEADLOCK FALSE
