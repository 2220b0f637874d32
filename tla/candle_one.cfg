SPECIFICATION Spec
CONSTANTS
  mexcPerp = mexcPerp
  otherPerp = otherPerp
  mexc = mexc
  other = other
  Instrument <- MCOneInstrument
  Venue <- MCVenue
  VenueOf <- MCVenueOf
  Scaled <- MCScaled
  Bucket <- MCBucket
  Terms = {t1, t2}
  ActiveTerms = {t1, t2}
  None = None
  MaxClock = 4
  MaxVersions = 3
  MaxLag = 2
  QueueSize = 2
  BatchSize = 2
  Reach = 1
INVARIANTS
  StorageHolds
  VersionsDisjoint
  MemoryWasPersisted
PROPERTIES
  NothingIsLost
SYMMETRY MCSymmetry
CHECK_DEADLOCK FALSE
