SPECIFICATION LiveSpec
CONSTANTS
  mexcPerp = mexcPerp
  otherPerp = otherPerp
  mexc = mexc
  other = other
  Instrument <- MCInstrument
  Venue <- MCVenue
  VenueOf <- MCVenueOf
  Scaled <- MCScaled
  Bucket <- MCOneBucket
  Terms = {t1}
  ActiveTerms = {t1}
  None = None
  MaxClock = 2
  MaxVersions = 3
  MaxLag = 1
  QueueSize = 1
  BatchSize = 2
  Reach = 0
PROPERTIES
  QueueMoves
  StopEnds
CHECK_DEADLOCK FALSE
