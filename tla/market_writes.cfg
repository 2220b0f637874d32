SPECIFICATION Spec
CONSTANTS
  perp = perp
  mexc = mexc
  t1 = t1
  t2 = t2
  Instrument = {perp}
  Venue = {mexc}
  VenueOf <- MCVenueOf
  Mexc = mexc
  Terms = {t1, t2}
  ActiveTerms = {t1, t2}
  Multiplier <- MCMultiplier
  None = None
  MaxClock = 1
  MaxVersions = 2
  MaxLag = 1
  Life = 1
  MaxAnswers = 2
INVARIANTS
  WritesHold
CHECK_DEADLOCK FALSE
