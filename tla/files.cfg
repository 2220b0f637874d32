SPECIFICATION FilesSpec
CONSTANTS
  Bucket <- MCTwoBuckets
  DayEnd = 2
  Retention = 3
  LiveReach = 1
  BatchSize = 1
  KeptFiles = 1
  NoRow = NoRow
  MaxClock = 5
  MaxGeneration = 2
  hl = hl
  bb = bb
  mx = mx
  Members <- MCMembers
  Mexc = mx
  Marks = {1, 3}
  NoValueYet = NoValueYet
  MaxAge = 1
  MaxSkew = 0
  FundingAge = 2
  Period = 2
  MaxMarketClock = 2
  Primary = {primary}
  NoSelection = NoSelection
  NoFile = NoFile
  MaxPublications = 2
  Attempts = 2
  MaxSelects = 1
  MaxFailures = 1
  MaxCrashes = 1
  Children = {c1, c2}
  NoChild = NoChild
  Absent = Absent
  MaxCutoff = 2
  MaxStarts = 3
  MaxOutside = 2
  MaxFaults = 1
  FinalMinute = 4
  Widths = {1, 4}
  Width = 2
  Candles <- MCCandles
  NoVolume = NoVolume
  NoCandle = NoCandle
  MinDays = 1
  LowTurnover = 2
  DayValues = {0, 4}
  NoDay = NoDay
  Days = 2
  Readers = {g1, g2}
  ChartPages = {"older"}
  MaxInflight = 2
  MaxRequests = 2
  RequestInterval = 1
  CacheTime = 1
  CacheEntries = 1
  MaxVersion = 2
  MaxTick = 1
  NoLoad = NoLoad
  ChangeTargets = {x1, x2}
  MaxChangeAge = 1
  NoPrice = NoPrice
  References = {0, 1}
  TargetVersions = {1, 2}
  RequestSlots = {1}
  ClientDay = 2
  MaxNow = 2
  MaxClientGeneration = 1
  Nothing = Nothing
  Callers = {q1, q2}
  BaselineCloses = {1, 2}
  DayLength = 2
  MinuteLength = 2
  MissingTime = 1
  MaxCandleAge = 2
  LastTick = 2
  WorkspacePages = {w1, w2}
  FavoriteKeys = {"asset"}
  Terms = {1}
  ViewIds = {"v1"}
  ViewBodies = {1}
  MaxFavorites = 2
  MaxPins = 1
  MaxViews = 1
  MaxClicks = 3
  Unset = Unset
  NoCopy = NoCopy
  NoCall = NoCall
  Panels = {n1, n2}
  NoteReasons = {"a", "b"}
  NoteLife = 1
  LastNoteTime = 1
  MaxTexts = 2
  Blank = Blank
  NoToken = NoToken
  NoSave = NoSave
INVARIANTS
  ArchiveHolds
  BundlesHold
  
  WebHolds
PROPERTIES
  LateRowsSurvive
  CutoffNeverFalls
  
SYMMETRY MCSymmetry
CHECK_DEADLOCK FALSE
