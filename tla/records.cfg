SPECIFICATION RecordsSpec
CONSTANTS
  Caller = {"collector", "web"}
  EarlyReader = {"web"}
  Lane = {"funding", "foreground"}
  Limit <- MCLimit
  Total = 2
  Window = 2
  NoReading = NoReading
  Pause <- MCPause
  MaxClock = 2
  MaxTickets = 3
  Asset = {a}
  firstId = firstId
  secondId = secondId
  Identity <- MCIdentities
  Absent = Absent
  HistoryKept = 2
  MaxEnded = 1
  MaxOffers = 3
  MaxVersions = 2
  MaxTroubles = 1
  xAsset = xAsset
  yAsset = yAsset
  ScoredAsset <- MCAssets
  Bundle <- MCBundles
  MapVersion = 1
  Horizon = 1
  Gap = Gap
  MaxNow = 1
  MaxRuns = 1
  MaxEdition = 2
  Assets = 3
  Scores = 3
  K = 2
  Buffer = 0
  MinHold = 2
  GroupsOf <- MCGroups
  SwitchCost = 1
  WarmUpCost = 0
  NoSlots = NoSlots
  MaxDecision = 3
  Refs = 2
  ProviderOf <- MCProviders
  Worker = {w1}
  Closes <- MCCloses
  History = 2
  Retention = 3
  Short = 1
  DayLength = 2
  PageLimit = 2
  Retry = 1
  Fresh = 2
  None = None
  Down = Down
  MaxMinute = 3
  FirstMinute = 2
  MaxMishaps = 1
  Writers = {j1, j2}
  Uuids = {1, 2, 3}
  MaxGap = 1
  ClockError = 1
  MaxTime = 3
  MaxSteps = 2
  NotYet = NotYet
  RowKinds <- MCRows
  DecisionStart = 1
  TrainEnd = 5
  ValidationEnd = 6
  StudyEnd = 10
  Holding = 1
  InitialCapital = 9
  TradeNotional = 4
  FeeDivisor = 2
  FundingPeriod = 3
  FundingRows = {3, 6}
  MaxObservations = 7
  Never = Never
  Runs = {f1, f2}
  QualifiedInput = {0}
  MaxEdits = 1
  MaxCopies = 4
  Unset = Unset
  mexc = mexc
  other = other
  Instrument <- MCMembers
  Native = {mexc}
  Message <- MCMessages
  Levels = 2
  Factor = {1, 2}
  Notional = {2, 5}
  Scale = 12
  Nowhere = Nowhere
  MaxAge = 1
  Life = 2
  BatchSize = 2
  TradesKept = 2
  Burst <- MCBursts
  MaxMessages = 2
  MaxSelections = 2
  MaxRevisions = 1
  LastMoment = 1
  ScopeLength = 2
  VersionIds = {1, 2}
  Catalogs <- MCCatalogs
  Hashes = {"a", "b"}
  MaxGaps = 5
  MaxLedgers = 3
  MaxCatalogs = 1
  NoLedger = NoLedger
  WindowCount = 2
  ReturnMinutes = 1
  Values = {1, 2}
  NoValue = NoValue
  BadRecord = BadRecord
  AuditRuns = {1, 2}
  Targets = {t1, t2}
  NoRun = NoRun
  MaxStart = 2
  MaxArea = 2
INVARIANTS
  RollingWindow
  AttentionHolds
  
  
  AuditsHold
PROPERTIES
  CooldownHolds
  DelayHolds
  SlotsAreHeld
  DecisionsAreCausal
  AuditsStay
SYMMETRY MCSymmetry
CHECK_DEADLOCK FALSE
