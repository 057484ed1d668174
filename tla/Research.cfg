\* The four parts of the research.
SPECIFICATION ResearchSpec
CONSTANTS
  Markets <- MCMarkets
  Refs <- MCRefs
  Granularity = 2
  Window = 4
  Day = 4
  TickCap = 2
  MaxEmpty = 3
  MaxRequests = 5
  Target = 8
  Needed = 2
  From = 10
  BackTo = 4
  Clocks <- MCClocks
  SeriesSet <- MCSeries
  SignalSet <- MCSignals
  GapBars = 2
  RequiredN = 2
  RequiredWindows = 2
  RequiredPercent = 38
  WindowBars = 1
  AtrSeries <- MCAtrSeries
  Closes = {1, 3, 5}
  Reaches = {0, 1}
  AtrPeriod = 1
  Lookback = 2
  Threshold = 60
  StopAtr = 1
  TrailAtr = 2
  ActivateR = 100
  ExpiryBars = 2
  SplitPercent = 75
  Insufficient = 1
  Evaluable = 2
  ReqExpectancy = 15
  ReqFactor = 125
  ReqStability = 75
  Spread = 1
  Listings <- MCListings
  Limits = {0, 2}
  MaxFailures = 3
  AuthRetries = 2
  OffsetTables <- MCOffsetTables
  Independences = {5, 20}
  Ceiling = 30
  IdentifyBest = 90
  IdentifyRunnerUp = 60
INVARIANTS
  ResearchTypeOK
  NoHole
  ExhaustedIsTrue
  FirstTouch
  LaterRuleExtends
  NotTwoAtOnce
  EpisodesAccounted
  TradesApart
  EveryCandidateOnce
CHECK_DEADLOCK FALSE
