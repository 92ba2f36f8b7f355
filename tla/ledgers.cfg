\* The ledgers beside the simulation, one at a time.
SPECIFICATION LedgersSpec
CONSTANTS
  Candidates = {c1}
  Runners = {r1, r2}
  Quotes <- DailyBars
  MaxHeld = 1
  LastDay = 3
  MaxAborts = 1
  BTC = BTC
  ETH = ETH
  Symbols = {BTC, ETH}
  Btc = BTC
  Setups <- OneSetup
  Risky = {"PANIC"}
  Asks = {2}
  Results <- Losses
  InitialEquity = 4
  GrossCap = 3
  StrategyCap = 3
  RegimeCap = 3
  MaxPositions = 2
  MinEntry = 1
  MaxHold = 2
  MaxEvents = 2
  LastBar <- BarsOfEach
  MaxCuts = 1
  Horizon = 2
  MaxHolding = 2
  FinalBar = 4
  MaxBreaks = 2
  BarLength = 2
  Refresh = 2
  Overlap = 1
  MaxNow = 8
  Window = 2
  MinBars = 1
  Decisions = {"LONG", "NO_TRADE"}
  Touches = {"quiet", "stop"}
  MaxLosses = 1
  Signals = {"WATCH", "ENTRY_CONFIRM"}
  Triggers = {"ENTRY_CONFIRM"}
  Fresh = 1
  Marks <- TwoMarks
  Lag = 1
  LastTick = 4
  MaxChanges = 2
  Sessions = {x1, x2}
  MaxTrades = 2
  MaxLost = 1
  Requests = {0, 1000}
  Accounts <- OneAccount
  Leverage = 20
  Target = 19
  Rate = 10
  Programs = {p1, p2}
  Databases <- TwoDatabases
  Work = 1
  Lease = 2
  Ceiling = 3
  MaxWrites = 1
  MaxDeaths = 1
  MaxAttempts = 2
  LastMoment = 2
  MaxRecorded = 1
  MaxBaselineLosses = 1
  Coins = {k1, k2}
  Limit = 1
  RefreshAfter = 1
  LastHour = 1
  MaxMishaps = 1
  HeartbeatMax = 0
  CompletedMax = 0
  RunningMax = 1
  CycleCeiling = 2
  DirectionMax = 1
  ExportMax = 0
  Old = 3
  MaxPredictions = 1
INVARIANTS
  CashIsItsTrades
  BarsBookedAlike
  CapitalConserved
  EvaluationsAreForward
  OnlyLastRowIsPartial
  SamplesDoNotOverlap
  SamplesAreGenuine
  OneRequestPerTrade
  EntriesFailClosed
  ReadyIsOneCut
  PausedHaveAGuardian
  WatchedAreActive
PROPERTIES
  EvidenceSurvivesCleanup
  HealthyIsTrue
CHECK_DEADLOCK FALSE
