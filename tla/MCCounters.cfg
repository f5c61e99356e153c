SPECIFICATION Spec
CONSTANTS
  ip1 = ip1
  ip2 = ip2
  p1 = p1
  p2 = p2
  Signal <- MCSignal
  Counting <- MCCounting
  Dimension <- MCCounting
  SharedDim = {"fp@host", "fp"}
  HardReason = {}
  One = 48
  ClearanceMult = 2
  ChallengeAt = 48
  CheckboxAt = 0
  CaptchaAt = 0
  BlockAt = 67
  AbuseAt = 50
  EmptyUAWeight = 48
  MismatchWeight = 120
  FailBudget = 12
  RedisFailOpen = TRUE
  ChallengeHosting = TRUE
  BaseDifficulty = 15
  MaxDifficulty = 17
  DifficultyPerScore = 1
  Limit <- MCLimit
  Networks <- MCNetworks
  HostingTypes = {"hosting"}
  Factors <- MCFactors
  AggregateOnly = {"business"}
  ConnFactors <- MCConnFactors
  ConnAggregateOnly = {"cellular"}
  DefaultFactor = 4
  FactorOne = 4
  CrawlWeight = 48
  HammerWeight = 39
  RhythmWeight = 72
  Window = 2
  TTL = 4
  MaxGap = 3
  CrawlMinReq = 2
  CrawlAbove = 92
  HammerMinReq = 3
  HammerBelow = 40
  RhythmMinN = 2
  RhythmCV = 18
  MaxSkew = 1
  MaxLag = 0
  MaxRequests = 3
  MaxFailures = 1
  MaxClock = 7
SYMMETRY Symmetry
INVARIANT RatesAreCounts
INVARIANT RhythmIsReal
INVARIANT SteadyClientShows
INVARIANT OwnTrafficOnly
INVARIANT OnePersonStaysOne
\* The clock stops at MaxClock.
CHECK_DEADLOCK FALSE
