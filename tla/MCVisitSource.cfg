SPECIFICATION Spec
CONSTANTS
  t1 = t1
  t2 = t2
  search = search
  app = app
  none = none
  own = own
  Tab = {t1}
  Source = {search, app, none}
  Direct = none
  Foreign = {app}
  Own = own
  Dimension <- MCDimension
  SharedDim <- MCShared
  HardReason <- MCHard
  Conditions <- MCAnything
  One = 4
  ClearanceMult = 2
  ChallengeAt = 4
  CheckboxAt = 12
  CaptchaAt = 24
  BlockAt = 32
  AbuseAt = 8
  EmptyUAWeight = 4
  MismatchWeight = 10
  FailBudget = 2
  RedisFailOpen = TRUE
  ChallengeHosting = TRUE
  BaseDifficulty = 15
  MaxDifficulty = 17
  DifficultyPerScore = 1
  RefererMode = "both"
  MayErr = TRUE
  TokenTTL = 2
  ClearanceTTL = 3
  FailTTL = 2
  MaxClock = 5
INVARIANT SourceSurvives
