SPECIFICATION Spec
CONSTANTS
  Dimension <- MCDimension
  SharedDim <- MCShared
  HardReason <- MCHard
  One = 4
  ClearanceMult = 2
  ChallengeAt = 4
  CheckboxAt = 12
  CaptchaAt = 24
  BlockAt = 32
  AbuseAt = 8
  EmptyUAWeight = 4
  MismatchWeight = 10
  FailBudget = 3
  RedisFailOpen = TRUE
  ChallengeHosting = TRUE
  BaseDifficulty = 15
  MaxDifficulty = 17
  DifficultyPerScore = 1
  Traffic <- MCTraffic
  Counter = {"challenged", "solved"}
  Enforce = TRUE
  LogAllowed = FALSE
  SampleStep = 1
  StatsMaxBytes = 3
  LineSize = 2
  MaxVisits = 2
  MaxAnswers = 3
  MaxLost = 1
  MaxResets = 2
  MaxPages = 2
  MaxWork = 4
INVARIANTS StagesTrue PageComplete ResetTold PassRateBacked
CHECK_DEADLOCK FALSE
