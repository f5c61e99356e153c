SPECIFICATION Spec
CONSTANTS
  Dimension <- MCDimension
  SharedDim <- MCShared
  HardReason <- MCHard
  Request <- MCAll
  Claim <- MCClaims
  BotASN <- MCBotASN
  KnownMark <- MCKnownMark
  Social = {"Slackbot"}
  AI = {"GPTBot"}
  Bad = {"ahrefsbot"}
  ToolMark = {"curl/"}
  TechMark = {"yabrowser"}
  BlockAI = FALSE
  One = 4
  ClearanceMult = 2
  ChallengeAt = 4
  CheckboxAt = 12
  CaptchaAt = 24
  BlockAt = 32
  AbuseAt = 8
  EmptyUAWeight = 4
  MismatchWeight = 10
  FailBudget = 3
  RedisFailOpen = TRUE
  ChallengeHosting = TRUE
  BaseDifficulty = 15
  MaxDifficulty = 17
  DifficultyPerScore = 1
INVARIANT SharedAloneNeverHarms
INVARIANT ClearanceHolds
INVARIANT PersonalMonotone
INVARIANT SharedScoreNeverEscalates
INVARIANT RuleDecides
INVARIANT RulesAreLocal
INVARIANT CrawlersPass
\* A behaviour is one decision.
CHECK_DEADLOCK FALSE
