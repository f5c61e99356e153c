SPECIFICATION FairSpec
CONSTANTS
  a1 = a1
  a2 = a2
  c1 = c1
  c2 = c2
  fast = fast
  p1 = p1
  s1 = s1
  s2 = s2
  s3 = s3
  slow = slow
  Instance = {slow}
  Offset <- NoOffset
  MaxSkew = 0
  NoNonce = NoNonce
  PowToken = {p1}
  BoxToken = {}
  CaptchaToken = {c1}
  Submission = {s1, s2}
  IP = {a1, a2}
  HasRedis = TRUE
  FailOpen = FALSE
  RejectWebdriver = FALSE
  TokenTTL = 1
  Margin = 2
  ReqTimeout = 1
  FailTTL = 2
  Posted = {"malformed", "good"}
  MaxClock = 2
INVARIANT FailCountBacked
PROPERTY Answered
PROPERTY ImplementsRedemption
CHECK_DEADLOCK FALSE
