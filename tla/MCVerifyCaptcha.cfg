SPECIFICATION Spec
CONSTANTS
  a1 = a1
  c1 = c1
  fast = fast
  s1 = s1
  s2 = s2
  s3 = s3
  slow = slow
  Instance = {slow}
  Offset <- NoOffset
  MaxSkew = 0
  NoNonce = NoNonce
  PowToken = {}
  BoxToken = {}
  CaptchaToken = {c1}
  Submission = {s1, s2}
  IP = {a1}
  HasRedis = TRUE
  FailOpen = TRUE
  RejectWebdriver = TRUE
  TokenTTL = 1
  Margin = 2
  ReqTimeout = 1
  FailTTL = 2
  Posted = {"malformed", "unsigned", "wrong", "webdriver", "suspicious", "good"}
  MaxClock = 3
SYMMETRY Symmetry
INVARIANT SolvedOnce
\* The clock stops at MaxClock and every request ends.
CHECK_DEADLOCK FALSE
