SPECIFICATION Spec
CONSTANTS
  a1 = a1
  b1 = b1
  c1 = c1
  c2 = c2
  fast = fast
  p1 = p1
  s1 = s1
  s2 = s2
  s3 = s3
  slow = slow
  Instance = {slow, fast}
  Offset <- MCOffset
  MaxSkew = 1
  NoNonce = NoNonce
  PowToken = {p1}
  BoxToken = {b1}
  CaptchaToken = {}
  Submission = {s1, s2}
  IP = {a1}
  HasRedis = TRUE
  FailOpen = TRUE
  RejectWebdriver = TRUE
  TokenTTL = 1
  Margin = 3
  ReqTimeout = 1
  FailTTL = 2
  Posted = {"wrong", "suspicious", "good"}
  MaxClock = 2
SYMMETRY Symmetry
INVARIANT TypeOK
INVARIANT AtMostOnce
INVARIANT IndInv
INVARIANT WrongProofKeepsToken
INVARIANT SuspiciousIsFinal
INVARIANT ReplayOnlyAfterUse
\* The clock stops at MaxClock and every request ends.
CHECK_DEADLOCK FALSE
