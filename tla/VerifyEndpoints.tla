--------------------------- MODULE VerifyEndpoints ---------------------------
(***************************************************************************)
(* The three POST endpoints that take the answers of the challenge pages:  *)
(* VerifyHTTP (proof of work), CheckboxHTTP and CaptchaHTTP.  Several      *)
(* processes (instances) serve them and share one Redis; a handler is a    *)
(* sequence of steps, cut at its calls to Redis, so the steps of requests  *)
(* that carry the same token interleave.                                   *)
(*                                                                         *)
(* The tokens of the three pages are signed with one key and name no kind: *)
(* each endpoint takes every signed token it can decode into its own       *)
(* fields, whichever page it comes from.                                   *)
(*                                                                         *)
(* Time is one global clock, that of Redis.  An instance reads it with an  *)
(* offset of its own.  A request owns a context that ends ReqTimeout after *)
(* the handler was entered; from then on Redis calls return an error.      *)
(***************************************************************************)
EXTENDS Integers, FiniteSets

CONSTANTS
  Instance,         \* the processes running the guard
  Offset,           \* Offset[i]: what the clock of i is ahead by
  MaxSkew,          \* bound on Offset
  PowToken,         \* tokens of the proof-of-work pages
  BoxToken,         \* tokens of the checkbox pages
  CaptchaToken,     \* tokens of the captcha pages
  NoNonce,          \* the empty string, for the nonce of a captcha token
  Submission,       \* the POST requests
  IP,               \* client addresses
  HasRedis,         \* store.rdb # nil
  FailOpen,         \* Config.FailOpen
  RejectWebdriver,  \* ChallengeConfig.RejectWebdriver
  TokenTTL,         \* ChallengeConfig.TokenTTL
  Margin,           \* the minute markTokenUsed adds to TokenTTL
  ReqTimeout,       \* the two seconds of context.WithTimeout
  FailTTL,          \* the 15 minutes of noteChallengeFail
  Posted,           \* BOUND: the answers that are tried, a subset of Answers
  MaxClock          \* BOUND: the clock stops here

Token == PowToken \cup BoxToken \cup CaptchaToken

\* Tokens with a nonce.  Where CheckboxHTTP decodes a captcha token, the nonce
\* is empty, and all captcha tokens share it.
SingleUse == PowToken \cup BoxToken

Nonce(t) == IF t \in SingleUse THEN t ELSE NoNonce

Nonces == SingleUse \cup {NoNonce}

ASSUME KindsAssumption ==
  /\ PowToken \cap BoxToken = {}
  /\ CaptchaToken \cap SingleUse = {}
  /\ NoNonce \notin Token

ASSUME TimesAssumption ==
  /\ {TokenTTL, Margin, ReqTimeout, FailTTL} \subseteq Nat \ {0}
  /\ MaxSkew \in Nat
  /\ MaxClock \in Nat
  /\ Offset \in [Instance -> 0 .. MaxSkew]

\* The used-marker outlives every instance's view of the token: the margin
\* absorbs the skew between two instances and the time a handler may spend
\* between checking the expiry and reaching Redis.
ASSUME MarginAssumption == MaxSkew + ReqTimeout < Margin

ASSUME FlagsAssumption == {HasRedis, FailOpen, RejectWebdriver} \subseteq BOOLEAN

VARIABLES
  clock,  \* the time
  ts,     \* ts[t]: the timestamp in token t, NotIssued before it has one
  used,   \* used[n]: when Redis drops the key used:<n>, 0 = never set
  cf,     \* cf[a]: the failure counter cf:<a> and when Redis drops it
  sub     \* sub[s]: the request s

vars == <<clock, ts, used, cf, sub>>

NotIssued == -1
Never == -1

\* The paths VerifyHTTP, CheckboxHTTP and CaptchaHTTP are registered for.
Routes == {"verify", "checkbox", "captcha"}

\* The tokens each can decode.  The field "d" is the number Diff of a proof of
\* work and the string Dest of a captcha, so these two do not decode as one
\* another; a field that is not there is zero or empty.
Decodes == [verify   |-> SingleUse,
            checkbox |-> Token,
            captcha  |-> BoxToken \cup CaptchaToken]

Answers == {"malformed",   \* the body is no JSON document
            "unsigned",    \* the token's signature does not verify
            "wrong",       \* the proof is wrong, or the text is not the Code
            "webdriver",   \* right, but the page reports navigator.webdriver
            "suspicious",  \* checkbox: checkboxEnv.suspicious() names a reason
            "good"}

Outcomes == {"none", "badRequest", "badToken", "expired", "failed", "replay",
             "cleared"}

Unsent == [pc |-> "idle"]

SubRecord ==
  [pc       : {"decode", "mark", "fail", "clear", "done"},
   inst     : Instance,        \* the process serving it
   route    : Routes,          \* the endpoint it is sent to
   tok      : Token,           \* the token it carries
   ip       : IP,              \* where it comes from
   ans      : Answers,         \* what it carries besides
   deadline : Nat,             \* when its context ends
   marked   : {"no", "redis", "error"},  \* what let it pass markTokenUsed
   noted    : Nat \cup {Never},\* when it was counted as a failure
   out      : Outcomes]        \* the answer

TypeOK ==
  /\ clock \in Nat
  /\ ts \in [Token -> Nat \cup {NotIssued}]
  /\ used \in [Nonces -> Nat]
  /\ cf \in [IP -> [n : Nat, exp : Nat]]
  /\ sub \in [Submission -> {Unsent} \cup SubRecord]

Init ==
  /\ clock = 0
  /\ ts = [t \in Token |-> NotIssued]
  /\ used = [n \in Nonces |-> 0]
  /\ cf = [a \in IP |-> [n |-> 0, exp |-> 0]]
  /\ sub = [s \in Submission |-> Unsent]

------------------------------------------------------------------------------
\* Config.now() on instance i.
Now(i) == clock + Offset[i]

Expired(s) == Now(sub[s].inst) - ts[sub[s].tok] > TokenTTL

\* parseToken, parseCheckboxToken or parseCaptchaToken accepts the token of s.
Parsed(s) == sub[s].ans # "unsigned" /\ sub[s].tok \in Decodes[sub[s].route]

\* Redis still has the marker of nonce n.
IsUsed(n) == clock < used[n]

\* A Redis call of s can take effect: there is a Redis and the context of s
\* has not ended.  Whether the caller learns of it is another matter.
RedisReachable(s) == HasRedis /\ clock =< sub[s].deadline

\* MUTANT of SetNX: the marker lives TokenTTL, without the extra minute.
SetNXWithoutMargin(n) == used' = IF IsUsed(n) THEN used
                         ELSE [used EXCEPT ![n] = clock + TokenTTL]

SetNX(n) == used' = IF IsUsed(n) THEN used
            ELSE [used EXCEPT ![n] = clock + TokenTTL + Margin]

\* MUTANT of CountFail: the INCR without the EXPIRE.
CountFailForever(a) ==
  cf' = [cf EXCEPT ![a] = [n   |-> IF clock < cf[a].exp THEN cf[a].n + 1 ELSE 1,
                           exp |-> MaxClock + FailTTL + 1]]

\* INCR and EXPIRE in one transaction.
CountFail(a) ==
  cf' = [cf EXCEPT ![a] = [n   |-> IF clock < cf[a].exp THEN cf[a].n + 1 ELSE 1,
                           exp |-> clock + FailTTL]]

DelFails(a) == cf' = [cf EXCEPT ![a] = [n |-> 0, exp |-> 0]]

Goto(s, pc) == sub' = [sub EXCEPT ![s].pc = pc]

Answer(s, out) == sub' = [sub EXCEPT ![s].pc = "done", ![s].out = out]

\* renderCaptcha hands out a token nobody has seen (BOUND: while there is one).
RenderCaptcha(i) ==
  LET fresh == {t \in CaptchaToken : ts[t] = NotIssued}
  IN  \/ \E t \in fresh : ts' = [ts EXCEPT ![t] = Now(i)]
      \/ fresh = {} /\ ts' = ts

------------------------------------------------------------------------------
Tick == /\ clock < MaxClock
        /\ clock' = clock + 1
        /\ UNCHANGED <<ts, used, cf, sub>>

\* A challenge page is served (renderChallenge, renderCheckbox, renderCaptcha
\* called by the middleware).
IssueToken(i, t) ==
  /\ ts[t] = NotIssued
  /\ ts' = [ts EXCEPT ![t] = Now(i)]
  /\ UNCHANGED <<clock, used, cf, sub>>

\* MUTANT of Arrive: the deadline lies before the request.
ArrivePastDeadline(s, i, r, t, a, ans) ==
  /\ sub[s] = Unsent
  /\ ts[t] # NotIssued
  /\ sub' = [sub EXCEPT ![s] =
       [pc |-> "decode", inst |-> i, route |-> r, tok |-> t, ip |-> a, ans |-> ans,
        deadline |-> clock - ReqTimeout, marked |-> "no", noted |-> Never,
        out |-> "none"]]
  /\ UNCHANGED <<clock, ts, used, cf>>

\* The page posts its answer: the handler is entered and its context starts,
\* before the body has been read.  Pages may post the same token repeatedly
\* (a double click, a retried request, the back button).
Arrive(s, i, r, t, a, ans) ==
  /\ sub[s] = Unsent
  /\ ts[t] # NotIssued
  /\ sub' = [sub EXCEPT ![s] =
       [pc |-> "decode", inst |-> i, route |-> r, tok |-> t, ip |-> a, ans |-> ans,
        deadline |-> clock + ReqTimeout, marked |-> "no", noted |-> Never,
        out |-> "none"]]
  /\ UNCHANGED <<clock, ts, used, cf>>

\* MUTANT of VerifyHTTP: the token is marked before the proof is looked at.
VerifyHTTPMarksFirst(s) ==
  /\ sub[s].pc = "decode"
  /\ sub[s].route = "verify"
  /\ \/ sub[s].ans = "malformed" /\ Answer(s, "badRequest")
     \/ sub[s].ans # "malformed" /\ ~Parsed(s) /\ Goto(s, "fail")
     \/ /\ sub[s].ans # "malformed" /\ Parsed(s)
        /\ IF Expired(s) THEN Answer(s, "expired") ELSE Goto(s, "mark")
  /\ UNCHANGED <<clock, ts, used, cf>>

\* MUTANT of VerifyHTTP: the expiry is not checked.
VerifyHTTPNoExpiry(s) ==
  /\ sub[s].pc = "decode"
  /\ sub[s].route = "verify"
  /\ \/ sub[s].ans = "malformed" /\ Answer(s, "badRequest")
     \/ sub[s].ans = "wrong" /\ Goto(s, "fail")
     \/ sub[s].ans # "malformed" /\ ~Parsed(s) /\ Goto(s, "fail")
     \/ sub[s].ans \in {"webdriver", "good"} /\ Parsed(s) /\ Goto(s, "mark")
  /\ UNCHANGED <<clock, ts, used, cf>>

\* VerifyHTTP up to its first call to Redis, in the order of its checks.  The
\* Diff of a checkbox token is 0, and every proof meets it.
VerifyHTTP(s) ==
  /\ sub[s].pc = "decode"
  /\ sub[s].route = "verify"
  /\ LET ans == sub[s].ans
         checked == ans # "malformed" /\ Parsed(s)
         rejected == \/ ans = "wrong" /\ sub[s].tok \in PowToken
                     \/ ans = "webdriver" /\ RejectWebdriver
     IN  \/ ans = "malformed" /\ Answer(s, "badRequest")
         \/ ans # "malformed" /\ ~Parsed(s) /\ Goto(s, "fail")
         \/ checked /\ Expired(s) /\ Answer(s, "expired")
         \/ checked /\ ~Expired(s) /\ rejected /\ Goto(s, "fail")
         \/ checked /\ ~Expired(s) /\ ~rejected /\ Goto(s, "mark")
  /\ UNCHANGED <<clock, ts, used, cf>>

\* MUTANT of CheckboxHTTP: a suspicious page is refused before the token is
\* marked.
CheckboxHTTPJudgesFirst(s) ==
  /\ sub[s].pc = "decode"
  /\ sub[s].route = "checkbox"
  /\ \/ sub[s].ans = "malformed" /\ Answer(s, "badRequest")
     \/ sub[s].ans \in {"unsigned", "suspicious"} /\ Goto(s, "fail")
     \/ sub[s].ans = "good" /\ Goto(s, "mark")
  /\ UNCHANGED <<clock, ts, used, cf>>

\* CheckboxHTTP up to its first call to Redis.  What the page reports about
\* its environment is looked at after the token is marked.
CheckboxHTTP(s) ==
  /\ sub[s].pc = "decode"
  /\ sub[s].route = "checkbox"
  /\ LET ans == sub[s].ans
         checked == ans # "malformed" /\ Parsed(s)
     IN  \/ ans = "malformed" /\ Answer(s, "badRequest")
         \/ ans # "malformed" /\ ~Parsed(s) /\ Goto(s, "fail")
         \/ checked /\ Expired(s) /\ Answer(s, "expired")
         \/ checked /\ ~Expired(s) /\ Goto(s, "mark")
  /\ UNCHANGED <<clock, ts, used, cf>>

\* CaptchaHTTP up to its first call to Redis.  It marks nothing, and answers
\* an expired page with a new captcha.  A good answer is the Code of the token;
\* a checkbox token has none, so for it the good answer is the empty text.
CaptchaHTTP(s) ==
  /\ sub[s].pc = "decode"
  /\ sub[s].route = "captcha"
  /\ \/ ~Parsed(s) /\ Goto(s, "fail") /\ ts' = ts
     \/ /\ Parsed(s) /\ Expired(s)
        /\ Answer(s, "expired")
        /\ RenderCaptcha(sub[s].inst)
     \/ /\ Parsed(s) /\ ~Expired(s)
        /\ Goto(s, IF sub[s].ans = "good" THEN "clear" ELSE "fail")
        /\ ts' = ts
  /\ UNCHANGED <<clock, used, cf>>

\* What the handler does once markTokenUsed let it pass: VerifyHTTP is done
\* checking, CheckboxHTTP calls suspicious().
PassMark(s, by) ==
  sub' = [sub EXCEPT
            ![s].marked = by,
            ![s].pc = IF sub[s].route = "checkbox" /\ sub[s].ans = "suspicious"
                      THEN "fail" ELSE "clear"]

\* MUTANT of MarkAnswered: SET instead of SETNX.
MarkAnsweredAlways(s) ==
  /\ sub[s].pc = "mark"
  /\ RedisReachable(s)
  /\ SetNX(Nonce(sub[s].tok))
  /\ PassMark(s, "redis")
  /\ UNCHANGED <<clock, ts, cf>>

\* markTokenUsed: Redis answers SETNX in time.
MarkAnswered(s) ==
  /\ sub[s].pc = "mark"
  /\ RedisReachable(s)
  /\ SetNX(Nonce(sub[s].tok))
  /\ IF IsUsed(Nonce(sub[s].tok)) THEN Answer(s, "replay") ELSE PassMark(s, "redis")
  /\ UNCHANGED <<clock, ts, cf>>

\* MUTANT of MarkFailed: an error counts as a replay.
MarkFailedRefuses(s) ==
  /\ sub[s].pc = "mark"
  /\ \/ RedisReachable(s) /\ SetNX(Nonce(sub[s].tok))
     \/ used' = used
  /\ Answer(s, "replay")
  /\ UNCHANGED <<clock, ts, cf>>

\* MUTANT of MarkFailed: the call has no deadline and waits for Redis.
MarkFailedWaits(s) ==
  /\ sub[s].pc = "mark"
  /\ RedisReachable(s)
  /\ SetNX(Nonce(sub[s].tok))
  /\ IF FailOpen THEN PassMark(s, "error") ELSE Answer(s, "replay")
  /\ UNCHANGED <<clock, ts, cf>>

\* markTokenUsed: no Redis, or an error; the SETNX may have reached Redis all
\* the same.
MarkFailed(s) ==
  /\ sub[s].pc = "mark"
  /\ \/ RedisReachable(s) /\ SetNX(Nonce(sub[s].tok))
     \/ used' = used
  /\ IF FailOpen THEN PassMark(s, "error") ELSE Answer(s, "replay")
  /\ UNCHANGED <<clock, ts, cf>>

\* noteChallengeFail, whose errors are ignored, and the refusal.
NoteFail(s) ==
  /\ sub[s].pc = "fail"
  /\ \/ RedisReachable(s) /\ CountFail(sub[s].ip)
     \/ cf' = cf
  /\ sub' = [sub EXCEPT
               ![s].pc = "done",
               ![s].out = IF Parsed(s) THEN "failed" ELSE "badToken",
               ![s].noted = clock]
  /\ IF sub[s].route = "captcha" THEN RenderCaptcha(sub[s].inst) ELSE ts' = ts
  /\ UNCHANGED <<clock, used>>

\* The failure counter is deleted (errors ignored) and the clearance issued.
IssueClearance(s) ==
  /\ sub[s].pc = "clear"
  /\ \/ RedisReachable(s) /\ DelFails(sub[s].ip)
     \/ cf' = cf
  /\ Answer(s, "cleared")
  /\ UNCHANGED <<clock, ts, used>>

\* What the endpoints tell apart in a request.
AnswersAt(r) ==
  Posted \cap CASE r = "verify"   -> Answers \ {"suspicious"}
                [] r = "checkbox" -> Answers \ {"wrong", "webdriver"}
                [] OTHER          -> {"unsigned", "wrong", "good"}

Handler(s) == \/ VerifyHTTP(s)
              \/ CheckboxHTTP(s)
              \/ CaptchaHTTP(s)
              \/ MarkAnswered(s)
              \/ MarkFailed(s)
              \/ NoteFail(s)
              \/ IssueClearance(s)

Next == \/ Tick
        \/ \E i \in Instance, t \in Token : IssueToken(i, t)
        \/ \E s \in Submission, i \in Instance, r \in Routes, t \in Token, a \in IP :
              \E ans \in AnswersAt(r) : Arrive(s, i, r, t, a, ans)
        \/ \E s \in Submission : Handler(s)

Spec == Init /\ [][Next]_vars

\* A handler that was entered runs: net/http serves it in a goroutine, and no
\* Redis call outlives the context.  Nothing makes visitors post.
Fairness == \A s \in Submission : WF_vars(Handler(s))

FairSpec == Spec /\ Fairness

------------------------------------------------------------------------------
(* Properties *)

Sent == {s \in Submission : sub[s] # Unsent}

\* The requests for which Redis confirmed that they were the first.
Confirmed == {s \in Sent : sub[s].marked = "redis"}

\* Single use: of all the requests carrying one token, whatever endpoint and
\* instance serves them and however slowly, Redis confirms at most one.  The
\* marker set by markTokenUsed must outlive the token on every instance's clock.
AtMostOnce ==
  \A s1, s2 \in Confirmed : sub[s1].tok = sub[s2].tok => s1 = s2

\* The strengthening of AtMostOnce that the steps preserve.  The marker of a
\* confirmed request is kept until no instance accepts its token any more
\* (MarkerOutlivesToken), because a request reaches markTokenUsed only soon
\* after its token was still fresh (MarksInTime).
IssuedByNow == \A t \in Token : ts[t] =< clock + MaxSkew

DeadlineSet == \A s \in Sent : /\ ts[sub[s].tok] # NotIssued
                               /\ sub[s].deadline =< clock + ReqTimeout

MarkerOutlivesToken ==
  \A s \in Confirmed :
     used[Nonce(sub[s].tok)] >= ts[sub[s].tok] - MaxSkew + TokenTTL + Margin

MarksInTime ==
  \A s \in Sent : sub[s].pc = "mark" =>
     sub[s].deadline =< ts[sub[s].tok] + TokenTTL + ReqTimeout

IndInv == /\ TypeOK
          /\ IssuedByNow
          /\ DeadlineSet
          /\ MarkerOutlivesToken
          /\ MarksInTime
          /\ AtMostOnce

\* A visitor whose proof was refused may compute another: VerifyHTTP marks a
\* token only for a request that passed every other check.  (CheckboxHTTP marks
\* any token before it checks anything.)
WrongProofKeepsToken ==
  \A t \in PowToken :
     used[t] # 0 => \E s \in Sent :
                       /\ sub[s].tok = t
                       /\ \/ sub[s].route = "checkbox"
                          \/ sub[s].ans = "good"
                          \/ sub[s].ans = "webdriver" /\ ~RejectWebdriver

\* "One token, one check" (CheckboxHTTP): a page that was judged suspicious
\* gives no clearance when its token is posted again to an endpoint that marks
\* tokens, unless Redis failed to answer one of the two requests.  CaptchaHTTP
\* marks none, and decodes a checkbox token.
SuspiciousIsFinal ==
  \A s1, s2 \in Sent :
     /\ sub[s1].tok = sub[s2].tok
     /\ sub[s1].ans = "suspicious" /\ sub[s1].out = "failed"
     /\ sub[s2].route # "captcha" /\ sub[s2].out = "cleared"
     => "error" \in {sub[s1].marked, sub[s2].marked}

\* The requests in S that were given a clearance, Redis errors apart, had
\* tokens of their own.
OncePerToken(S) ==
  \A s1, s2 \in S :
     /\ sub[s1].tok = sub[s2].tok
     /\ sub[s1].out = "cleared" /\ sub[s1].marked # "error"
     /\ sub[s2].out = "cleared" /\ sub[s2].marked # "error"
     => s1 = s2

\* Tokens rely on "single use" (bindValue): one challenge page, solved, gives
\* one clearance, Redis errors apart.  CaptchaHTTP marks nothing, so a captcha
\* form that is sent twice is solved twice.
SolvedOnce == OncePerToken(Sent)

\* A guard that fails open turns a request away as a replay only if another
\* request used the nonce: no visitor is refused because Redis is slow.
ReplayOnlyAfterUse ==
  FailOpen =>
    \A s \in Sent : sub[s].out = "replay" =>
       \E q \in Sent \ {s} : /\ Nonce(sub[q].tok) = Nonce(sub[s].tok)
                             /\ sub[q].marked # "no"

\* The failure counter Evaluate blocks on is backed by failures of that
\* address, and goes away FailTTL after the last of them: the INCR and the
\* EXPIRE of noteChallengeFail happen together or not at all.
FailCountBacked ==
  \A a \in IP : clock < cf[a].exp =>
     LET fails == {s \in Sent : sub[s].ip = a /\ sub[s].noted # Never}
     IN  /\ cf[a].n \in 1 .. Cardinality(fails)
         /\ \E s \in fails : cf[a].exp =< sub[s].noted + FailTTL

\* Every request that was accepted is answered, also when Redis never does.
Answered == \A s \in Submission : s \in Sent ~> sub[s].pc = "done"

\* The endpoints that mark tokens, VerifyHTTP and CheckboxHTTP, keep the promise
\* of Redemption for every token they accept.  What CaptchaHTTP clears is not
\* redeemed, and is left out.
R == INSTANCE Redemption WITH
       Request  <- Submission,
       Lenient  <- FailOpen,
       issued   <- {t \in Token : ts[t] # NotIssued},
       redeemed <- {<<sub[s].tok, s>> : s \in Confirmed},
       cleared  <- {<<sub[s].tok, s>> :
                      s \in {q \in Sent : /\ sub[q].out = "cleared"
                                          /\ sub[q].route # "captcha"}}

ImplementsRedemption == R!Spec
=============================================================================
