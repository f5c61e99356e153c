------------------------ MODULE VerifyEndpoints_proofs ------------------------
(***************************************************************************)
(* Proofs about VerifyEndpoints, for any number of instances, tokens and   *)
(* requests and for any times that satisfy the assumptions: type           *)
(* correctness, the single use of the tokens that carry a nonce, what a    *)
(* request may have gone through to be where it is, the promises that rest *)
(* on it, the failure counter, and that the endpoints implement            *)
(* Redemption.                                                             *)
(***************************************************************************)
EXTENDS VerifyEndpoints, FiniteSetTheorems, TLAPS

\* What the assumptions on the times say, number by number.
LEMMA Times ==
  /\ TokenTTL \in Nat /\ Margin \in Nat /\ ReqTimeout \in Nat /\ FailTTL \in Nat
  /\ MaxSkew \in Nat
  /\ MaxSkew + ReqTimeout < Margin
  /\ \A i \in Instance : Offset[i] \in 0 .. MaxSkew
BY TimesAssumption, MarginAssumption

\* A token has a nonce.
LEMMA NonceOf == \A t \in Token : Nonce(t) \in Nonces
BY DEF Nonce, Nonces, SingleUse

\* A request that was sent is a complete record.
LEMMA SentRecord ==
  ASSUME TypeOK, NEW s \in Submission, sub[s] # Unsent
  PROVE  sub[s] \in SubRecord
BY DEF TypeOK

\* Rendering a captcha stamps at most one token, one that had no stamp.
LEMMA RenderStamps ==
  ASSUME TypeOK, NEW i \in Instance, RenderCaptcha(i)
  PROVE  /\ ts' \in [Token -> Nat \cup {NotIssued}]
         /\ \A t \in Token : \/ ts'[t] = ts[t]
                             \/ ts[t] = NotIssued /\ ts'[t] = Now(i)
<1>1. Now(i) \in Nat
  BY Times DEF TypeOK, Now
<1>2. CASE \E t \in CaptchaToken : ts[t] = NotIssued /\ ts' = [ts EXCEPT ![t] = Now(i)]
  BY <1>1, <1>2 DEF TypeOK, Token
<1>3. CASE ts' = ts
  BY <1>3 DEF TypeOK
<1>4. QED
  BY <1>2, <1>3 DEF RenderCaptcha

\* The variables keep their types.
LEMMA TypeStep == TypeOK /\ [Next]_vars => TypeOK'
<1> SUFFICES ASSUME TypeOK, [Next]_vars PROVE TypeOK'
  OBVIOUS
<1> USE DEF TypeOK
<1>1. CASE Tick
  BY <1>1 DEF Tick
<1>2. ASSUME NEW i \in Instance, NEW t \in Token, IssueToken(i, t) PROVE TypeOK'
  <2>1. Now(i) \in Nat
    BY Times DEF Now
  <2>2. QED
    BY <1>2, <2>1 DEF IssueToken
<1>3. ASSUME NEW s \in Submission, NEW i \in Instance, NEW r \in Routes,
             NEW t \in Token, NEW a \in IP, NEW ans \in AnswersAt(r),
             Arrive(s, i, r, t, a, ans)
      PROVE  TypeOK'
  <2>1. ans \in Answers
    BY DEF AnswersAt, Answers
  <2>2. [pc |-> "decode", inst |-> i, route |-> r, tok |-> t, ip |-> a, ans |-> ans,
         deadline |-> clock + ReqTimeout, marked |-> "no", noted |-> Never,
         out |-> "none"] \in SubRecord
    BY <2>1, Times DEF SubRecord, Outcomes
  <2>3. QED
    BY <1>3, <2>2 DEF Arrive
<1>4. ASSUME NEW s \in Submission, Handler(s) PROVE TypeOK'
  <2>1. CASE VerifyHTTP(s)
    <3>1. sub[s] \in SubRecord
      BY <2>1 DEF VerifyHTTP, Unsent
    <3>2. sub' \in [Submission -> {Unsent} \cup SubRecord]
      BY <2>1, <3>1 DEF VerifyHTTP, Goto, Answer, SubRecord, Outcomes
    <3>3. QED
      BY <2>1, <3>2 DEF VerifyHTTP
  <2>2. CASE CheckboxHTTP(s)
    <3>1. sub[s] \in SubRecord
      BY <2>2 DEF CheckboxHTTP, Unsent
    <3>2. sub' \in [Submission -> {Unsent} \cup SubRecord]
      BY <2>2, <3>1 DEF CheckboxHTTP, Goto, Answer, SubRecord, Outcomes
    <3>3. QED
      BY <2>2, <3>2 DEF CheckboxHTTP
  <2>3. CASE CaptchaHTTP(s)
    <3>1. sub[s] \in SubRecord
      BY <2>3 DEF CaptchaHTTP, Unsent
    <3>2a. Goto(s, "clear") \/ Goto(s, "fail") \/ Answer(s, "expired")
      BY <2>3 DEF CaptchaHTTP
    <3>2. sub' \in [Submission -> {Unsent} \cup SubRecord]
      BY <3>1, <3>2a DEF Goto, Answer, SubRecord, Outcomes
    <3>3. sub[s].inst \in Instance
      BY <3>1 DEF SubRecord
    <3>4. ts' \in [Token -> Nat \cup {NotIssued}]
      BY <2>3, <3>3, RenderStamps DEF CaptchaHTTP
    <3>5. QED
      BY <2>3, <3>2, <3>4 DEF CaptchaHTTP
  <2>4. CASE MarkAnswered(s) \/ MarkFailed(s)
    <3>1. sub[s] \in SubRecord
      BY <2>4 DEF MarkAnswered, MarkFailed, Unsent
    <3>2. sub' \in [Submission -> {Unsent} \cup SubRecord]
      BY <2>4, <3>1 DEF MarkAnswered, MarkFailed, PassMark, Answer, SubRecord, Outcomes
    <3>3. used' \in [Nonces -> Nat]
      <4>1. Nonce(sub[s].tok) \in Nonces
        BY <3>1, NonceOf DEF SubRecord
      <4>2. QED
        BY <2>4, <4>1, Times DEF MarkAnswered, MarkFailed, SetNX
    <3>4. QED
      BY <2>4, <3>2, <3>3 DEF MarkAnswered, MarkFailed
  <2>5. CASE NoteFail(s)
    <3>1. sub[s] \in SubRecord
      BY <2>5 DEF NoteFail, Unsent
    <3>2. sub' \in [Submission -> {Unsent} \cup SubRecord]
      BY <2>5, <3>1 DEF NoteFail, SubRecord, Outcomes
    <3>3. sub[s].inst \in Instance
      BY <3>1 DEF SubRecord
    <3>4. ts' \in [Token -> Nat \cup {NotIssued}]
      BY <2>5, <3>3, RenderStamps DEF NoteFail
    <3>5. cf' \in [IP -> [n : Nat, exp : Nat]]
      BY <2>5, <3>1, Times DEF NoteFail, CountFail, SubRecord
    <3>6. QED
      BY <2>5, <3>2, <3>4, <3>5 DEF NoteFail
  <2>6. CASE IssueClearance(s)
    <3>1. sub[s] \in SubRecord
      BY <2>6 DEF IssueClearance, Unsent
    <3>2. sub' \in [Submission -> {Unsent} \cup SubRecord]
      BY <2>6, <3>1 DEF IssueClearance, Answer, SubRecord, Outcomes
    <3>3. cf' \in [IP -> [n : Nat, exp : Nat]]
      BY <2>6, <3>1 DEF IssueClearance, DelFails, SubRecord
    <3>4. QED
      BY <2>6, <3>2, <3>3 DEF IssueClearance
  <2>7. QED
    BY <1>4, <2>1, <2>2, <2>3, <2>4, <2>5, <2>6 DEF Handler
<1>5. CASE UNCHANGED vars
  BY <1>5 DEF vars
<1>6. QED
  BY <1>1, <1>2, <1>3, <1>4, <1>5 DEF Next

\* The variables of the endpoints always have their types.
THEOREM TypeCorrect == Spec => []TypeOK
<1>1. Init => TypeOK
  BY DEF Init, TypeOK
<1>2. QED
  BY <1>1, TypeStep, PTL DEF Spec

------------------------------------------------------------------------------
\* What a handler step of request s may do, whichever step it is.  It touches
\* no other request and keeps the token and the deadline of s; a request comes
\* to markTokenUsed only with a fresh token, and is confirmed only by a SETNX
\* that found no marker.
LEMMA HandlerStep ==
  ASSUME TypeOK, NEW s \in Submission, Handler(s)
  PROVE  /\ sub[s] \in SubRecord
         /\ sub'[s] # Unsent
         /\ sub'[s].tok = sub[s].tok /\ sub'[s].deadline = sub[s].deadline
         /\ sub'[s].route = sub[s].route
         /\ \A q \in Submission : q # s => sub'[q] = sub[q]
         /\ clock' = clock
         /\ sub'[s].pc = "mark" => sub[s].pc = "decode" /\ ~Expired(s)
         /\ sub'[s].marked = "redis" =>
              \/ sub[s].marked = "redis"
              \/ /\ sub[s].pc = "mark" /\ ~IsUsed(Nonce(sub[s].tok))
                 /\ RedisReachable(s) /\ SetNX(Nonce(sub[s].tok))
         /\ \/ used' = used
            \/ sub[s].pc = "mark" /\ RedisReachable(s) /\ SetNX(Nonce(sub[s].tok))
         /\ \A t \in Token : \/ ts'[t] = ts[t]
                             \/ ts[t] = NotIssued /\ ts'[t] = Now(sub[s].inst)
<1>1. sub[s] \in SubRecord
  <2>1. sub[s].pc # "idle"
    BY DEF Handler, VerifyHTTP, CheckboxHTTP, CaptchaHTTP, MarkAnswered,
           MarkFailed, NoteFail, IssueClearance
  <2>2. QED
    BY <2>1, SentRecord DEF Unsent
<1>2. CASE VerifyHTTP(s) \/ CheckboxHTTP(s)
  <2>1. \/ Answer(s, "badRequest") \/ Answer(s, "expired") \/ Goto(s, "fail")
        \/ Goto(s, "mark") /\ ~Expired(s)
    BY <1>2 DEF VerifyHTTP, CheckboxHTTP
  <2>2. /\ sub[s].pc = "decode"
        /\ UNCHANGED <<clock, ts, used, cf>>
    BY <1>2 DEF VerifyHTTP, CheckboxHTTP
  <2>3. QED
    BY <1>1, <2>1, <2>2 DEF TypeOK, Goto, Answer, SubRecord, Unsent
<1>3. CASE CaptchaHTTP(s)
  <2>1. Goto(s, "clear") \/ Goto(s, "fail") \/ Answer(s, "expired")
    BY <1>3 DEF CaptchaHTTP
  <2>2. UNCHANGED <<clock, used, cf>> /\ (ts' = ts \/ RenderCaptcha(sub[s].inst))
    BY <1>3 DEF CaptchaHTTP
  <2>3. sub[s].inst \in Instance
    BY <1>1 DEF SubRecord
  <2>4. \A t \in Token : \/ ts'[t] = ts[t]
                         \/ ts[t] = NotIssued /\ ts'[t] = Now(sub[s].inst)
    BY <2>2, <2>3, RenderStamps
  <2>5. QED
    BY <1>1, <2>1, <2>2, <2>4 DEF TypeOK, Goto, Answer, SubRecord, Unsent
<1>4. CASE MarkAnswered(s)
  BY <1>1, <1>4 DEF MarkAnswered, PassMark, Answer, TypeOK, SubRecord, Unsent
<1>5. CASE MarkFailed(s)
  <2>1. PassMark(s, "error") \/ Answer(s, "replay")
    BY <1>5 DEF MarkFailed
  <2>2. /\ sub[s].pc = "mark"
        /\ UNCHANGED <<clock, ts, cf>>
        /\ (RedisReachable(s) /\ SetNX(Nonce(sub[s].tok))) \/ used' = used
    BY <1>5 DEF MarkFailed
  <2>3. QED
    BY <1>1, <2>1, <2>2 DEF PassMark, Answer, TypeOK, SubRecord, Unsent
<1>6. CASE NoteFail(s)
  <2>1. sub[s].inst \in Instance
    BY <1>1 DEF SubRecord
  <2>2. \A t \in Token : \/ ts'[t] = ts[t]
                         \/ ts[t] = NotIssued /\ ts'[t] = Now(sub[s].inst)
    BY <1>6, <2>1, RenderStamps DEF NoteFail
  <2>3. QED
    BY <1>1, <1>6, <2>2 DEF NoteFail, TypeOK, SubRecord, Unsent
<1>7. CASE IssueClearance(s)
  BY <1>1, <1>7 DEF IssueClearance, Answer, TypeOK, SubRecord, Unsent
<1>8. QED
  BY <1>2, <1>3, <1>4, <1>5, <1>6, <1>7 DEF Handler

------------------------------------------------------------------------------
\* A SETNX of a request that is still in time, for a token that another request
\* was confirmed with, finds the marker: this is what the margin of a minute is
\* for.
LEMMA MarkerIsSeen ==
  ASSUME IndInv, NEW s \in Submission, sub[s] \in SubRecord,
         sub[s].pc = "mark", RedisReachable(s),
         NEW q \in Confirmed, sub[q].tok = sub[s].tok
  PROVE  IsUsed(Nonce(sub[s].tok))
<1> DEFINE t == sub[s].tok
<1>1. s \in Sent /\ t \in Token
  BY DEF Sent, SubRecord, Unsent
<1>2. clock =< sub[s].deadline /\ sub[s].deadline =< ts[t] + TokenTTL + ReqTimeout
  BY <1>1 DEF IndInv, MarksInTime, RedisReachable
<1>3. used[Nonce(t)] >= ts[t] - MaxSkew + TokenTTL + Margin /\ ts[t] # NotIssued
  BY <1>1 DEF IndInv, MarkerOutlivesToken, DeadlineSet
<1>4. /\ ts[t] \in Nat /\ used[Nonce(t)] \in Nat /\ clock \in Nat
      /\ sub[s].deadline \in Nat
  BY <1>1, <1>3, NonceOf DEF IndInv, TypeOK, SubRecord
<1>5. QED
  BY <1>2, <1>3, <1>4, Times DEF IsUsed

\* The steps that are no handler steps keep the invariant.
LEMMA EnvironmentKeepsInv ==
  ASSUME IndInv, TypeOK',
         \/ Tick
         \/ \E i \in Instance, t \in Token : IssueToken(i, t)
         \/ \E s \in Submission, i \in Instance, r \in Routes, t \in Token, a \in IP :
               \E ans \in AnswersAt(r) : Arrive(s, i, r, t, a, ans)
         \/ UNCHANGED vars
  PROVE  IndInv'
<1> USE DEF IndInv
<1>1. CASE Tick
  <2>1. clock' = clock + 1 /\ UNCHANGED <<ts, used, cf, sub>>
    BY <1>1 DEF Tick
  <2>2. IssuedByNow'
    <3>1. \A t \in Token : ts[t] \in Int /\ ts[t] =< clock + MaxSkew
      BY DEF IssuedByNow, TypeOK, NotIssued
    <3>2. QED
      BY <2>1, <3>1, Times DEF IssuedByNow, TypeOK
  <2>3. DeadlineSet'
    <3>1. \A s \in Sent : sub[s].deadline \in Nat
      BY DEF TypeOK, Sent, SubRecord
    <3>2. QED
      BY <2>1, <3>1, Times DEF DeadlineSet, TypeOK, Sent
  <2>4. MarkerOutlivesToken' /\ MarksInTime'
    BY <2>1 DEF MarkerOutlivesToken, MarksInTime, Confirmed, Sent
  <2>5. AtMostOnce'
    BY <2>1 DEF AtMostOnce, Confirmed, Sent
  <2>6. QED
    BY <2>2, <2>3, <2>4, <2>5
<1>2. ASSUME NEW i \in Instance, NEW t \in Token, IssueToken(i, t)
      PROVE  IndInv'
  <2>1. /\ ts[t] = NotIssued /\ ts' = [ts EXCEPT ![t] = Now(i)]
        /\ UNCHANGED <<clock, used, cf, sub>>
    BY <1>2 DEF IssueToken
  <2>2. Now(i) \in Nat /\ Now(i) =< clock + MaxSkew
    BY Times DEF Now, TypeOK
  <2>3. \A u \in Token : ts[u] # NotIssued => ts'[u] = ts[u] /\ ts'[u] # NotIssued
    BY <2>1 DEF TypeOK
  <2>4. IssuedByNow'
    BY <2>1, <2>2 DEF IssuedByNow, TypeOK
  <2>5. \A s \in Sent : sub[s].tok \in Token /\ ts[sub[s].tok] # NotIssued
    BY DEF TypeOK, Sent, SubRecord, DeadlineSet
  <2>6. MarkerOutlivesToken'
    BY <2>1, <2>3, <2>5 DEF MarkerOutlivesToken, Confirmed, Sent
  <2>7. DeadlineSet' /\ MarksInTime'
    BY <2>1, <2>3, <2>5 DEF DeadlineSet, MarksInTime, Sent
  <2>8. AtMostOnce'
    BY <2>1 DEF AtMostOnce, Confirmed, Sent
  <2>9. QED
    BY <2>4, <2>6, <2>7, <2>8
<1>3. ASSUME NEW s \in Submission, NEW i \in Instance, NEW r \in Routes,
             NEW t \in Token, NEW a \in IP, NEW ans \in AnswersAt(r),
             Arrive(s, i, r, t, a, ans)
      PROVE  IndInv'
  <2>1. /\ sub[s] = Unsent /\ ts[t] # NotIssued
        /\ UNCHANGED <<clock, ts, used, cf>>
        /\ \A q \in Submission : q # s => sub'[q] = sub[q]
        /\ sub'[s].pc = "decode" /\ sub'[s].tok = t /\ sub'[s].marked = "no"
        /\ sub'[s].deadline = clock + ReqTimeout
    BY <1>3 DEF Arrive, TypeOK
  <2>2. s \notin Confirmed'
    BY <2>1 DEF Confirmed
  <2>3. \A q \in Sent' : q # s => q \in Sent /\ sub'[q] = sub[q]
    BY <2>1 DEF Sent
  <2>4. \A q \in Confirmed' : q \in Confirmed /\ sub'[q] = sub[q]
    BY <2>2, <2>3 DEF Confirmed
  <2>5. IssuedByNow' /\ MarkerOutlivesToken'
    BY <2>1, <2>4 DEF IssuedByNow, MarkerOutlivesToken
  <2>6. DeadlineSet'
    BY <2>1, <2>3, Times DEF DeadlineSet, TypeOK
  <2>7. MarksInTime'
    BY <2>1, <2>3 DEF MarksInTime
  <2>8. AtMostOnce'
    BY <2>1, <2>4 DEF AtMostOnce
  <2>9. QED
    BY <2>5, <2>6, <2>7, <2>8
<1>4. CASE UNCHANGED vars
  BY <1>4 DEF vars, TypeOK, IssuedByNow, DeadlineSet, MarkerOutlivesToken,
     MarksInTime, AtMostOnce, Sent, Confirmed
<1>5. QED
  BY <1>1, <1>2, <1>3, <1>4

\* And so does every handler step.
LEMMA HandlerKeepsInv ==
  ASSUME IndInv, TypeOK', NEW s \in Submission, Handler(s)
  PROVE  IndInv'
<1> DEFINE t == sub[s].tok
           n == Nonce(t)
<1>1. /\ sub[s] \in SubRecord
      /\ sub'[s].tok = t /\ sub'[s].deadline = sub[s].deadline
      /\ \A q \in Submission : q # s => sub'[q] = sub[q]
      /\ clock' = clock
      /\ sub'[s].pc = "mark" => sub[s].pc = "decode" /\ ~Expired(s)
      /\ sub'[s].marked = "redis" =>
           \/ sub[s].marked = "redis"
           \/ /\ sub[s].pc = "mark" /\ ~IsUsed(n)
              /\ RedisReachable(s) /\ SetNX(n)
      /\ used' = used \/ (sub[s].pc = "mark" /\ RedisReachable(s) /\ SetNX(n))
      /\ \A u \in Token : \/ ts'[u] = ts[u]
                          \/ ts[u] = NotIssued /\ ts'[u] = Now(sub[s].inst)
  BY HandlerStep DEF IndInv
<1>2. s \in Sent /\ t \in Token /\ n \in Nonces /\ sub[s].inst \in Instance
  BY <1>1, NonceOf DEF Sent, SubRecord, Unsent
<1>3. Sent' = Sent
  BY <1>1, <1>2, HandlerStep DEF Sent, IndInv
<1>4. /\ Now(sub[s].inst) \in Nat
      /\ clock =< Now(sub[s].inst) /\ Now(sub[s].inst) =< clock + MaxSkew
  BY <1>2, Times DEF Now, IndInv, TypeOK
<1>5. \A u \in Token : ts[u] # NotIssued => ts'[u] = ts[u]
  BY <1>1
<1>6. \A q \in Sent : /\ sub[q].tok \in Token /\ sub'[q].tok = sub[q].tok
                      /\ sub'[q].deadline = sub[q].deadline
                      /\ ts[sub[q].tok] # NotIssued
                      /\ ts'[sub[q].tok] = ts[sub[q].tok]
  BY <1>1, <1>5 DEF IndInv, DeadlineSet, TypeOK, Sent, SubRecord
<1>7. IssuedByNow'
  BY <1>1, <1>4 DEF IndInv, IssuedByNow
<1>8. DeadlineSet'
  BY <1>1, <1>3, <1>6 DEF IndInv, DeadlineSet
<1>9. MarksInTime'
  <2>1. SUFFICES ASSUME NEW q \in Sent, sub'[q].pc = "mark"
                 PROVE  sub[q].deadline =< ts[sub[q].tok] + TokenTTL + ReqTimeout
    BY <1>3, <1>6 DEF MarksInTime
  <2>2. CASE q # s
    BY <1>1, <2>1, <2>2 DEF IndInv, MarksInTime, Sent
  <2>3. CASE q = s
    <3>1. Now(sub[s].inst) - ts[t] =< TokenTTL
      <4>1. ~Expired(s)
        BY <1>1, <2>1, <2>3
      <4>2. ts[t] \in Nat
        BY <1>2, <1>6 DEF IndInv, TypeOK
      <4>3. QED
        BY <1>4, <4>1, <4>2, Times DEF Expired
    <3>2. sub[s].deadline =< clock + ReqTimeout
      BY <1>2 DEF IndInv, DeadlineSet
    <3>3. ts[t] \in Nat /\ clock \in Nat /\ sub[s].deadline \in Nat
      BY <1>1, <1>2, <1>6 DEF IndInv, TypeOK, SubRecord
    <3>4. QED
      BY <1>4, <2>3, <3>1, <3>2, <3>3, Times
  <2>4. QED
    BY <2>2, <2>3
\* A marker is set anew only after it expired, and then lives longer.
<1>10. \A u \in Nonces : used[u] \in Nat /\ used'[u] \in Nat /\ used'[u] >= used[u]
  <2>1. \A u \in Nonces : used[u] \in Nat
    BY DEF IndInv, TypeOK
  <2>2. CASE used' = used \/ IsUsed(n)
    BY <1>1, <2>1, <2>2 DEF SetNX
  <2>3. CASE SetNX(n) /\ ~IsUsed(n)
    <3>1. used' = [used EXCEPT ![n] = clock + TokenTTL + Margin]
      BY <2>3 DEF SetNX
    <3>2. clock \in Nat /\ used \in [Nonces -> Nat] /\ clock >= used[n]
      BY <1>2, <2>1, <2>3 DEF IsUsed, IndInv, TypeOK
    <3>3. QED
      BY <1>2, <2>1, <3>1, <3>2, Times
  <2>4. QED
    BY <1>1, <2>2, <2>3
<1>11. \A q \in Sent : /\ sub[q].tok \in Token /\ Nonce(sub[q].tok) \in Nonces
                       /\ ts[sub[q].tok] \in Nat
  BY <1>6, NonceOf DEF IndInv, TypeOK
<1>12. CASE sub'[s].marked = "redis" /\ sub[s].marked # "redis"
  <2>1. sub[s].pc = "mark" /\ RedisReachable(s) /\ ~IsUsed(n) /\ SetNX(n)
    BY <1>1, <1>12
  <2>2. \A q \in Confirmed : sub[q].tok # t
    BY <1>1, <2>1, MarkerIsSeen
  <2>3. \A q \in Confirmed' : q # s => q \in Confirmed
    BY <1>1, <1>3 DEF Confirmed, Sent
  <2>4. used'[n] = clock + TokenTTL + Margin
    BY <1>2, <2>1 DEF SetNX, IndInv, TypeOK
  <2>5. ts[t] \in Nat /\ clock \in Nat /\ ts[t] =< clock + MaxSkew
    BY <1>2, <1>11 DEF IndInv, IssuedByNow, TypeOK
  <2>6. used'[n] >= ts[t] - MaxSkew + TokenTTL + Margin
    BY <2>4, <2>5, Times
  <2>7. ASSUME NEW q \in Confirmed
        PROVE  used'[Nonce(sub[q].tok)] >= ts[sub[q].tok] - MaxSkew + TokenTTL + Margin
    <3>1. used[Nonce(sub[q].tok)] >= ts[sub[q].tok] - MaxSkew + TokenTTL + Margin
      BY <2>7 DEF IndInv, MarkerOutlivesToken
    <3>2. QED
      BY <1>10, <1>11, <3>1, Times DEF Confirmed
  <2>8. MarkerOutlivesToken'
    BY <1>1, <1>2, <1>6, <2>3, <2>6, <2>7 DEF MarkerOutlivesToken, Confirmed
  <2>9. AtMostOnce'
    BY <1>1, <1>6, <2>2, <2>3 DEF IndInv, AtMostOnce, Confirmed
  <2>10. QED
    BY <1>7, <1>8, <1>9, <2>8, <2>9 DEF IndInv
<1>13. CASE ~(sub'[s].marked = "redis" /\ sub[s].marked # "redis")
  <2>1. \A q \in Confirmed' : q \in Confirmed
    BY <1>1, <1>3, <1>13 DEF Confirmed, Sent
  <2>2. ASSUME NEW q \in Confirmed
        PROVE  used'[Nonce(sub[q].tok)] >= ts[sub[q].tok] - MaxSkew + TokenTTL + Margin
    <3>1. used[Nonce(sub[q].tok)] >= ts[sub[q].tok] - MaxSkew + TokenTTL + Margin
      BY <2>2 DEF IndInv, MarkerOutlivesToken
    <3>2. QED
      BY <1>10, <1>11, <3>1, Times DEF Confirmed
  <2>3. MarkerOutlivesToken'
    BY <1>6, <2>1, <2>2 DEF MarkerOutlivesToken, Confirmed
  <2>4. AtMostOnce'
    BY <1>6, <2>1 DEF IndInv, AtMostOnce, Confirmed
  <2>5. QED
    BY <1>7, <1>8, <1>9, <2>3, <2>4 DEF IndInv
<1>14. QED
  BY <1>12, <1>13

\* The strengthened invariant holds in every reachable state.
THEOREM IndInvariant == Spec => []IndInv
<1>1. Init => IndInv
  <2>1. ASSUME Init PROVE TypeOK
    BY <2>1 DEF Init, TypeOK
  <2>2. ASSUME Init PROVE Sent = {}
    BY <2>2 DEF Init, Sent
  <2>3. QED
    BY <2>1, <2>2, Times DEF Init, IndInv, IssuedByNow, DeadlineSet, MarkerOutlivesToken,
       MarksInTime, AtMostOnce, Confirmed, NotIssued
<1>2. IndInv /\ [Next]_vars => IndInv'
  <2>1. SUFFICES ASSUME IndInv, [Next]_vars PROVE IndInv'
    OBVIOUS
  <2>2. TypeOK'
    BY <2>1, TypeStep DEF IndInv
  <2>3. QED
    BY <2>1, <2>2, EnvironmentKeepsInv, HandlerKeepsInv DEF Next
<1>3. QED
  BY <1>1, <1>2, PTL DEF Spec

\* Single use: Redis confirms at most one of the requests carrying a token,
\* however the handlers interleave, for every skew and latency the margin of
\* markTokenUsed covers.
THEOREM AtMostOnceHolds == Spec => []AtMostOnce
<1>1. IndInv => AtMostOnce
  BY DEF IndInv
<1>2. QED
  BY <1>1, IndInvariant, PTL

------------------------------------------------------------------------------
(* What a request may have gone through *)

\* Every check that comes before markTokenUsed let r pass: CheckboxHTTP has none.
Accepted(r) ==
  /\ r.route # "captcha"
  /\ r.tok \in PowToken =>
       \/ r.route = "checkbox"
       \/ r.ans = "good"
       \/ r.ans = "webdriver" /\ ~RejectWebdriver

\* The handler of r is past its last check.
Solved(r) == r.route = "captcha" \/ (r.marked # "no" /\ r.ans # "suspicious")

\* How a request gets to where it is.
Sound(r) ==
  /\ r.ans \in AnswersAt(r.route)
  /\ r.pc \in {"decode", "mark"} => r.marked = "no"
  /\ r.pc # "done" => r.out = "none" /\ r.noted = Never
  /\ r.pc = "mark" \/ r.marked # "no" => Accepted(r)
  /\ r.marked = "error" => FailOpen
  /\ r.pc = "clear" \/ r.out = "cleared" => Solved(r)
  /\ r.ans = "suspicious" /\ (r.pc = "fail" \/ r.out = "failed") => r.marked # "no"

History == \A s \in Sent : Sound(sub[s])

\* The requests that markTokenUsed let pass with nonce n.
Passed(n) == {s \in Sent : Nonce(sub[s].tok) = n /\ sub[s].marked # "no"}

\* A marker in Redis was put there by a request that passed, when the guard
\* fails open.
MarkerExplained == FailOpen => \A n \in Nonces : used[n] # 0 => Passed(n) # {}

\* The failures of the address a.
Fails(a) == {s \in Sent : sub[s].ip = a /\ sub[s].noted # Never}

FailsFinite == \A a \in IP : IsFiniteSet(Fails(a))

HInv == /\ IndInv
        /\ History
        /\ MarkerExplained
        /\ WrongProofKeepsToken
        /\ ReplayOnlyAfterUse
        /\ FailsFinite
        /\ FailCountBacked

------------------------------------------------------------------------------
\* What each endpoint tells apart, and that CheckboxHTTP decodes every token.
LEMMA Kinds ==
  /\ \A ans \in AnswersAt("verify") :
        ans \in {"malformed", "unsigned", "wrong", "webdriver", "good"}
  /\ \A ans \in AnswersAt("checkbox") :
        ans \in {"malformed", "unsigned", "suspicious", "good"}
  /\ \A ans \in AnswersAt("captcha") : ans \in {"unsigned", "wrong", "good"}
  /\ Decodes["checkbox"] = Token
BY DEF AnswersAt, Answers, Decodes

\* The fields of a request after each of the four ways to assign to it.
LEMMA Assigned ==
  ASSUME TypeOK, NEW s \in Submission, sub[s] \in SubRecord
  PROVE  /\ \A pc : Goto(s, pc) =>
               /\ sub'[s].pc = pc /\ sub'[s].tok = sub[s].tok
               /\ sub'[s].ip = sub[s].ip /\ sub'[s].route = sub[s].route /\ sub'[s].ans = sub[s].ans
               /\ sub'[s].marked = sub[s].marked /\ sub'[s].noted = sub[s].noted
               /\ sub'[s].out = sub[s].out
         /\ \A out : Answer(s, out) =>
               /\ sub'[s].pc = "done" /\ sub'[s].tok = sub[s].tok
               /\ sub'[s].ip = sub[s].ip /\ sub'[s].route = sub[s].route /\ sub'[s].ans = sub[s].ans
               /\ sub'[s].marked = sub[s].marked /\ sub'[s].noted = sub[s].noted
               /\ sub'[s].out = out
         /\ \A by : PassMark(s, by) =>
               /\ sub'[s].pc = (IF sub[s].route = "checkbox" /\ sub[s].ans = "suspicious"
                                THEN "fail" ELSE "clear")
               /\ sub'[s].tok = sub[s].tok
               /\ sub'[s].ip = sub[s].ip /\ sub'[s].route = sub[s].route /\ sub'[s].ans = sub[s].ans
               /\ sub'[s].marked = by /\ sub'[s].noted = sub[s].noted
               /\ sub'[s].out = sub[s].out
         /\ NoteFail(s) =>
               /\ sub'[s].pc = "done" /\ sub'[s].tok = sub[s].tok
               /\ sub'[s].ip = sub[s].ip /\ sub'[s].route = sub[s].route /\ sub'[s].ans = sub[s].ans
               /\ sub'[s].marked = sub[s].marked /\ sub'[s].noted = clock
               /\ sub'[s].out = IF Parsed(s) THEN "failed" ELSE "badToken"
<1>1. ASSUME NEW pc, Goto(s, pc)
      PROVE  /\ sub'[s].pc = pc /\ sub'[s].tok = sub[s].tok
             /\ sub'[s].ip = sub[s].ip /\ sub'[s].route = sub[s].route /\ sub'[s].ans = sub[s].ans
             /\ sub'[s].marked = sub[s].marked /\ sub'[s].noted = sub[s].noted
             /\ sub'[s].out = sub[s].out
  BY <1>1 DEF TypeOK, Goto, SubRecord
<1>2. ASSUME NEW out, Answer(s, out)
      PROVE  /\ sub'[s].pc = "done" /\ sub'[s].tok = sub[s].tok
             /\ sub'[s].ip = sub[s].ip /\ sub'[s].route = sub[s].route /\ sub'[s].ans = sub[s].ans
             /\ sub'[s].marked = sub[s].marked /\ sub'[s].noted = sub[s].noted
             /\ sub'[s].out = out
  BY <1>2 DEF TypeOK, Answer, SubRecord
<1>3. ASSUME NEW by, PassMark(s, by)
      PROVE  /\ sub'[s].pc = (IF sub[s].route = "checkbox" /\ sub[s].ans = "suspicious"
                              THEN "fail" ELSE "clear")
             /\ sub'[s].tok = sub[s].tok
             /\ sub'[s].ip = sub[s].ip /\ sub'[s].route = sub[s].route /\ sub'[s].ans = sub[s].ans
             /\ sub'[s].marked = by /\ sub'[s].noted = sub[s].noted
             /\ sub'[s].out = sub[s].out
  BY <1>3 DEF TypeOK, PassMark, SubRecord
<1>4. ASSUME NoteFail(s)
      PROVE  /\ sub'[s].pc = "done" /\ sub'[s].tok = sub[s].tok
             /\ sub'[s].ip = sub[s].ip /\ sub'[s].route = sub[s].route /\ sub'[s].ans = sub[s].ans
             /\ sub'[s].marked = sub[s].marked /\ sub'[s].noted = clock
             /\ sub'[s].out = IF Parsed(s) THEN "failed" ELSE "badToken"
  BY <1>4 DEF TypeOK, NoteFail, SubRecord
<1>5. QED
  BY <1>1, <1>2, <1>3, <1>4

\* A handler step keeps what a request carries, and its story stays sound.
LEMMA HandlerSound ==
  ASSUME TypeOK, NEW s \in Submission, Handler(s), Sound(sub[s])
  PROVE  /\ sub'[s].ip = sub[s].ip /\ sub'[s].ans = sub[s].ans
         /\ Sound(sub'[s])
<1>1. sub[s] \in SubRecord
  BY HandlerStep
<1> DEFINE t == sub[s].tok
           r == sub[s].route
           ans == sub[s].ans
<1>2. t \in Token /\ r \in Routes /\ ans \in AnswersAt(r)
  BY <1>1 DEF SubRecord, Sound
<1>3. /\ r = "verify" => ans \in {"malformed", "unsigned", "wrong", "webdriver", "good"}
      /\ r = "checkbox" => ans \in {"malformed", "unsigned", "suspicious", "good"}
      /\ r = "captcha" => ans \in {"unsigned", "wrong", "good"}
      /\ ans = "suspicious" => r = "checkbox"
  BY <1>2, Kinds DEF Routes
<1>4. CASE VerifyHTTP(s)
  <2>1. sub[s].pc = "decode" /\ r = "verify"
    BY <1>4 DEF VerifyHTTP
  <2>2. CASE Answer(s, "badRequest") \/ Answer(s, "expired")
    BY <1>1, <2>1, <2>2, Assigned DEF Sound, Accepted, Solved
  <2>3. CASE Goto(s, "fail")
    BY <1>1, <1>3, <2>1, <2>3, Assigned DEF Sound, Accepted, Solved
  <2>4. CASE /\ Goto(s, "mark") /\ ans # "malformed" /\ Parsed(s)
             /\ ~(ans = "wrong" /\ t \in PowToken)
             /\ ~(ans = "webdriver" /\ RejectWebdriver)
    BY <1>1, <1>3, <2>1, <2>4, Assigned DEF Sound, Accepted, Solved, Parsed
  <2>5. QED
    BY <1>4, <2>2, <2>3, <2>4 DEF VerifyHTTP
<1>5. CASE CheckboxHTTP(s)
  <2>1. sub[s].pc = "decode" /\ r = "checkbox"
    BY <1>5 DEF CheckboxHTTP
  <2>2. CASE Answer(s, "badRequest") \/ Answer(s, "expired")
    BY <1>1, <2>1, <2>2, Assigned DEF Sound, Accepted, Solved
  <2>3. CASE Goto(s, "fail") /\ ~Parsed(s)
    <3>1. ans = "unsigned"
      BY <1>2, <2>1, <2>3, Kinds DEF Parsed
    <3>2. QED
      BY <1>1, <2>1, <2>3, <3>1, Assigned DEF Sound, Accepted, Solved
  <2>4. CASE Goto(s, "mark")
    BY <1>1, <1>3, <2>1, <2>4, Assigned DEF Sound, Accepted, Solved
  <2>5. QED
    BY <1>5, <2>2, <2>3, <2>4 DEF CheckboxHTTP
<1>6. CASE CaptchaHTTP(s)
  <2>1. sub[s].pc = "decode" /\ r = "captcha"
    BY <1>6 DEF CaptchaHTTP
  <2>2. Goto(s, "fail") \/ Goto(s, "clear") \/ Answer(s, "expired")
    BY <1>6 DEF CaptchaHTTP
  <2>3. QED
    BY <1>1, <1>3, <2>1, <2>2, Assigned DEF Sound, Accepted, Solved
<1>7. CASE MarkAnswered(s) \/ MarkFailed(s)
  <2>1. sub[s].pc = "mark"
    BY <1>7 DEF MarkAnswered, MarkFailed
  <2>2. Accepted(sub[s]) /\ r # "captcha"
    BY <2>1 DEF Sound, Accepted
  <2>3. CASE Answer(s, "replay")
    BY <1>1, <2>1, <2>3, Assigned DEF Sound, Accepted, Solved
  <2>4. CASE PassMark(s, "redis")
    BY <1>1, <1>3, <2>1, <2>2, <2>4, Assigned DEF Sound, Accepted, Solved
  <2>5. CASE PassMark(s, "error") /\ FailOpen
    BY <1>1, <1>3, <2>1, <2>2, <2>5, Assigned DEF Sound, Accepted, Solved
  <2>6. QED
    BY <1>7, <2>3, <2>4, <2>5 DEF MarkAnswered, MarkFailed
<1>8. CASE NoteFail(s)
  <2>1. sub[s].pc = "fail"
    BY <1>8 DEF NoteFail
  <2>2. QED
    BY <1>1, <1>8, <2>1, Assigned DEF Sound, Accepted, Solved
<1>9. CASE IssueClearance(s)
  <2>1. sub[s].pc = "clear" /\ Answer(s, "cleared")
    BY <1>9 DEF IssueClearance
  <2>2. QED
    BY <1>1, <2>1, Assigned DEF Sound, Accepted, Solved
<1>10. QED
  BY <1>4, <1>5, <1>6, <1>7, <1>8, <1>9 DEF Handler

------------------------------------------------------------------------------
\* What a handler step does to the marker of its token, to the failure counter
\* and to the two fields of its request that record them.
LEMMA HandlerMarks ==
  ASSUME TypeOK, NEW s \in Submission, Handler(s), Sound(sub[s])
  PROVE  /\ sub[s].marked # "no" => sub'[s].marked # "no"
         /\ FailOpen => used' = used \/ sub'[s].marked # "no"
         /\ FailOpen /\ sub'[s].out = "replay" =>
              IsUsed(Nonce(sub[s].tok)) /\ sub[s].marked = "no"
         /\ \/ sub'[s].noted = sub[s].noted
            \/ sub[s].noted = Never /\ sub'[s].noted = clock
         /\ \/ cf' = cf
            \/ DelFails(sub[s].ip)
            \/ CountFail(sub[s].ip) /\ sub[s].noted = Never /\ sub'[s].noted = clock
<1>1. sub[s] \in SubRecord
  BY HandlerStep
<1>2. CASE VerifyHTTP(s) \/ CheckboxHTTP(s) \/ CaptchaHTTP(s)
  <2>1. sub[s].pc = "decode" /\ used' = used /\ cf' = cf
    BY <1>2 DEF VerifyHTTP, CheckboxHTTP, CaptchaHTTP
  <2>2. \/ \E pc \in {"fail", "mark", "clear"} : Goto(s, pc)
        \/ \E out \in {"badRequest", "expired"} : Answer(s, out)
    BY <1>2 DEF VerifyHTTP, CheckboxHTTP, CaptchaHTTP
  <2>3. QED
    BY <1>1, <2>1, <2>2, Assigned DEF Sound
<1>3. CASE MarkAnswered(s)
  <2>1. sub[s].pc = "mark" /\ cf' = cf
    BY <1>3 DEF MarkAnswered
  <2>2. CASE IsUsed(Nonce(sub[s].tok))
    <3>1. used' = used /\ Answer(s, "replay")
      BY <1>3, <2>2 DEF MarkAnswered, SetNX
    <3>2. QED
      BY <1>1, <2>1, <2>2, <3>1, Assigned DEF Sound
  <2>3. CASE ~IsUsed(Nonce(sub[s].tok))
    <3>1. PassMark(s, "redis")
      BY <1>3, <2>3 DEF MarkAnswered
    <3>2. QED
      BY <1>1, <2>1, <3>1, Assigned DEF Sound
  <2>4. QED
    BY <2>2, <2>3
<1>4. CASE MarkFailed(s)
  <2>1. sub[s].pc = "mark" /\ cf' = cf
    BY <1>4 DEF MarkFailed
  <2>2. CASE FailOpen
    <3>1. PassMark(s, "error")
      BY <1>4, <2>2 DEF MarkFailed
    <3>2. QED
      BY <1>1, <2>1, <3>1, Assigned DEF Sound
  <2>3. CASE ~FailOpen
    <3>1. Answer(s, "replay")
      BY <1>4, <2>3 DEF MarkFailed
    <3>2. QED
      BY <1>1, <2>1, <2>3, <3>1, Assigned DEF Sound
  <2>4. QED
    BY <2>2, <2>3
<1>5. CASE NoteFail(s)
  <2>1. sub[s].pc = "fail" /\ used' = used
    BY <1>5 DEF NoteFail
  <2>2. cf' = cf \/ CountFail(sub[s].ip)
    BY <1>5 DEF NoteFail
  <2>3. QED
    BY <1>1, <1>5, <2>1, <2>2, Assigned DEF Sound
<1>6. CASE IssueClearance(s)
  <2>1. sub[s].pc = "clear" /\ used' = used /\ Answer(s, "cleared")
    BY <1>6 DEF IssueClearance
  <2>2. cf' = cf \/ DelFails(sub[s].ip)
    BY <1>6 DEF IssueClearance
  <2>3. QED
    BY <1>1, <2>1, <2>2, Assigned DEF Sound
<1>7. QED
  BY <1>2, <1>3, <1>4, <1>5, <1>6 DEF Handler

\* The promises about markers survive a handler step.
LEMMA HandlerKeepsMarkers ==
  ASSUME HInv, NEW s \in Submission, Handler(s)
  PROVE  /\ Sent' = Sent
         /\ History'
         /\ MarkerExplained'
         /\ WrongProofKeepsToken'
         /\ ReplayOnlyAfterUse'
<1> DEFINE t == sub[s].tok
           n == Nonce(t)
<1>1. TypeOK
  BY DEF HInv, IndInv
<1>2. /\ sub[s] \in SubRecord /\ sub'[s] # Unsent /\ sub'[s].tok = t
      /\ sub'[s].route = sub[s].route
      /\ \A q \in Submission : q # s => sub'[q] = sub[q]
      /\ used' = used \/ (sub[s].pc = "mark" /\ SetNX(n))
  BY <1>1, HandlerStep
<1>3. s \in Sent /\ t \in Token /\ n \in Nonces
  BY <1>2, NonceOf DEF Sent, SubRecord, Unsent
<1>4. Sent' = Sent
  BY <1>2, <1>3 DEF Sent
<1>5. Sound(sub[s])
  BY <1>3 DEF HInv, History
<1>6. Sound(sub'[s]) /\ sub'[s].ans = sub[s].ans
  BY <1>1, <1>5, HandlerSound
<1>7. /\ sub[s].marked # "no" => sub'[s].marked # "no"
      /\ FailOpen => used' = used \/ sub'[s].marked # "no"
      /\ FailOpen /\ sub'[s].out = "replay" => IsUsed(n) /\ sub[s].marked = "no"
  BY <1>1, <1>5, HandlerMarks
<1>8. \A u \in Nonces : used'[u] # used[u] => u = n /\ sub[s].pc = "mark"
  BY <1>1, <1>2, <1>3 DEF SetNX, TypeOK
<1>9. History'
  BY <1>2, <1>4, <1>6 DEF HInv, History, Sent
<1>10. \A u \in Nonces : Passed(u) \subseteq Passed(u)'
  BY <1>2, <1>4, <1>7 DEF Passed, Sent
<1>11. MarkerExplained'
  <2>1. SUFFICES ASSUME FailOpen, NEW u \in Nonces, used'[u] # 0
                 PROVE  Passed(u)' # {}
    BY DEF MarkerExplained
  <2>2. CASE used'[u] = used[u]
    BY <1>10, <2>1, <2>2 DEF HInv, MarkerExplained
  <2>3. CASE used'[u] # used[u]
    <3>1. u = n /\ sub'[s].marked # "no"
      BY <1>7, <1>8, <2>1, <2>3
    <3>2. QED
      BY <1>2, <1>3, <1>4, <3>1 DEF Passed
  <2>4. QED
    BY <2>2, <2>3
<1>12. WrongProofKeepsToken'
  <2>1. SUFFICES ASSUME NEW u \in PowToken, used'[u] # 0
                 PROVE  \E q \in Sent : /\ sub'[q].tok = u
                                        /\ \/ sub'[q].route = "checkbox"
                                           \/ sub'[q].ans = "good"
                                           \/ sub'[q].ans = "webdriver" /\ ~RejectWebdriver
    BY <1>4 DEF WrongProofKeepsToken
  <2>2. \A q \in Sent : /\ sub'[q].tok = sub[q].tok /\ sub'[q].ans = sub[q].ans
                        /\ sub'[q].route = sub[q].route
    BY <1>2, <1>6 DEF Sent
  <2>3. CASE used'[u] = used[u]
    BY <2>1, <2>2, <2>3 DEF HInv, WrongProofKeepsToken
  <2>4. CASE used'[u] # used[u]
    <3>0. u \in SingleUse
      BY DEF SingleUse
    <3>1. u = t /\ sub[s].pc = "mark"
      <4>1. u = n /\ sub[s].pc = "mark"
        BY <1>8, <2>4, <3>0 DEF Nonces
      <4>2. n # NoNonce
        BY <3>0, <4>1, KindsAssumption DEF SingleUse, Token
      <4>3. QED
        BY <4>1, <4>2 DEF Nonce
    <3>2. Accepted(sub[s])
      BY <1>5, <3>1 DEF Sound
    <3>3. QED
      BY <1>3, <2>2, <3>1, <3>2 DEF Accepted
  <2>5. QED
    BY <2>3, <2>4
<1>13. ReplayOnlyAfterUse'
  <2>1. SUFFICES ASSUME FailOpen, NEW r \in Sent, sub'[r].out = "replay"
                 PROVE  \E q \in Sent \ {r} : /\ Nonce(sub'[q].tok) = Nonce(sub'[r].tok)
                                          /\ sub'[q].marked # "no"
    BY <1>4 DEF ReplayOnlyAfterUse
  <2>2. \A q \in Sent : /\ sub'[q].tok = sub[q].tok
                        /\ sub[q].marked # "no" => sub'[q].marked # "no"
    BY <1>2, <1>7 DEF Sent
  <2>3. CASE r # s
    <3>1. sub[r].out = "replay"
      BY <1>2, <2>1, <2>3 DEF Sent
    <3>2. PICK q \in Sent \ {r} : /\ Nonce(sub[q].tok) = Nonce(sub[r].tok)
                                  /\ sub[q].marked # "no"
      BY <2>1, <3>1 DEF HInv, ReplayOnlyAfterUse
    <3>3. QED
      BY <2>2, <3>2
  <2>4. CASE r = s
    <3>1. used[n] # 0 /\ sub[s].marked = "no"
      BY <1>1, <1>3, <1>7, <2>1, <2>4 DEF IsUsed, TypeOK
    <3>2. PICK q \in Passed(n) : TRUE
      BY <1>3, <2>1, <3>1 DEF HInv, MarkerExplained
    <3>3. q \in Sent \ {s} /\ Nonce(sub[q].tok) = n /\ sub[q].marked # "no"
      BY <3>1, <3>2 DEF Passed
    <3>4. QED
      BY <2>2, <2>4, <3>3, <1>2
  <2>5. QED
    BY <2>3, <2>4
<1>14. QED
  BY <1>4, <1>9, <1>11, <1>12, <1>13

\* The failure counter of an address stays backed over a handler step: the
\* request that is counted was not counted before.
LEMMA HandlerKeepsFails ==
  ASSUME HInv, NEW s \in Submission, Handler(s)
  PROVE  FailsFinite' /\ FailCountBacked'
<1> DEFINE b == sub[s].ip
<1>1. TypeOK
  BY DEF HInv, IndInv
<1>2. /\ sub[s] \in SubRecord /\ clock' = clock
      /\ \A q \in Submission : q # s => sub'[q] = sub[q]
  BY <1>1, HandlerStep
<1>3. s \in Sent /\ b \in IP /\ Sent' = Sent /\ clock \in Nat
  BY <1>1, <1>2, HandlerKeepsMarkers DEF Sent, SubRecord, Unsent, TypeOK
<1>4. sub'[s].ip = b
  BY <1>1, <1>3, HandlerSound DEF HInv, History
<1>5. /\ \/ sub'[s].noted = sub[s].noted
         \/ sub[s].noted = Never /\ sub'[s].noted = clock
      /\ \/ cf' = cf
         \/ DelFails(b)
         \/ CountFail(b) /\ sub[s].noted = Never /\ sub'[s].noted = clock
  BY <1>1, <1>3, HandlerMarks DEF HInv, History
<1>6. clock # Never
  BY <1>3 DEF Never
<1>7. \A a \in IP : /\ IsFiniteSet(Fails(a))
                    /\ clock < cf[a].exp =>
                         /\ cf[a].n \in 1 .. Cardinality(Fails(a))
                         /\ \E q \in Fails(a) : cf[a].exp =< sub[q].noted + FailTTL
  BY DEF HInv, FailsFinite, FailCountBacked, Fails
<1>8. SUFFICES ASSUME NEW a \in IP
               PROVE  /\ IsFiniteSet(Fails(a)')
                      /\ clock < cf'[a].exp =>
                           /\ cf'[a].n \in 1 .. Cardinality(Fails(a)')
                           /\ \E q \in Fails(a)' : cf'[a].exp =< sub'[q].noted + FailTTL
  BY <1>2 DEF FailsFinite, FailCountBacked, Fails
<1>9. /\ cf[a].n \in Nat /\ cf[a].exp \in Nat /\ FailTTL \in Nat
      /\ Cardinality(Fails(a)) \in Nat
  BY <1>1, <1>7, FS_CardinalityType, Times DEF TypeOK
<1>10. CASE sub'[s].noted = sub[s].noted \/ a # b
  <2>1. Fails(a)' = Fails(a)
    BY <1>2, <1>3, <1>4, <1>10 DEF Fails, Sent
  <2>2. \A q \in Fails(a) : sub'[q].noted = sub[q].noted
    BY <1>2, <1>3, <1>10 DEF Fails, Sent
  <2>3. cf'[a] = cf[a] \/ cf'[a].exp = 0
    BY <1>1, <1>3, <1>5, <1>6, <1>10 DEF DelFails, CountFail, TypeOK
  <2>4. cf'[a].exp = 0 => ~(clock < cf'[a].exp)
    BY <1>3
  <2>5. QED
    BY <1>7, <2>1, <2>2, <2>3, <2>4
<1>11. CASE sub'[s].noted # sub[s].noted /\ a = b
  <2>1. sub[s].noted = Never /\ sub'[s].noted = clock
    BY <1>5, <1>11
  <2>2. Fails(a)' = Fails(a) \cup {s} /\ s \notin Fails(a)
    BY <1>2, <1>3, <1>4, <1>6, <1>11, <2>1 DEF Fails, Sent
  <2>3. IsFiniteSet(Fails(a)') /\ Cardinality(Fails(a)') = Cardinality(Fails(a)) + 1
    BY <1>7, <2>2, FS_AddElement
  <2>4. \A q \in Fails(a) : sub'[q].noted = sub[q].noted
    BY <1>2, <2>2 DEF Fails, Sent
  <2>5. CASE cf' = cf
    <3>1. 1 .. Cardinality(Fails(a)) \subseteq 1 .. Cardinality(Fails(a)')
      BY <1>9, <2>3
    <3>2. QED
      BY <1>7, <2>2, <2>3, <2>4, <2>5, <3>1
  <2>6. CASE DelFails(b)
    <3>1. ~(clock < cf'[a].exp)
      BY <1>1, <1>3, <1>11, <2>6 DEF DelFails, TypeOK
    <3>2. QED
      BY <2>3, <3>1
  <2>7. CASE CountFail(b)
    <3>1. /\ cf'[a].exp = clock + FailTTL
          /\ cf'[a].n = IF clock < cf[a].exp THEN cf[a].n + 1 ELSE 1
      BY <1>1, <1>11, <2>7 DEF CountFail, TypeOK
    <3>2. cf'[a].n \in 1 .. Cardinality(Fails(a)')
      BY <1>7, <1>9, <2>3, <3>1
    <3>3. s \in Fails(a)' /\ cf'[a].exp =< sub'[s].noted + FailTTL
      BY <1>3, <1>9, <2>1, <2>2, <3>1
    <3>4. QED
      BY <2>3, <3>2, <3>3
  <2>8. QED
    BY <1>5, <2>5, <2>6, <2>7
<1>12. QED
  BY <1>10, <1>11

\* The steps that are no handler steps keep all of it: a new request carries an
\* answer of its form and has no history, and time only ends counters.
LEMMA EnvironmentKeepsHInv ==
  ASSUME HInv, IndInv',
         \/ Tick
         \/ \E i \in Instance, t \in Token : IssueToken(i, t)
         \/ \E s \in Submission, i \in Instance, r \in Routes, t \in Token, a \in IP :
               \E ans \in AnswersAt(r) : Arrive(s, i, r, t, a, ans)
         \/ UNCHANGED vars
  PROVE  HInv'
<1>1. CASE Tick \/ (\E i \in Instance, t \in Token : IssueToken(i, t)) \/ UNCHANGED vars
  <2>1. /\ used' = used /\ cf' = cf /\ sub' = sub
        /\ clock' = clock \/ clock' = clock + 1
    BY <1>1 DEF Tick, IssueToken, vars
  <2>2. History' /\ MarkerExplained' /\ WrongProofKeepsToken' /\ ReplayOnlyAfterUse'
    BY <2>1 DEF HInv, History, MarkerExplained, WrongProofKeepsToken,
       ReplayOnlyAfterUse, Passed, Sent
  <2>3. \A a \in IP : Fails(a)' = Fails(a)
    BY <2>1 DEF Fails, Sent
  <2>4. \A a \in IP : clock' < cf[a].exp => clock < cf[a].exp
    BY <2>1 DEF HInv, IndInv, TypeOK
  <2>5. FailsFinite' /\ FailCountBacked'
    BY <2>1, <2>3, <2>4 DEF HInv, FailsFinite, FailCountBacked, Fails
  <2>6. QED
    BY <2>2, <2>5 DEF HInv
<1>2. ASSUME NEW s \in Submission, NEW i \in Instance, NEW r \in Routes,
             NEW t \in Token, NEW a \in IP, NEW ans \in AnswersAt(r),
             Arrive(s, i, r, t, a, ans)
      PROVE  HInv'
  <2>1. /\ sub[s] = Unsent
        /\ UNCHANGED <<clock, ts, used, cf>>
        /\ \A q \in Submission : q # s => sub'[q] = sub[q]
        /\ sub'[s].pc = "decode" /\ sub'[s].tok = t /\ sub'[s].marked = "no"
        /\ sub'[s].route = r /\ sub'[s].ans = ans /\ sub'[s].out = "none" /\ sub'[s].noted = Never
    BY <1>2 DEF Arrive, HInv, IndInv, TypeOK
  <2>2. Sound(sub'[s])
    BY <2>1 DEF Sound
  <2>3. \A q \in Sent' : q # s => q \in Sent /\ sub'[q] = sub[q]
    BY <2>1 DEF Sent
  <2>4. \A q \in Sent : q # s /\ q \in Sent' /\ sub'[q] = sub[q]
    BY <2>1 DEF Sent
  <2>5. History'
    BY <2>2, <2>3 DEF HInv, History
  <2>6. MarkerExplained' /\ WrongProofKeepsToken'
    <3>1. \A u \in Nonces : Passed(u) \subseteq Passed(u)'
      BY <2>4 DEF Passed
    <3>2. MarkerExplained'
      BY <2>1, <3>1 DEF HInv, MarkerExplained
    <3>3. WrongProofKeepsToken'
      BY <2>1, <2>4 DEF HInv, WrongProofKeepsToken
    <3>4. QED
      BY <3>2, <3>3
  <2>7. ReplayOnlyAfterUse'
    <3>1. SUFFICES ASSUME FailOpen, NEW p \in Sent', sub'[p].out = "replay"
                   PROVE  \E q \in Sent' \ {p} : /\ Nonce(sub'[q].tok) = Nonce(sub'[p].tok)
                                             /\ sub'[q].marked # "no"
      BY DEF ReplayOnlyAfterUse
    <3>2. p \in Sent /\ sub'[p] = sub[p]
      BY <2>1, <2>3, <3>1
    <3>3. QED
      BY <2>4, <3>1, <3>2 DEF HInv, ReplayOnlyAfterUse
  <2>8. \A c \in IP : Fails(c)' = Fails(c) /\ \A q \in Fails(c) : sub'[q] = sub[q]
    BY <2>1, <2>3, <2>4 DEF Fails
  <2>9. FailsFinite' /\ FailCountBacked'
    BY <2>1, <2>8 DEF HInv, FailsFinite, FailCountBacked, Fails
  <2>10. QED
    BY <2>5, <2>6, <2>7, <2>9 DEF HInv
<1>3. QED
  BY <1>1, <1>2

\* The endpoints keep HInv: the conjuncts of HInv below IndInv are what the
\* requests themselves remember, and IndInv is IndInvariant.
THEOREM HistoryInvariant == Spec => []HInv
<1>1. Init => HInv
  <2>1. SUFFICES ASSUME Init PROVE HInv
    OBVIOUS
  <2>2. IndInv
    <3>1. TypeOK /\ Sent = {}
      BY <2>1 DEF Init, TypeOK, Sent
    <3>2. QED
      BY <2>1, <3>1, Times DEF Init, IndInv, IssuedByNow, DeadlineSet,
         MarkerOutlivesToken, MarksInTime, AtMostOnce, Confirmed, NotIssued
  <2>3. /\ Sent = {} /\ \A u \in Nonces : used[u] = 0
        /\ \A a \in IP : ~(clock < cf[a].exp)
    BY <2>1 DEF Init, Sent
  <2>4. \A a \in IP : Fails(a) = {}
    BY <2>3 DEF Fails
  <2>5. FailsFinite /\ FailCountBacked
    BY <2>3, <2>4, FS_EmptySet DEF FailsFinite, FailCountBacked
  <2>6. QED
    BY <2>2, <2>3, <2>5 DEF HInv, History, MarkerExplained, WrongProofKeepsToken,
       ReplayOnlyAfterUse, Nonces, SingleUse
<1>2. HInv /\ [Next]_vars => HInv'
  <2>1. SUFFICES ASSUME HInv, [Next]_vars PROVE HInv'
    OBVIOUS
  <2>2. TypeOK'
    BY <2>1, TypeStep DEF HInv, IndInv
  <2>3. IndInv'
    BY <2>1, <2>2, EnvironmentKeepsInv, HandlerKeepsInv DEF Next, HInv
  <2>4. ASSUME NEW s \in Submission, Handler(s) PROVE HInv'
    BY <2>1, <2>3, <2>4, HandlerKeepsMarkers, HandlerKeepsFails DEF HInv
  <2>5. QED
    BY <2>1, <2>3, <2>4, EnvironmentKeepsHInv DEF Next
<1>3. QED
  BY <1>1, <1>2, PTL DEF Spec

\* A refused proof leaves its token usable: VerifyHTTP marks a token only for a
\* request that passed all its other checks.
THEOREM WrongProofKeepsTokenHolds == Spec => []WrongProofKeepsToken
<1>1. HInv => WrongProofKeepsToken
  BY DEF HInv
<1>2. QED
  BY <1>1, HistoryInvariant, PTL

\* A guard that fails open calls a request a replay only when another request
\* used its token.
THEOREM ReplayOnlyAfterUseHolds == Spec => []ReplayOnlyAfterUse
<1>1. HInv => ReplayOnlyAfterUse
  BY DEF HInv
<1>2. QED
  BY <1>1, HistoryInvariant, PTL

\* The failure counter of an address never exceeds the failures of that address,
\* and ends FailTTL after one of them.
THEOREM FailCountBackedHolds == Spec => []FailCountBacked
<1>1. HInv => FailCountBacked
  BY DEF HInv
<1>2. QED
  BY <1>1, HistoryInvariant, PTL

\* A page that was judged suspicious gives no clearance at an endpoint that marks
\* tokens, Redis errors apart: both requests passed markTokenUsed, and Redis
\* confirms one.
THEOREM SuspiciousIsFinalHolds == Spec => []SuspiciousIsFinal
<1>1. HInv => SuspiciousIsFinal
  <2>1. SUFFICES ASSUME HInv, NEW q1 \in Sent, NEW q2 \in Sent,
                        sub[q1].tok = sub[q2].tok,
                        sub[q1].ans = "suspicious", sub[q1].out = "failed",
                        sub[q2].route # "captcha", sub[q2].out = "cleared"
                 PROVE  "error" \in {sub[q1].marked, sub[q2].marked}
    BY DEF SuspiciousIsFinal
  <2>2. Sound(sub[q1]) /\ Sound(sub[q2])
    BY <2>1 DEF HInv, History
  <2>3. sub[q1].marked # "no"
    BY <2>1, <2>2 DEF Sound
  <2>4. sub[q2].marked # "no" /\ sub[q2].ans # "suspicious"
    BY <2>1, <2>2 DEF Sound, Solved
  <2>5. /\ sub[q1].marked \in {"no", "redis", "error"}
        /\ sub[q2].marked \in {"no", "redis", "error"}
    BY <2>1 DEF HInv, IndInv, TypeOK, Sent, SubRecord
  <2>6. ~(sub[q1].marked = "redis" /\ sub[q2].marked = "redis")
    BY <2>1, <2>4 DEF HInv, IndInv, AtMostOnce, Confirmed
  <2>7. QED
    BY <2>3, <2>4, <2>5, <2>6
<1>2. QED
  BY <1>1, HistoryInvariant, PTL

\* The requests to the endpoints that mark tokens.
Marking == {s \in Sent : sub[s].route # "captcha"}

\* One page, one clearance: the claim of bindValue holds of what VerifyHTTP and
\* CheckboxHTTP clear, whichever page the token comes from, so it fails only by
\* way of CaptchaHTTP.
THEOREM SolvedOnceWhereMarked == Spec => []OncePerToken(Marking)
<1>1. HInv => OncePerToken(Marking)
  <2>1. SUFFICES ASSUME HInv, NEW q1 \in Marking, NEW q2 \in Marking,
                        sub[q1].tok = sub[q2].tok,
                        sub[q1].out = "cleared", sub[q1].marked # "error",
                        sub[q2].out = "cleared", sub[q2].marked # "error"
                 PROVE  q1 = q2
    BY DEF OncePerToken
  <2>2. q1 \in Sent /\ q2 \in Sent
    BY DEF Marking
  <2>3. sub[q1].marked # "no" /\ sub[q2].marked # "no"
    BY <2>1, <2>2 DEF HInv, History, Sound, Solved, Marking
  <2>4. /\ sub[q1].marked \in {"no", "redis", "error"}
        /\ sub[q2].marked \in {"no", "redis", "error"}
    BY <2>1, <2>2 DEF HInv, IndInv, TypeOK, Sent, SubRecord
  <2>5. QED
    BY <2>1, <2>2, <2>3, <2>4 DEF HInv, IndInv, AtMostOnce, Confirmed
<1>2. QED
  BY <1>1, HistoryInvariant, PTL

------------------------------------------------------------------------------
\* What Redemption sees of a state.
Issued == {t \in Token : ts[t] # NotIssued}

Redeemed == {<<sub[s].tok, s>> : s \in Confirmed}

Cleared == {<<sub[s].tok, s>> :
              s \in {q \in Sent : sub[q].out = "cleared" /\ sub[q].route # "captcha"}}

\* Rendering a captcha hands out a token, or nothing.
LEMMA RenderIssues ==
  ASSUME TypeOK, NEW i \in Instance, ts' = ts \/ RenderCaptcha(i)
  PROVE  \/ Issued' = Issued
         \/ \E t \in Token : t \notin Issued /\ Issued' = Issued \cup {t}
<1>1. CASE ts' = ts
  BY <1>1 DEF Issued
<1>2. ASSUME NEW t \in CaptchaToken, ts[t] = NotIssued, ts' = [ts EXCEPT ![t] = Now(i)]
      PROVE  \E u \in Token : u \notin Issued /\ Issued' = Issued \cup {u}
  <2>1. t \in Token /\ Now(i) # NotIssued
    BY Times DEF TypeOK, Token, Now, NotIssued
  <2>2. \A u \in Token : ts'[u] = IF u = t THEN Now(i) ELSE ts[u]
    BY <1>2 DEF TypeOK
  <2>3. t \notin Issued /\ Issued' = Issued \cup {t}
    BY <1>2, <2>1, <2>2 DEF Issued
  <2>4. QED
    BY <2>1, <2>3
<1>3. QED
  BY <1>1, <1>2 DEF RenderCaptcha

\* The requests that a handler step of s leaves out are seen as before.
LEMMA OthersSeen ==
  ASSUME TypeOK, NEW s \in Submission, Handler(s)
  PROVE  /\ s \in Sent /\ Sent' = Sent /\ sub[s].tok \in Token
         /\ sub'[s].marked = "redis" /\ sub[s].marked # "redis" =>
              Redeemed' = Redeemed \cup {<<sub[s].tok, s>>}
         /\ (sub'[s].marked = "redis") = (sub[s].marked = "redis") =>
              Redeemed' = Redeemed
         /\ sub'[s].out = "cleared" /\ sub[s].out # "cleared" /\ sub[s].route # "captcha" =>
              Cleared' = Cleared \cup {<<sub[s].tok, s>>}
         /\ \/ (sub'[s].out = "cleared") = (sub[s].out = "cleared")
            \/ sub[s].route = "captcha"
            => Cleared' = Cleared
<1>1. /\ sub[s] \in SubRecord /\ sub'[s] # Unsent /\ sub'[s].tok = sub[s].tok
      /\ sub'[s].route = sub[s].route
      /\ \A q \in Submission : q # s => sub'[q] = sub[q]
  BY HandlerStep
<1>2. s \in Sent /\ Sent' = Sent /\ sub[s].tok \in Token
  BY <1>1 DEF Sent, Unsent, SubRecord
<1>3. \A q \in Sent : /\ sub'[q].tok = sub[q].tok /\ sub'[q].route = sub[q].route
                      /\ q # s => /\ sub'[q].marked = sub[q].marked
                                  /\ sub'[q].out = sub[q].out
  BY <1>1 DEF Sent
<1>4. ASSUME sub'[s].marked = "redis", sub[s].marked # "redis"
      PROVE  Redeemed' = Redeemed \cup {<<sub[s].tok, s>>}
  <2>1. Confirmed' = Confirmed \cup {s}
    BY <1>2, <1>3, <1>4 DEF Confirmed
  <2>2. \A q \in Confirmed : q \in Sent
    BY DEF Confirmed
  <2>3. QED
    BY <1>1, <1>3, <2>1, <2>2 DEF Redeemed
<1>5. ASSUME (sub'[s].marked = "redis") = (sub[s].marked = "redis")
      PROVE  Redeemed' = Redeemed
  <2>1. Confirmed' = Confirmed
    BY <1>2, <1>3, <1>5 DEF Confirmed
  <2>2. \A q \in Confirmed : q \in Sent
    BY DEF Confirmed
  <2>3. QED
    BY <1>3, <2>1, <2>2 DEF Redeemed
<1> DEFINE Won == {q \in Sent : sub[q].out = "cleared" /\ sub[q].route # "captcha"}
<1>6. ASSUME sub'[s].out = "cleared", sub[s].out # "cleared", sub[s].route # "captcha"
      PROVE  Cleared' = Cleared \cup {<<sub[s].tok, s>>}
  <2>1. Won' = Won \cup {s}
    BY <1>1, <1>2, <1>3, <1>6
  <2>2. \A q \in Won : q \in Sent
    OBVIOUS
  <2>3. Cleared = {<<sub[q].tok, q>> : q \in Won}
    BY DEF Cleared
  <2>4. Cleared' = {<<sub'[q].tok, q>> : q \in Won'}
    BY DEF Cleared
  <2> HIDE DEF Won
  <2>5. QED
    BY <1>1, <1>3, <2>1, <2>2, <2>3, <2>4
<1>7. ASSUME \/ (sub'[s].out = "cleared") = (sub[s].out = "cleared")
             \/ sub[s].route = "captcha"
      PROVE  Cleared' = Cleared
  <2>1. Won' = Won
    BY <1>1, <1>2, <1>3, <1>7
  <2>2. \A q \in Won : q \in Sent
    OBVIOUS
  <2>3. Cleared = {<<sub[q].tok, q>> : q \in Won}
    BY DEF Cleared
  <2>4. Cleared' = {<<sub'[q].tok, q>> : q \in Won'}
    BY DEF Cleared
  <2> HIDE DEF Won
  <2>5. QED
    BY <1>3, <2>1, <2>2, <2>3, <2>4
<1>8. QED
  BY <1>2, <1>4, <1>5, <1>6, <1>7

\* The steps of Redemption, over what it sees.
Hands(t) ==
  /\ t \notin Issued /\ Issued' = Issued \cup {t}
  /\ Redeemed' = Redeemed /\ Cleared' = Cleared

Redeems(t, s) ==
  /\ t \in Issued /\ \A q \in Submission : <<t, q>> \notin Redeemed
  /\ Redeemed' = Redeemed \cup {<<t, s>>}
  /\ Issued' = Issued /\ Cleared' = Cleared

Clears(t, s) ==
  /\ t \in Issued
  /\ <<t, s>> \in Redeemed \/ FailOpen
  /\ Cleared' = Cleared \cup {<<t, s>>}
  /\ Issued' = Issued /\ Redeemed' = Redeemed

SeesNothing == Issued' = Issued /\ Redeemed' = Redeemed /\ Cleared' = Cleared

\* Redemption sees a handler step as a redemption, as a clearance or not at all.
LEMMA HandlerSeen ==
  ASSUME HInv, NEW s \in Submission, Handler(s)
  PROVE  \/ SeesNothing
         \/ \E t \in Token : Hands(t) \/ Redeems(t, s) \/ Clears(t, s)
<1> DEFINE t == sub[s].tok
<1>1. TypeOK
  BY DEF HInv, IndInv
<1>2. sub[s] \in SubRecord /\ sub[s].inst \in Instance
  BY <1>1, HandlerStep DEF SubRecord
<1>3. s \in Sent /\ t \in Token
  BY <1>1, OthersSeen
<1>4. Sound(sub[s])
  BY <1>3 DEF HInv, History
<1>5. t \in Issued
  BY <1>3 DEF HInv, IndInv, DeadlineSet, Issued
<1>6. CASE VerifyHTTP(s) \/ CheckboxHTTP(s) \/ CaptchaHTTP(s)
  <2>1. sub[s].pc = "decode" /\ (ts' = ts \/ RenderCaptcha(sub[s].inst))
    BY <1>6 DEF VerifyHTTP, CheckboxHTTP, CaptchaHTTP
  <2>2. \/ \E pc \in {"fail", "mark", "clear"} : Goto(s, pc)
        \/ \E out \in {"badRequest", "expired"} : Answer(s, out)
    BY <1>6 DEF VerifyHTTP, CheckboxHTTP, CaptchaHTTP
  <2>3. sub'[s].marked = sub[s].marked
    BY <1>1, <1>2, <2>2, Assigned
  <2>4. sub[s].out # "cleared" /\ sub'[s].out # "cleared"
    BY <1>1, <1>2, <1>4, <2>1, <2>2, Assigned DEF Sound
  <2>5. Redeemed' = Redeemed /\ Cleared' = Cleared
    BY <1>1, <2>3, <2>4, OthersSeen
  <2>6. QED
    BY <1>1, <1>2, <2>1, <2>5, RenderIssues DEF SeesNothing, Hands
<1>7. CASE MarkAnswered(s)
  <2>1. /\ sub[s].pc = "mark" /\ ts' = ts /\ RedisReachable(s)
        /\ sub[s].marked = "no" /\ sub[s].out = "none"
    BY <1>4, <1>7 DEF MarkAnswered, Sound
  <2>2. Issued' = Issued
    BY <2>1 DEF Issued
  <2>3. CASE IsUsed(Nonce(t))
    <3>1. Answer(s, "replay")
      BY <1>7, <2>3 DEF MarkAnswered
    <3>2. sub'[s].marked = "no" /\ sub'[s].out = "replay"
      BY <1>1, <1>2, <2>1, <3>1, Assigned
    <3>3. Redeemed' = Redeemed /\ Cleared' = Cleared
      BY <1>1, <2>1, <3>2, OthersSeen
    <3>4. QED
      BY <2>2, <3>3 DEF SeesNothing
  <2>4. CASE ~IsUsed(Nonce(t))
    <3>1. PassMark(s, "redis")
      BY <1>7, <2>4 DEF MarkAnswered
    <3>2. sub'[s].marked = "redis" /\ sub'[s].out = "none"
      BY <1>1, <1>2, <2>1, <3>1, Assigned
    <3>3. Redeemed' = Redeemed \cup {<<t, s>>} /\ Cleared' = Cleared
      BY <1>1, <2>1, <3>2, OthersSeen
    <3>4. \A q \in Confirmed : sub[q].tok # t
      BY <1>2, <2>1, <2>4, MarkerIsSeen DEF HInv
    <3>5. \A q \in Submission : <<t, q>> \notin Redeemed
      BY <3>4 DEF Redeemed
    <3>6. QED
      BY <1>3, <1>5, <2>2, <3>3, <3>5 DEF Redeems
  <2>5. QED
    BY <2>3, <2>4
<1>8. CASE MarkFailed(s)
  <2>1. /\ sub[s].pc = "mark" /\ ts' = ts
        /\ sub[s].marked = "no" /\ sub[s].out = "none"
    BY <1>4, <1>8 DEF MarkFailed, Sound
  <2>2. PassMark(s, "error") \/ Answer(s, "replay")
    BY <1>8 DEF MarkFailed
  <2>3. sub'[s].marked # "redis" /\ sub'[s].out # "cleared"
    BY <1>1, <1>2, <2>1, <2>2, Assigned
  <2>4. Redeemed' = Redeemed /\ Cleared' = Cleared
    BY <1>1, <2>1, <2>3, OthersSeen
  <2>5. QED
    BY <2>1, <2>4 DEF SeesNothing, Issued
<1>9. CASE NoteFail(s)
  <2>1. sub[s].pc = "fail" /\ (ts' = ts \/ RenderCaptcha(sub[s].inst))
    BY <1>9 DEF NoteFail
  <2>2. /\ sub'[s].marked = sub[s].marked
        /\ sub[s].out # "cleared" /\ sub'[s].out # "cleared"
    BY <1>1, <1>2, <1>4, <1>9, <2>1, Assigned DEF Sound
  <2>3. Redeemed' = Redeemed /\ Cleared' = Cleared
    BY <1>1, <2>2, OthersSeen
  <2>4. QED
    BY <1>1, <1>2, <2>1, <2>3, RenderIssues DEF SeesNothing, Hands
<1>10. CASE IssueClearance(s)
  <2>1. sub[s].pc = "clear" /\ Answer(s, "cleared") /\ ts' = ts
    BY <1>10 DEF IssueClearance
  <2>2. /\ sub'[s].marked = sub[s].marked
        /\ sub[s].out = "none" /\ sub'[s].out = "cleared"
    BY <1>1, <1>2, <1>4, <2>1, Assigned DEF Sound
  <2>3. Issued' = Issued /\ Redeemed' = Redeemed
    BY <1>1, <2>1, <2>2, OthersSeen DEF Issued
  <2>4. CASE sub[s].route = "captcha"
    <3>1. Cleared' = Cleared
      BY <1>1, <2>4, OthersSeen
    <3>2. QED
      BY <2>3, <3>1 DEF SeesNothing
  <2>5. CASE sub[s].route # "captcha"
    <3>1. Cleared' = Cleared \cup {<<t, s>>}
      BY <1>1, <2>2, <2>5, OthersSeen
    <3>2. sub[s].marked = "redis" \/ FailOpen
      BY <1>2, <1>4, <2>1, <2>5 DEF Sound, Solved, SubRecord
    <3>3. sub[s].marked = "redis" => <<t, s>> \in Redeemed
      BY <1>3 DEF Redeemed, Confirmed
    <3>4. QED
      BY <1>3, <1>5, <2>3, <3>1, <3>2, <3>3 DEF Clears
  <2>6. QED
    BY <2>4, <2>5
<1>11. QED
  BY <1>6, <1>7, <1>8, <1>9, <1>10 DEF Handler

\* Redemption sees the other steps as a token handed out, or not at all.
LEMMA EnvironmentSeen ==
  ASSUME HInv,
         \/ Tick
         \/ \E i \in Instance, t \in Token : IssueToken(i, t)
         \/ \E s \in Submission, i \in Instance, r \in Routes, t \in Token, a \in IP :
               \E ans \in AnswersAt(r) : Arrive(s, i, r, t, a, ans)
         \/ UNCHANGED vars
  PROVE  SeesNothing \/ \E t \in Token : Hands(t)
<1>1. TypeOK
  BY DEF HInv, IndInv
<1>2. CASE Tick \/ UNCHANGED vars
  BY <1>2 DEF Tick, vars, SeesNothing, Issued, Redeemed, Cleared, Confirmed, Sent
<1>3. ASSUME NEW i \in Instance, NEW t \in Token, IssueToken(i, t)
      PROVE  Hands(t)
  <2>1. ts[t] = NotIssued /\ ts' = [ts EXCEPT ![t] = Now(i)] /\ sub' = sub
    BY <1>3 DEF IssueToken
  <2>2. Redeemed' = Redeemed /\ Cleared' = Cleared
    BY <2>1 DEF Redeemed, Cleared, Confirmed, Sent
  <2>3. Now(i) # NotIssued
    BY <1>1, Times DEF Now, NotIssued, TypeOK
  <2>4. \A u \in Token : ts'[u] = IF u = t THEN Now(i) ELSE ts[u]
    BY <1>1, <2>1 DEF TypeOK
  <2>5. t \notin Issued /\ Issued' = Issued \cup {t}
    BY <2>1, <2>3, <2>4 DEF Issued
  <2>6. QED
    BY <2>2, <2>5 DEF Hands
<1>4. ASSUME NEW s \in Submission, NEW i \in Instance, NEW r \in Routes,
             NEW t \in Token, NEW a \in IP, NEW ans \in AnswersAt(r),
             Arrive(s, i, r, t, a, ans)
      PROVE  SeesNothing
  <2>1. /\ sub[s] = Unsent /\ ts' = ts
        /\ \A q \in Submission : q # s => sub'[q] = sub[q]
        /\ sub'[s].marked = "no" /\ sub'[s].out = "none"
    BY <1>1, <1>4 DEF Arrive, TypeOK
  <2>2. \A q \in Sent : q # s /\ q \in Sent' /\ sub'[q] = sub[q]
    BY <2>1 DEF Sent
  <2>3. \A q \in Sent' : q # s => q \in Sent
    BY <2>1 DEF Sent
  <2>4. Confirmed' = Confirmed /\ \A q \in Confirmed : sub'[q] = sub[q]
    BY <2>1, <2>2, <2>3 DEF Confirmed
  <2>5. Redeemed' = Redeemed
    BY <2>4 DEF Redeemed
  <2> DEFINE Won == {q \in Sent : sub[q].out = "cleared" /\ sub[q].route # "captcha"}
  <2>6. Won' = Won /\ \A q \in Won : sub'[q] = sub[q]
    BY <2>1, <2>2, <2>3
  <2>7. Cleared' = Cleared
    BY <2>6 DEF Cleared
  <2>8. QED
    BY <2>1, <2>5, <2>7 DEF SeesNothing, Issued
<1>5. QED
  BY <1>2, <1>3, <1>4

\* The endpoints that mark tokens keep the promise of Redemption: no
\* interleaving of handlers, no skew within the margin, no lost answer of Redis
\* and no mix of pages and endpoints gives a token to two requests, or a
\* clearance to a request that did not redeem it (unless the guard fails open).
THEOREM RefinesRedemption == Spec => ImplementsRedemption
<1>1. Init => R!Init
  <2>1. SUFFICES ASSUME Init PROVE R!Init
    OBVIOUS
  <2>2. Sent = {} /\ \A t \in Token : ts[t] = NotIssued
    BY <2>1 DEF Init, Sent
  <2>3. QED
    BY <2>2 DEF R!Init, Confirmed
<1>2. HInv /\ [Next]_vars => [R!Next]_(R!rvars)
  <2>1. SUFFICES ASSUME HInv, [Next]_vars PROVE [R!Next]_(R!rvars)
    OBVIOUS
  <2>2. ASSUME SeesNothing PROVE UNCHANGED R!rvars
    BY <2>2 DEF SeesNothing, R!rvars, Issued, Redeemed, Cleared
  <2>3. ASSUME NEW t \in Token, Hands(t) PROVE R!Next
    <3>1. R!Issue(t)
      BY <2>3 DEF Hands, R!Issue, Issued, Redeemed, Cleared
    <3>2. QED
      BY <3>1 DEF R!Next
  <2>4. ASSUME NEW t \in Token, NEW s \in Submission, Redeems(t, s) PROVE R!Next
    <3>1. R!Redeem(t, s)
      BY <2>4 DEF Redeems, R!Redeem, Issued, Redeemed, Cleared
    <3>2. QED
      BY <3>1 DEF R!Next
  <2>5. ASSUME NEW t \in Token, NEW s \in Submission, Clears(t, s) PROVE R!Next
    <3>1. R!Clear(t, s)
      BY <2>5 DEF Clears, R!Clear, Issued, Redeemed, Cleared
    <3>2. QED
      BY <3>1 DEF R!Next
  <2>6. \/ SeesNothing
        \/ \E t \in Token : Hands(t)
        \/ \E t \in Token, s \in Submission : Redeems(t, s) \/ Clears(t, s)
    BY <2>1, HandlerSeen, EnvironmentSeen DEF Next
  <2>7. QED
    BY <2>2, <2>3, <2>4, <2>5, <2>6
<1>3. QED
  BY <1>1, <1>2, HistoryInvariant, PTL DEF Spec, ImplementsRedemption, R!Spec
==============================================================================
