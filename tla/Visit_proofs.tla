----------------------------- MODULE Visit_proofs -----------------------------
(***************************************************************************)
(* Proofs about Visit, for any conditions, referrers, lifetimes and budget *)
(* of failures: a clearance is not taken away from a visitor whose own     *)
(* traffic is low, in any number of tabs, and the source of a visit in one *)
(* tab survives every round of challenges.                                 *)
(***************************************************************************)
EXTENDS Visit, FiniteSetTheorems, TLAPS

------------------------------------------------------------------------------
(* The verdict *)

Decisions == {"Allow", "Challenge", "TooMany", "Block"}
AllRequests == Requests(Nat, Nat, Nat)

\* The largest number, when it is known.
LEMMA LargestIs ==
  ASSUME NEW S \in SUBSET Int, NEW x \in S, \A y \in S : x >= y
  PROVE  Max(S) = x
<1>1. Max(S) \in S /\ \A y \in S : Max(S) >= y
  BY DEF Max
<1>2. Max(S) >= x /\ x >= Max(S) /\ Max(S) \in Int /\ x \in Int
  BY <1>1
<1>3. QED
  BY <1>2

\* Of the subsets of a finite set that are in B one has no smaller one in B.
LEMMA Smallest ==
  ASSUME NEW S, IsFiniteSet(S), NEW B, B \subseteq SUBSET S, B # {}
  PROVE  \E T \in B : \A U \in SUBSET T : U # T => U \notin B
<1>1. IsWellFoundedOn(StrictSubsetOrdering(S), SUBSET S)
  BY FS_StrictSubsetOrderingWellFounded, FS_FiniteSubsetsOfFinite
<1>2. PICK T \in B : \A U \in B : <<U, T>> \notin StrictSubsetOrdering(S)
  BY <1>1, WFMin
<1>3. ASSUME NEW U \in SUBSET T, U # T, U \in B PROVE FALSE
  <2>1. <<U, T>> \in (SUBSET S) \X (SUBSET S)
    BY <1>3
  <2>2. <<U, T>> \in StrictSubsetOrdering(S)
    BY <1>3, <2>1 DEF StrictSubsetOrdering
  <2>3. QED
    BY <1>2, <1>3, <2>2
<1>4. QED
  BY <1>2, <1>3

\* One of finitely many dimensions has the largest rate.
LEMMA SomeLargest ==
  ASSUME NEW f \in [Dimension -> Nat], Dimension # {}
  PROVE  \E d \in Dimension : \A e \in Dimension : f[e] =< f[d]
<1> DEFINE B == {T \in SUBSET Dimension :
                   T # {} /\ ~ \E d \in T : \A e \in T : f[e] =< f[d]}
<1>1. SUFFICES ASSUME B # {} PROVE FALSE
  <2>1. CASE B = {}
    <3>1. Dimension \in SUBSET Dimension /\ Dimension \notin B
      BY <2>1
    <3>2. QED
      BY <3>1
  <2>2. QED
    BY <2>1
<1>2. PICK T \in B : \A U \in SUBSET T : U # T => U \notin B
  <2>1. B \subseteq SUBSET Dimension
    OBVIOUS
  <2> HIDE DEF B
  <2>2. QED
    BY <1>1, <2>1, Smallest, DimensionAssumption
<1>3. PICK x \in T : TRUE
  OBVIOUS
<1>4. T \in SUBSET Dimension /\ T \ {x} \in SUBSET T /\ T \ {x} # T
  BY <1>3
<1>5. T \ {x} # {}
  <2>1. \A e \in T : f[e] \in Nat
    BY <1>4
  <2>2. CASE T = {x}
    BY <1>3, <2>1, <2>2
  <2>3. QED
    BY <1>3, <2>2
<1>6. T \ {x} \notin B
  BY <1>2, <1>4
<1>7. PICK d \in T \ {x} : \A e \in T \ {x} : f[e] =< f[d]
  BY <1>4, <1>5, <1>6
<1>8. f[x] \in Nat /\ \A e \in T : f[e] \in Nat
  BY <1>4
<1>9. CASE f[x] =< f[d]
  BY <1>4, <1>7, <1>8, <1>9
<1>10. CASE f[d] =< f[x]
  <2>1. \A e \in T : f[e] =< f[x]
    BY <1>7, <1>8, <1>10
  <2>2. QED
    BY <2>1
<1>11. QED
  BY <1>7, <1>8, <1>9, <1>10

\* A worst dimension of the visitor's own scores as much as all of them.
LEMMA OwnWorstIsScore ==
  ASSUME NEW r \in AllRequests, NEW worst \in Worsts(r), worst \notin SharedDim
  PROVE  PersonalScore(r) = Score(r) /\ Score(r) \in Int
<1> DEFINE m == IF r.cleared THEN 1 ELSE ClearanceMult
           own == Dimension \ SharedDim
           S(D) == {0} \cup {RateScore(r, d) : d \in D}
<1>1. /\ r.ratio \in [Dimension -> Nat] /\ m \in Nat
      /\ \A d : RateScore(r, d) = r.ratio[d] * m
  BY ScoreAssumption DEF AllRequests, Requests, RateScore
<1>2. ASSUME NEW d \in Dimension, NEW e \in Dimension, r.ratio[e] =< r.ratio[d]
      PROVE  /\ RateScore(r, d) \in Nat /\ RateScore(r, e) \in Nat
             /\ RateScore(r, d) >= RateScore(r, e)
  <2> DEFINE a == r.ratio[e]
             b == r.ratio[d]
             c == b - a
  <2>1. a \in Nat /\ c \in Nat /\ b = a + c
    BY <1>1, <1>2
  <2>2. RateScore(r, d) = b * m /\ RateScore(r, e) = a * m
    BY <1>1
  <2> HIDE DEF a, b, c, m
  <2>3. b * m = a * m + c * m /\ a * m \in Nat /\ c * m \in Nat
    BY <1>1, <2>1
  <2>4. QED
    BY <2>2, <2>3
<1>3. PersonalScore(r) = Max(S(own)) + Extra(r) /\ Score(r) = Max(S(Dimension)) + Extra(r)
  BY DEF PersonalScore, Score
<1>0. Extra(r) \in Int
  BY ScoreAssumption DEF Extra, EmptyUA, Mismatch, AllRequests, Requests
<1> SUFFICES Max(S(own)) = Max(S(Dimension)) /\ Max(S(Dimension)) \in Int
  <2> HIDE DEF S, own
  <2>1. QED
    BY <1>0, <1>3
<1>4. CASE WorstDimensions(r) # {}
  <2>1. worst \in own /\ \A e \in Dimension : r.ratio[e] =< r.ratio[worst]
    BY <1>4 DEF Worsts, WorstDimensions
  <2>2. /\ RateScore(r, worst) \in Nat
        /\ \A e \in Dimension : RateScore(r, e) \in Nat /\ RateScore(r, worst) >= RateScore(r, e)
    BY <1>2, <2>1
  <2>3. /\ S(own) \in SUBSET Int /\ S(Dimension) \in SUBSET Int
        /\ RateScore(r, worst) \in S(own) /\ RateScore(r, worst) \in S(Dimension)
        /\ \A y \in S(own) : RateScore(r, worst) >= y
        /\ \A y \in S(Dimension) : RateScore(r, worst) >= y
    BY <2>1, <2>2
  <2> HIDE DEF S
  <2>4. Max(S(own)) = RateScore(r, worst) /\ Max(S(Dimension)) = RateScore(r, worst)
    BY <2>3, LargestIs
  <2>5. QED
    BY <2>2, <2>4
<1>5. CASE WorstDimensions(r) = {}
  <2>1. ASSUME NEW d \in Dimension PROVE RateScore(r, d) = 0
    <3>1. PICK w \in Dimension : \A e \in Dimension : r.ratio[e] =< r.ratio[w]
      BY <1>1, SomeLargest
    <3>2. ~(r.ratio[w] > 0)
      BY <1>5, <3>1 DEF WorstDimensions
    <3>3. r.ratio[d] = 0
      BY <1>1, <3>1, <3>2
    <3>4. 0 * m = 0
      BY <1>1
    <3>5. QED
      BY <1>1, <3>3, <3>4
  <2>2. S(own) = {0} /\ S(Dimension) = {0}
    BY <2>1
  <2>3. Max({0}) = 0
    BY LargestIs
  <2>4. QED
    BY <2>2, <2>3
<1>6. QED
  BY <1>4, <1>5

\* Evaluate gives the four decisions and no other; "cleared_abuse" is one of the
\* thresholds.
LEMMA VerdictCases ==
  ASSUME NEW r \in AllRequests, NEW v \in Evaluate(r)
  PROVE  /\ v.decision \in Decisions
         /\ v.class = "cleared_abuse" => \E worst \in Worsts(r) : v = Threshold(r, worst)
<1> DEFINE late == AtLeast(Score(r), ChallengeAt)
           foreign == ActionToDecision(IF r.onMismatch = "allow" THEN "challenge"
                                       ELSE r.onMismatch)
           match == ActionToDecision(r.onMatch)
<1>1. r.kind \in Kinds
  BY DEF AllRequests, Requests
<1>2. foreign \in Decisions /\ match \in Decisions
  BY DEF ActionToDecision, Decisions
<1> HIDE DEF late, foreign, match
<1>3. ASSUME NEW d \in Decisions, NEW c, c # "cleared_abuse", NEW s, v = Verdict(d, c, "", s)
      PROVE  v.decision \in Decisions /\ v.class # "cleared_abuse"
  BY <1>3 DEF Verdict
<1>4. CASE ~(r.asn = "blocked" \/ UsedUp(r)) /\ r.kind \in Counted
  <2>1. v \in EvaluateCounted(r)
    BY <1>4 DEF Evaluate, Counted
  <2>2. \/ v = Verdict("Allow", "store_error", "", 0)
        \/ v = Verdict("TooMany", "store_error", "", 0)
        \/ v = Verdict("Challenge", "asn_always_challenge", "", late)
        \/ v = Verdict("Challenge", "hosting_browser", "", late)
        \/ \E worst \in Worsts(r) : v = Threshold(r, worst)
    BY <2>1 DEF EvaluateCounted, late
  <2>3. ASSUME NEW worst \in Worsts(r), v = Threshold(r, worst) PROVE v.decision \in Decisions
    BY <2>3 DEF Threshold, Verdict, Decisions
  <2>4. QED
    BY <1>3, <2>2, <2>3 DEF Decisions
<1>5. CASE r.asn = "blocked" \/ UsedUp(r) \/ r.kind \notin Counted
  <2>1. \/ v = Verdict("Block", "blocked_asn", "", RefusalScore)
        \/ v = Verdict("Block", "challenge_failures", "", RefusalScore)
        \/ v = EvaluateKnownBot(r)
        \/ v = Verdict("Block", "seo_blacklist", "", RefusalScore)
        \/ v = Verdict("Challenge", "tool_agent", "", ChallengeAt)
        \/ v = Verdict("Allow", "ai_crawler_allow", "", 0)
        \/ v = Verdict("Allow", "unknown_bot_allow", "", 0)
    BY <1>1, <1>5 DEF Evaluate, Kinds, Counted
  <2>2. \/ EvaluateKnownBot(r) = Verdict(foreign, "fake_bot", "", ChallengeAt)
        \/ EvaluateKnownBot(r) = Verdict("TooMany", "bot_flood", "", 0)
        \/ EvaluateKnownBot(r) = Verdict(match, "bot_match", "", 0)
    BY DEF EvaluateKnownBot, foreign, match
  <2>3. QED
    BY <1>2, <1>3, <2>1, <2>2 DEF Decisions
<1>6. QED
  BY <1>4, <1>5

\* A challenge that revokes the clearance is one for the visitor's own traffic.
LEMMA RevokedForOwnTraffic ==
  ASSUME NEW r \in AllRequests, NEW v \in Evaluate(r), Revokes(r, v)
  PROVE  PersonalScore(r) >= AbuseAt /\ PersonalScore(r) \in Int
<1>1. PICK worst \in Worsts(r) : v = Threshold(r, worst)
  BY VerdictCases DEF Revokes
<1>2. v.class = "cleared_abuse"
  BY DEF Revokes
<1>3. worst \notin SharedDim /\ Score(r) >= AbuseAt
  BY <1>1, <1>2 DEF Threshold, Verdict
<1>4. QED
  BY <1>3, OwnWorstIsScore

------------------------------------------------------------------------------
(* Types *)

\* The smaller of two times is a time.
LEMMA SmallerOf ==
  ASSUME NEW a \in Nat, NEW b \in Nat
  PROVE  Min({a, b}) \in Nat
<1>1. \E x \in {a, b} : \A y \in {a, b} : x =< y
  OBVIOUS
<1>2. QED
  BY <1>1 DEF Min

\* What a browser sends and what it stores are cookies.
LEMMA CookieTypes ==
  ASSUME TypeOK, NEW c \in Jars
  PROVE  /\ Live(c) \in Jars
         /\ \A r \in Responses : Stored(r) \in Jars
<1>1. NoStash \in [ref : Referer, until : Nat]
  BY RefererAssumption DEF NoStash, Referer
<1>2. Live(c) \in Jars
  BY <1>1 DEF Live, Jars
<1>3. ASSUME NEW r \in Responses PROVE Stored(r) \in Jars
  <2>1. clock + TokenTTL \in Nat /\ jar \in Jars
    BY TTLAssumption DEF TypeOK
  <2>2. r.seen \in Referer /\ r.set \in {"keep", "save", "clear"}
    BY DEF Responses
  <2> DEFINE st == CASE r.set = "keep"  -> jar.stash
                     [] r.set = "save"  -> [ref |-> r.seen, until |-> clock + TokenTTL]
                     [] r.set = "clear" -> NoStash
             pa == IF r.revoke THEN 0 ELSE jar.pass
  <2>3. st \in [ref : Referer, until : Nat]
    BY <1>1, <2>1, <2>2 DEF Jars
  <2>4. pa \in Nat
    BY <2>1 DEF Jars
  <2>5. Stored(r) = [pass |-> pa, stash |-> st]
    BY DEF Stored
  <2> HIDE DEF st, pa
  <2>6. QED
    BY <2>3, <2>4, <2>5 DEF Jars
<1>4. QED
  BY <1>2, <1>3

\* What Evaluate is asked about is a request, and the answer to it a response.
LEMMA ServeTypes ==
  ASSUME TypeOK, NEW t \in Tab, NEW c \in Conditions, NEW v \in Evaluate(Seen(t, c))
  PROVE  /\ Seen(t, c) \in AllRequests
         /\ v.decision \in Decisions
         /\ Response(t, Seen(t, c), v) \in Responses
<1>1. Seen(t, c) \in AllRequests
  <2> DEFINE cl == tab[t].sent.pass > clock
             fa == IF clock < fails.until THEN fails.n ELSE 0
  <2>1. cl \in BOOLEAN /\ fa \in Nat
    BY DEF TypeOK
  <2>2. c \in AllRequests
    BY ConditionAssumption DEF AllRequests
  <2>3. Seen(t, c) = [c EXCEPT !.cleared = cl, !.fails = fa]
    BY DEF Seen
  <2> HIDE DEF cl, fa
  <2>4. QED
    BY <2>1, <2>2, <2>3 DEF AllRequests, Requests
<1>2. v.decision \in Decisions
  BY <1>1, VerdictCases
<1>3. tab[t] \in Tabs /\ tab[t].sent \in Jars /\ tab[t].sent.stash \in [ref : Referer, until : Nat]
      /\ tab[t].ref \in Referer /\ tab[t].sent.stash.ref \in Referer /\ Direct \in Referer
  BY RefererAssumption DEF TypeOK, Tabs, Jars, Referer
<1>4. Challenged(t, Seen(t, c), v) \in Responses
  <2>1. Revokes(Seen(t, c), v) \in BOOLEAN
    BY DEF Revokes
  <2>2. QED
    BY <1>3, <2>1 DEF Challenged, Responses
<1>5. Passed(t) \in Responses
  BY <1>3 DEF Passed, Responses
<1>6. NoResponse \in Responses
  BY <1>3 DEF NoResponse, Responses
<1>7. [NoResponse EXCEPT !.page = "redirect"] \in Responses
  BY <1>3 DEF NoResponse, Responses
<1>8. Response(t, Seen(t, c), v) \in Responses
  BY <1>2, <1>4, <1>5, <1>6, <1>7 DEF Response, Decisions
<1>9. QED
  BY <1>1, <1>2, <1>8

\* A request that is served.
LEMMA ServeStep ==
  ASSUME TypeOK, NEW t \in Tab, Serve(t)
  PROVE  \E c \in Conditions : \E v \in Evaluate(Seen(t, c)) :
           tab' = [tab EXCEPT ![t].pc = "reply", ![t].issued = clock,
                     ![t].since = IF v.decision = "Challenge" /\ tab[t].since = Never
                                  THEN clock ELSE tab[t].since,
                     ![t].resp = Response(t, Seen(t, c), v)]
BY Zenon DEF Serve

\* Requesting keeps the types.
LEMMA RequestTypes ==
  ASSUME TypeOK, NEW t \in Tab, NEW r \in Tabs, NEW ref \in Referer, NEW cookies \in Jars,
         Request(t, r, ref, cookies)
  PROVE  tab' \in [Tab -> Tabs]
<1>1. [r EXCEPT !.pc = "sent", !.ref = ref, !.sent = cookies] \in Tabs
  BY DEF Tabs
<1>2. QED
  BY <1>1 DEF Request, TypeOK

\* The values the state starts with have their types.
LEMMA StartTypes ==
  /\ NoStash \in [ref : Referer, until : Nat]
  /\ [pass |-> 0, stash |-> NoStash] \in Jars
  /\ Own \in Referer /\ Direct \in Referer /\ Source \subseteq Referer
  /\ NoResponse \in Responses
  /\ Closed \in Tabs
<1>1. Own \in Referer /\ Direct \in Referer /\ Source \subseteq Referer
  BY RefererAssumption DEF Referer
<1>2. NoStash \in [ref : Referer, until : Nat]
  BY <1>1 DEF NoStash
<1>3. [pass |-> 0, stash |-> NoStash] \in Jars
  BY <1>2 DEF Jars
<1>4. NoResponse \in Responses
  BY <1>1 DEF NoResponse, Responses
<1>5. Closed \in Tabs
  BY <1>1, <1>3, <1>4 DEF Closed, Tabs
<1>6. QED
  BY <1>1, <1>2, <1>3, <1>4, <1>5

\* The types hold at the start ...
LEMMA TypeInit == Init => TypeOK
BY StartTypes DEF Init, TypeOK

\* ... and every step keeps them.
LEMMA TypeStep == TypeOK /\ [Next]_vvars => TypeOK'
<1> SUFFICES ASSUME TypeOK, [Next]_vvars PROVE TypeOK'
  OBVIOUS
<1> USE StartTypes
<1>1. CASE Tick
  BY <1>1 DEF Tick, TypeOK
<1>2. ASSUME NEW t \in Tab, NEW src \in Source, Open(t, src) PROVE TypeOK'
  <2>1. [Closed EXCEPT !.src = src] \in Tabs /\ src \in Referer /\ Live(jar) \in Jars
    BY CookieTypes DEF Tabs, TypeOK
  <2>2. tab' \in [Tab -> Tabs]
    BY <1>2, <2>1, RequestTypes DEF Open
  <2>3. QED
    BY <1>2, <2>2 DEF Open, TypeOK
<1>3. ASSUME NEW t \in Tab, Browse(t) PROVE TypeOK'
  <2>1. tab[t].retried \in BOOLEAN /\ Live(jar) \in Jars
    BY CookieTypes DEF Tabs, TypeOK
  <2>2. [Closed EXCEPT !.src = Own, !.retried = tab[t].retried] \in Tabs
    BY <2>1 DEF Tabs
  <2>3. tab' \in [Tab -> Tabs]
    BY <1>3, <2>1, <2>2, RequestTypes DEF Browse
  <2>4. QED
    BY <1>3, <2>3 DEF Browse, TypeOK
<1>4. ASSUME NEW t \in Tab, Serve(t) PROVE TypeOK'
  <2>1. PICK c \in Conditions : \E v \in Evaluate(Seen(t, c)) :
           tab' = [tab EXCEPT ![t].pc = "reply", ![t].issued = clock,
                     ![t].since = IF v.decision = "Challenge" /\ tab[t].since = Never
                                  THEN clock ELSE tab[t].since,
                     ![t].resp = Response(t, Seen(t, c), v)]
    BY <1>4, ServeStep
  <2>0. PICK v \in Evaluate(Seen(t, c)) :
           tab' = [tab EXCEPT ![t].pc = "reply", ![t].issued = clock,
                     ![t].since = IF v.decision = "Challenge" /\ tab[t].since = Never
                                  THEN clock ELSE tab[t].since,
                     ![t].resp = Response(t, Seen(t, c), v)]
    BY <2>1
  <2> DEFINE since == IF v.decision = "Challenge" /\ tab[t].since = Never THEN clock
                      ELSE tab[t].since
             resp == Response(t, Seen(t, c), v)
  <2>2. resp \in Responses
    BY ServeTypes
  <2>3. since \in Nat \cup {Never} /\ clock \in Nat /\ tab[t] \in Tabs
    BY DEF TypeOK, Tabs
  <2>4. tab' = [tab EXCEPT ![t].pc = "reply", ![t].issued = clock, ![t].since = since,
                           ![t].resp = resp]
    BY <2>0, Zenon
  <2> HIDE DEF since, resp
  <2>5. [tab[t] EXCEPT !.pc = "reply", !.issued = clock, !.since = since, !.resp = resp] \in Tabs
    BY <2>2, <2>3 DEF Tabs
  <2>6. tab' \in [Tab -> Tabs]
    BY <2>4, <2>5 DEF TypeOK
  <2>7. QED
    BY <1>4, <2>6 DEF Serve, TypeOK
<1>5. ASSUME NEW t \in Tab, Receive(t) PROVE TypeOK'
  <2> DEFINE resp == tab[t].resp
  <2>1. /\ tab[t] \in Tabs /\ resp \in Responses /\ Stored(resp) \in Jars
        /\ tab[t].ref \in Referer
    BY CookieTypes DEF TypeOK, Tabs
  <2>2. Live(Stored(resp)) \in Jars
    BY <2>1, CookieTypes
  <2>3. tab' \in [Tab -> Tabs]
    <3>1. CASE resp.page = "redirect"
      <4>1. [tab[t] EXCEPT !.param = TRUE] \in Tabs
        BY <2>1 DEF Tabs
      <4>2. Request(t, [tab[t] EXCEPT !.param = TRUE], tab[t].ref, Live(Stored(resp)))
        BY <1>5, <3>1 DEF Receive
      <4>3. QED
        BY <2>1, <2>2, <4>1, <4>2, RequestTypes
    <3>2. CASE resp.page # "redirect"
      <4> DEFINE pc == IF resp.page = "app" THEN "landed" ELSE resp.page
      <4>1. pc \in {"landed", "challenge", "captcha", "denied"} /\ resp.seen \in Referer
            /\ resp.shim \in BOOLEAN
        BY <2>1, <3>2 DEF Responses
      <4>2. tab' = [tab EXCEPT ![t].pc = pc, ![t].seen = resp.seen, ![t].shim = resp.shim]
        BY <1>5, <3>2 DEF Receive
      <4> HIDE DEF pc, resp
      <4>3. [tab[t] EXCEPT !.pc = pc, !.seen = resp.seen, !.shim = resp.shim] \in Tabs
        BY <2>1, <4>1 DEF Tabs
      <4>4. QED
        BY <4>2, <4>3 DEF TypeOK
    <3>3. QED
      BY <3>1, <3>2
  <2>4. QED
    BY <1>5, <2>1, <2>3 DEF Receive, TypeOK
<1>6. ASSUME NEW t \in Tab, Solve(t) PROVE TypeOK'
  <2>1. clock + ClearanceTTL \in Nat /\ tab[t] \in Tabs
    BY TTLAssumption DEF TypeOK
  <2>2. jar' \in Jars /\ clock' = clock
    BY <1>6, <2>1 DEF Solve, TypeOK, Jars
  <2> DEFINE cookies == Live(jar')
  <2>3. cookies \in Jars
    BY <2>2, CookieTypes
  <2>4. tab' = [tab EXCEPT ![t].pc = "sent", ![t].retried = FALSE, ![t].ref = Own,
                           ![t].sent = cookies]
    BY <1>6 DEF Solve
  <2> HIDE DEF cookies
  <2>5. [tab[t] EXCEPT !.pc = "sent", !.retried = FALSE, !.ref = Own, !.sent = cookies] \in Tabs
    BY <2>1, <2>3 DEF Tabs
  <2>6. tab' \in [Tab -> Tabs]
    BY <2>4, <2>5 DEF TypeOK
  <2>7. QED
    BY <1>6, <2>2, <2>6 DEF Solve, TypeOK
<1>7. ASSUME NEW t \in Tab, \/ tab[t].pc = "challenge" /\ Refused(t)
                            \/ tab[t].pc = "captcha" /\ tab' = [tab EXCEPT ![t].issued = clock]
      PROVE  tab' \in [Tab -> Tabs]
  <2>1. tab[t] \in Tabs /\ Live(jar) \in Jars /\ clock \in Nat
    BY CookieTypes DEF TypeOK
  <2>2. /\ [tab[t] EXCEPT !.retried = TRUE] \in Tabs
        /\ [tab[t] EXCEPT !.pc = "failed"] \in Tabs
        /\ [tab[t] EXCEPT !.issued = clock] \in Tabs
    BY <2>1 DEF Tabs
  <2>3. CASE Refused(t)
    BY <2>1, <2>2, <2>3, RequestTypes DEF Refused, Reload, TypeOK
  <2>4. CASE tab' = [tab EXCEPT ![t].issued = clock]
    BY <2>2, <2>4 DEF TypeOK
  <2>5. QED
    BY <1>7, <2>3, <2>4
<1>8. ASSUME NEW t \in Tab, AnswerLate(t) PROVE TypeOK'
  BY <1>7, <1>8 DEF AnswerLate, TypeOK
<1>9. ASSUME NEW t \in Tab, AnswerWrong(t) PROVE TypeOK'
  <2>1. fails' \in [n : Nat, until : Nat]
    <3>1. fails.n + 1 \in Nat /\ FailBudget + 1 \in Nat /\ clock + FailTTL \in Nat
      BY ScoreAssumption, TTLAssumption DEF TypeOK
    <3>2. Min({fails.n + 1, FailBudget + 1}) \in Nat
      BY <3>1, SmallerOf
    <3>3. QED
      BY <1>9, <3>1, <3>2 DEF AnswerWrong, CountFail
  <2>2. QED
    BY <1>7, <1>9, <2>1 DEF AnswerWrong, TypeOK
<1>10. ASSUME NEW t \in Tab, TryAgain(t) PROVE TypeOK'
  <2> DEFINE src == IF tab[t].since = Never THEN Own ELSE tab[t].src
  <2>1. tab[t] \in Tabs /\ Live(jar) \in Jars /\ src \in Referer
    BY CookieTypes DEF TypeOK, Tabs
  <2>2. Reload(t, [tab[t] EXCEPT !.retried = FALSE, !.src = src])
    BY <1>10 DEF TryAgain
  <2> HIDE DEF src
  <2>3. [tab[t] EXCEPT !.retried = FALSE, !.src = src] \in Tabs
    BY <2>1 DEF Tabs
  <2>4. tab' \in [Tab -> Tabs]
    BY <2>1, <2>2, <2>3, RequestTypes DEF Reload
  <2>5. QED
    BY <1>10, <2>4 DEF TryAgain, TypeOK
<1>11. CASE UNCHANGED vvars
  BY <1>11 DEF vvars, TypeOK
<1>12. QED
  BY <1>1, <1>2, <1>3, <1>4, <1>5, <1>6, <1>8, <1>9, <1>10, <1>11 DEF Next

\* Cookies, tabs and counters are always what they are meant to be: in
\* particular every response is one the browser knows how to take.
THEOREM TypeCorrect == Spec => []TypeOK
BY TypeInit, TypeStep, PTL DEF Spec

------------------------------------------------------------------------------
(* A clearance is kept *)

PassInv ==
  /\ TypeOK
  /\ jar.pass =< clock + ClearanceTTL
  /\ OwnTrafficLow => \A t \in Tab : ~tab[t].resp.revoke

\* A challenge of a visitor whose own traffic is low revokes nothing.
LEMMA LowTrafficKeepsPass ==
  ASSUME TypeOK, OwnTrafficLow, NEW t \in Tab, NEW c \in Conditions,
         NEW v \in Evaluate(Seen(t, c))
  PROVE  ~Response(t, Seen(t, c), v).revoke
<1> DEFINE r == Seen(t, c)
           cleared == [c EXCEPT !.cleared = TRUE]
<1>1. r \in AllRequests /\ v.decision \in Decisions
  BY ServeTypes
<1>2. c \in AllRequests
  BY ConditionAssumption DEF AllRequests
<1>3. ~Revokes(r, v)
  <2> SUFFICES ASSUME Revokes(r, v) PROVE FALSE
    OBVIOUS
  <2>1. PersonalScore(r) >= AbuseAt /\ PersonalScore(r) \in Int
    BY <1>1, RevokedForOwnTraffic
  <2>2. /\ r.cleared = TRUE /\ r.ratio = c.ratio /\ r.behavior = c.behavior /\ r.kind = c.kind
        /\ r.badPair = c.badPair
    <3>1. /\ r.cleared \in BOOLEAN /\ r.ratio = c.ratio /\ r.behavior = c.behavior
          /\ r.kind = c.kind /\ r.badPair = c.badPair
      BY <1>1, <1>2 DEF Seen, AllRequests, Requests
    <3>2. r.cleared
      BY DEF Revokes
    <3>3. QED
      BY <3>1, <3>2
  <2>3. /\ cleared.cleared = TRUE /\ cleared.ratio = c.ratio /\ cleared.behavior = c.behavior
        /\ cleared.kind = c.kind /\ cleared.badPair = c.badPair
    BY <1>2 DEF AllRequests, Requests
  <2> HIDE DEF r, cleared
  <2>4. Extra(r) = Extra(cleared) /\ \A d : RateScore(r, d) = RateScore(cleared, d)
    BY <2>2, <2>3 DEF Extra, EmptyUA, Mismatch, RateScore
  <2>5. PersonalScore(r) = PersonalScore(cleared)
    BY <2>4 DEF PersonalScore
  <2>6. PersonalScore(cleared) < AbuseAt
    BY DEF OwnTrafficLow, cleared
  <2>7. AbuseAt \in Int
    BY ScoreAssumption
  <2>8. QED
    BY <2>1, <2>5, <2>6, <2>7
<1>4. QED
  BY <1>1, <1>3 DEF Response, Decisions, Challenged, NoResponse, Passed

\* No clearance yet, and no response.
LEMMA PassInit == Init => PassInv
<1> SUFFICES ASSUME Init PROVE PassInv
  OBVIOUS
<1>1. TypeOK
  BY TypeInit
<1>2. jar.pass =< clock + ClearanceTTL
  BY TTLAssumption DEF Init
<1>3. \A t \in Tab : ~tab[t].resp.revoke
  BY DEF Init, Closed, NoResponse
<1>4. QED
  BY <1>1, <1>2, <1>3 DEF PassInv

\* Every step keeps the invariant about clearances.
LEMMA PassStep == PassInv /\ [Next]_vvars => PassInv'
<1> SUFFICES ASSUME PassInv, [Next]_vvars PROVE PassInv'
  OBVIOUS
<1>0. TypeOK /\ TypeOK' /\ (OwnTrafficLow' <=> OwnTrafficLow)
  BY TypeStep DEF PassInv, OwnTrafficLow
<1> USE <1>0
<1>1. /\ clock \in Nat /\ jar.pass \in Nat /\ ClearanceTTL \in Nat
      /\ jar.pass =< clock + ClearanceTTL
      /\ OwnTrafficLow => \A t \in Tab : ~tab[t].resp.revoke
      /\ \A t \in Tab : tab[t] \in Tabs
      /\ ~Closed.resp.revoke
  BY TTLAssumption DEF PassInv, TypeOK, Jars, Closed, NoResponse
\* Requesting leaves the response under way alone.
<1>2. ASSUME NEW t \in Tab, NEW r \in Tabs, NEW ref, NEW cookies,
             Request(t, r, ref, cookies), UNCHANGED clock,
             jar'.pass =< clock + ClearanceTTL, OwnTrafficLow => ~r.resp.revoke
      PROVE  PassInv'
  <2>1. OwnTrafficLow => \A u \in Tab : ~tab'[u].resp.revoke
    BY <1>1, <1>2 DEF Request, TypeOK, Tabs
  <2>2. QED
    BY <1>2, <2>1 DEF PassInv
<1>3. CASE Tick
  BY <1>1, <1>3 DEF Tick, PassInv
<1>4. ASSUME NEW t \in Tab, NEW src \in Source, Open(t, src) PROVE PassInv'
  <2>1. [Closed EXCEPT !.src = src] \in Tabs /\ ~[Closed EXCEPT !.src = src].resp.revoke
    BY <1>1, StartTypes DEF Tabs
  <2>2. QED
    BY <1>1, <1>2, <1>4, <2>1 DEF Open
<1>5. ASSUME NEW t \in Tab, Browse(t) PROVE PassInv'
  <2> DEFINE r == [Closed EXCEPT !.src = Own, !.retried = tab[t].retried]
  <2>1. r \in Tabs /\ ~r.resp.revoke
    BY <1>1, StartTypes DEF Tabs
  <2>2. Request(t, r, Own, Live(jar)) /\ UNCHANGED <<clock, jar>>
    BY <1>5 DEF Browse
  <2> HIDE DEF r
  <2>3. QED
    BY <1>1, <1>2, <2>1, <2>2
<1>6. ASSUME NEW t \in Tab, Serve(t) PROVE PassInv'
  <2>1. PICK c \in Conditions : \E v \in Evaluate(Seen(t, c)) :
           tab' = [tab EXCEPT ![t].pc = "reply", ![t].issued = clock,
                     ![t].since = IF v.decision = "Challenge" /\ tab[t].since = Never
                                  THEN clock ELSE tab[t].since,
                     ![t].resp = Response(t, Seen(t, c), v)]
    BY <1>6, ServeStep
  <2>2. PICK v \in Evaluate(Seen(t, c)) :
           tab' = [tab EXCEPT ![t].pc = "reply", ![t].issued = clock,
                     ![t].since = IF v.decision = "Challenge" /\ tab[t].since = Never
                                  THEN clock ELSE tab[t].since,
                     ![t].resp = Response(t, Seen(t, c), v)]
    BY <2>1
  <2> DEFINE since == IF v.decision = "Challenge" /\ tab[t].since = Never THEN clock
                      ELSE tab[t].since
             resp == Response(t, Seen(t, c), v)
  <2>3. OwnTrafficLow => ~resp.revoke
    BY LowTrafficKeepsPass
  <2>4. tab' = [tab EXCEPT ![t].pc = "reply", ![t].issued = clock, ![t].since = since,
                           ![t].resp = resp]
    BY <2>2, Zenon
  <2> HIDE DEF since, resp
  <2>5. OwnTrafficLow => \A u \in Tab : ~tab'[u].resp.revoke
    BY <1>1, <2>3, <2>4 DEF TypeOK, Tabs
  <2>6. QED
    BY <1>1, <1>6, <2>5 DEF Serve, PassInv
<1>7. ASSUME NEW t \in Tab, Receive(t) PROVE PassInv'
  <2> DEFINE resp == tab[t].resp
             r == [tab[t] EXCEPT !.param = TRUE]
  <2>1. jar'.pass = (IF resp.revoke THEN 0 ELSE jar.pass) /\ UNCHANGED clock
    BY <1>7 DEF Receive, Stored
  <2>2. jar'.pass =< clock + ClearanceTTL
    BY <1>1, <2>1
  <2>3. CASE resp.page = "redirect"
    <3>1. r \in Tabs /\ r.resp = resp
      BY <1>1 DEF Tabs
    <3>2. Request(t, r, tab[t].ref, Live(Stored(resp)))
      BY <1>7, <2>3 DEF Receive
    <3>3. OwnTrafficLow => ~r.resp.revoke
      BY <1>1, <3>1
    <3> HIDE DEF r
    <3>4. QED
      BY <1>2, <2>1, <2>2, <3>1, <3>2, <3>3
  <2>4. CASE resp.page # "redirect"
    <3> DEFINE pc == IF resp.page = "app" THEN "landed" ELSE resp.page
    <3>1. tab' = [tab EXCEPT ![t].pc = pc, ![t].seen = resp.seen, ![t].shim = resp.shim]
      BY <1>7, <2>4 DEF Receive
    <3> HIDE DEF pc
    <3>2. OwnTrafficLow => \A u \in Tab : ~tab'[u].resp.revoke
      BY <1>1, <3>1 DEF TypeOK, Tabs
    <3>3. QED
      BY <2>1, <2>2, <3>2 DEF PassInv
  <2>5. QED
    BY <2>3, <2>4
<1>8. ASSUME NEW t \in Tab, Solve(t) PROVE PassInv'
  <2>1. jar'.pass = clock + ClearanceTTL /\ UNCHANGED clock
    BY <1>8 DEF Solve, TypeOK, Jars
  <2> DEFINE cookies == Live(jar')
  <2>2. tab' = [tab EXCEPT ![t].pc = "sent", ![t].retried = FALSE, ![t].ref = Own,
                           ![t].sent = cookies]
    BY <1>8 DEF Solve
  <2> HIDE DEF cookies
  <2>3. OwnTrafficLow => \A u \in Tab : ~tab'[u].resp.revoke
    BY <1>1, <2>2 DEF TypeOK, Tabs
  <2>4. QED
    BY <1>1, <2>1, <2>3 DEF PassInv
<1>9. ASSUME NEW t \in Tab, UNCHANGED <<clock, jar>>,
             \/ tab[t].pc = "challenge" /\ Refused(t)
             \/ tab[t].pc = "captcha" /\ tab' = [tab EXCEPT ![t].issued = clock]
      PROVE  PassInv'
  <2>1. /\ [tab[t] EXCEPT !.retried = TRUE] \in Tabs
        /\ [tab[t] EXCEPT !.retried = TRUE].resp = tab[t].resp
    BY <1>1 DEF Tabs
  <2>2. CASE Reload(t, [tab[t] EXCEPT !.retried = TRUE])
    BY <1>1, <1>2, <1>9, <2>1, <2>2 DEF Reload
  <2>3. CASE tab' = [tab EXCEPT ![t].pc = "failed"] \/ tab' = [tab EXCEPT ![t].issued = clock]
    BY <1>1, <1>9, <2>3 DEF TypeOK, Tabs, PassInv
  <2>4. QED
    BY <1>9, <2>2, <2>3 DEF Refused
<1>10. ASSUME NEW t \in Tab, AnswerLate(t) PROVE PassInv'
  BY <1>9, <1>10 DEF AnswerLate
<1>11. ASSUME NEW t \in Tab, AnswerWrong(t) PROVE PassInv'
  BY <1>9, <1>11 DEF AnswerWrong
<1>12. ASSUME NEW t \in Tab, TryAgain(t) PROVE PassInv'
  <2> DEFINE src == IF tab[t].since = Never THEN Own ELSE tab[t].src
             r == [tab[t] EXCEPT !.retried = FALSE, !.src = src]
  <2>1. src \in Referer
    BY <1>1, StartTypes DEF Tabs
  <2>2. Reload(t, r) /\ UNCHANGED <<clock, jar>>
    BY <1>12 DEF TryAgain
  <2> HIDE DEF src
  <2>3. r \in Tabs /\ r.resp = tab[t].resp
    BY <1>1, <2>1 DEF Tabs
  <2> HIDE DEF r
  <2>4. QED
    BY <1>1, <1>2, <2>2, <2>3 DEF Reload
<1>13. CASE UNCHANGED vvars
  BY <1>1, <1>13 DEF vvars, PassInv
<1>14. QED
  BY <1>3, <1>4, <1>5, <1>6, <1>7, <1>8, <1>10, <1>11, <1>12, <1>13 DEF Next

\* Whatever the tabs do and however their requests overlap, a visitor whose own
\* traffic stays below the abuse threshold does not lose a clearance.
THEOREM PassIsKeptHolds == Spec => PassIsKept
<1>1. PassInv /\ [Next]_vvars => [OwnTrafficLow => jar'.pass >= jar.pass]_vvars
  <2> SUFFICES ASSUME PassInv, Next, OwnTrafficLow PROVE jar'.pass >= jar.pass
    BY DEF vvars
  <2>1. /\ TypeOK /\ clock \in Nat /\ jar.pass \in Nat /\ ClearanceTTL \in Nat
        /\ jar.pass =< clock + ClearanceTTL
        /\ \A t \in Tab : ~tab[t].resp.revoke
    BY TTLAssumption DEF PassInv, TypeOK, Jars
  <2>2. ASSUME NEW t \in Tab, Receive(t) PROVE jar'.pass = jar.pass
    BY <2>1, <2>2 DEF Receive, Stored
  <2>3. ASSUME NEW t \in Tab, Solve(t) PROVE jar'.pass = clock + ClearanceTTL
    BY <2>1, <2>3 DEF Solve, TypeOK, Jars
  <2>4. \/ UNCHANGED jar
        \/ \E t \in Tab : Receive(t) \/ Solve(t)
    BY DEF Next, Tick, Open, Browse, Serve, AnswerLate, AnswerWrong, TryAgain
  <2>5. QED
    BY <2>1, <2>2, <2>3, <2>4
<1>2. QED
  BY <1>1, PassInit, PassStep, PTL DEF Spec, PassIsKept

------------------------------------------------------------------------------
(* The source of a visit, in a browser with one tab: what a visit r, the     *)
(* stash in the jar and the time have to do with each other.                 *)

\* Within TokenTTL of the first challenge the stash has to be there.
Due(r, now) == r.since # Never /\ now < r.since + TokenTTL

Kept(r, stash) == stash.ref = r.src /\ stash.until >= r.since + TokenTTL

Gone(stash, now) == stash.until =< now

\* The request under way carries the stash unless it has expired.
Sent(r, stash, now) ==
  IF HasStash(r.sent) THEN r.sent.stash = stash ELSE Gone(stash, now)

\* The response under way sets the stash, keeps it, or has used it.
Reply(r, stash, now) ==
  LET resp == r.resp
  IN  /\ r.since = Never => /\ Gone(stash, now)
                            /\ resp.set = "keep"
                            /\ resp.page \in {"app", "denied"}
                            /\ resp.page = "app" => resp.seen = r.src
      /\ Due(r, now) =>
           \/ resp.page \in {"challenge", "captcha"} /\ resp.set = "save" /\ resp.seen = r.src
           \/ resp.page \in {"challenge", "captcha", "denied", "redirect"}
                /\ resp.set = "keep" /\ Kept(r, stash)
           \/ resp.page = "app" /\ resp.set = "clear" /\ resp.seen = Learnt(r)
      /\ resp.page = "redirect" => r.ref = Own
      /\ resp.page = "app" => resp.set = "clear" \/ (resp.set = "keep" /\ Gone(stash, now))

Journey(r, stash, now) ==
  /\ r.since # Never => r.since =< now
  /\ r.pc = "closed" => r.since = Never /\ Gone(stash, now)
  /\ r.pc = "sent" => /\ Sent(r, stash, now)
                      /\ r.since = Never => r.ref = r.src /\ ~HasStash(r.sent)
                      /\ r.since # Never => r.ref = Own
                      /\ Due(r, now) => Kept(r, stash)
  /\ r.pc = "reply" => Sent(r, stash, now) /\ Reply(r, stash, now)
  /\ r.pc \in {"challenge", "captcha", "failed"} =>
       r.since # Never /\ (Due(r, now) => Kept(r, stash))
  /\ r.pc = "denied" => /\ r.since = Never => Gone(stash, now)
                        /\ Due(r, now) => Kept(r, stash)
  /\ r.pc = "landed" => /\ Gone(stash, now)
                        /\ r.since = Never \/ Due(r, now) => r.seen = Learnt(r)

\* A request that is sent takes along what the jar has of the source.
LEMMA RequestJourney ==
  ASSUME TypeOK, NEW t \in Tab, NEW r \in Tabs, NEW ref, NEW c \in Jars,
         Request(t, r, ref, Live(c)), c.stash = jar'.stash, UNCHANGED clock,
         r.since # Never => r.since =< clock,
         r.since = Never => ref = r.src /\ Gone(c.stash, clock),
         r.since # Never => ref = Own,
         Due(r, clock) => Kept(r, c.stash)
  PROVE  Journey(tab'[t], jar'.stash, clock')
<1> DEFINE q == tab'[t]
           s == c.stash
           live == Live(c)
<1>1. /\ q.pc = "sent" /\ q.since = r.since /\ q.src = r.src /\ q.ref = ref /\ q.sent = live
  <2> HIDE DEF live
  <2>1. tab' = [tab EXCEPT ![t] = [r EXCEPT !.pc = "sent", !.ref = ref, !.sent = live]]
    BY DEF Request, live
  <2>2. QED
    BY <2>1 DEF TypeOK, Tabs
<1>2. clock \in Nat /\ s.until \in Nat /\ live.stash = (IF clock < s.until THEN s ELSE NoStash)
  BY DEF TypeOK, Jars, Live
<1>3. HasStash(live) <=> clock < s.until
  BY <1>2 DEF HasStash, NoStash
<1> HIDE DEF q, s, live
<1>4. s = jar'.stash /\ clock' = clock
  BY DEF s
<1>5. Gone(s, clock) <=> ~(clock < s.until)
  BY <1>2 DEF Gone
<1>6. Sent(q, s, clock)
  BY <1>1, <1>2, <1>3, <1>5 DEF Sent
<1>7. /\ q.since = Never => q.ref = q.src /\ ~HasStash(q.sent)
      /\ q.since # Never => q.ref = Own
  BY <1>1, <1>3, <1>5 DEF s
<1>8. Due(q, clock) => Kept(q, s)
  BY <1>1 DEF Due, Kept, s
<1>9. Journey(q, s, clock)
  BY <1>1, <1>6, <1>7, <1>8 DEF Journey
<1>10. QED
  BY <1>4, <1>9 DEF q

\* Serving a request of a visit whose stash is as it should be.
LEMMA ServeJourney ==
  ASSUME TypeOK, NEW t \in Tab, Serve(t), Journey(tab[t], jar.stash, clock)
  PROVE  Journey(tab'[t], jar'.stash, clock')
<1> DEFINE r == tab[t]
           s == jar.stash
           q == tab'[t]
<1>1. PICK c \in Conditions : \E v \in Evaluate(Seen(t, c)) :
           tab' = [tab EXCEPT ![t].pc = "reply", ![t].issued = clock,
                     ![t].since = IF v.decision = "Challenge" /\ tab[t].since = Never
                                  THEN clock ELSE tab[t].since,
                     ![t].resp = Response(t, Seen(t, c), v)]
  BY ServeStep
<1>2. PICK v \in Evaluate(Seen(t, c)) :
           tab' = [tab EXCEPT ![t].pc = "reply", ![t].issued = clock,
                     ![t].since = IF v.decision = "Challenge" /\ tab[t].since = Never
                                  THEN clock ELSE tab[t].since,
                     ![t].resp = Response(t, Seen(t, c), v)]
  BY <1>1
<1> DEFINE since == IF v.decision = "Challenge" /\ r.since = Never THEN clock ELSE r.since
           resp == Response(t, Seen(t, c), v)
<1>3. q.pc = "reply" /\ q.since = since /\ q.resp = resp /\ q.src = r.src /\ q.sent = r.sent
      /\ q.ref = r.ref
  <2> HIDE DEF since, resp
  <2>1. tab' = [tab EXCEPT ![t].pc = "reply", ![t].issued = clock, ![t].since = since,
                           ![t].resp = resp]
    BY <1>2, Zenon DEF since, resp, r
  <2>2. QED
    BY <2>1 DEF TypeOK, Tabs
<1>4. /\ clock \in Nat /\ s.until \in Nat /\ r.since \in Nat \cup {Never} /\ TokenTTL \in Nat
      /\ r.pc = "sent" /\ jar' = jar /\ clock' = clock /\ v.decision \in Decisions
  BY ServeTypes, TTLAssumption DEF TypeOK, Jars, Tabs, Serve
<1>5. /\ r.since # Never => r.since =< clock /\ r.ref = Own
      /\ Sent(r, s, clock)
      /\ r.since = Never => r.ref = r.src /\ ~HasStash(r.sent)
      /\ Due(r, clock) => Kept(r, s)
  BY <1>4 DEF Journey
<1>6. Due(r, clock) => HasStash(r.sent) /\ r.sent.stash = s /\ s.ref = r.src
  BY <1>4, <1>5 DEF Sent, Kept, Due, Gone, Never
<1>7. ~HasStash(r.sent) => Gone(s, clock)
  BY <1>5 DEF Sent
<1>8. since # Never => since =< clock
  BY <1>4, <1>5
<1>9. Sent(q, s, clock)
  BY <1>3, <1>5 DEF Sent
<1>10. Reply(q, s, clock)
  <2>1. CASE v.decision = "Challenge"
    <3>1. /\ resp.page \in {"challenge", "captcha"} /\ resp.seen = r.ref
          /\ resp.set = (IF HasStash(r.sent) THEN "keep" ELSE "save")
      BY <2>1 DEF Response, Challenged
    <3>2. since # Never /\ (r.since # Never => since = r.since)
      BY <1>4, <2>1 DEF Never
    <3>3. CASE r.since = Never
      BY <1>3, <1>5, <3>1, <3>2, <3>3 DEF Reply
    <3>4. CASE r.since # Never
      <4>1. Due(q, clock) => Due(r, clock) /\ Kept(q, s)
        BY <1>3, <1>5, <3>2, <3>4 DEF Due, Kept
      <4>2. QED
        BY <1>3, <1>6, <3>1, <3>2, <4>1 DEF Reply
    <3>5. QED
      BY <3>3, <3>4
  <2>2. CASE v.decision # "Challenge"
    <3>1. /\ q.since = r.since
          /\ Due(q, clock) <=> Due(r, clock)
          /\ Kept(q, s) <=> Kept(r, s)
      BY <1>3, <2>2 DEF Due, Kept
    <3>2. CASE v.decision \in {"Block", "TooMany"}
      <4>1. resp.page = "denied" /\ resp.set = "keep"
        BY <3>2 DEF Response, NoResponse
      <4>2. QED
        BY <1>3, <1>5, <1>7, <3>1, <4>1 DEF Reply
    <3>3. CASE v.decision = "Allow" /\ AddsParam(t)
      <4>1. resp.page = "redirect" /\ resp.set = "keep" /\ HasStash(r.sent)
        BY <3>3 DEF Response, NoResponse, AddsParam, Restorable
      <4>2. QED
        BY <1>3, <1>5, <3>1, <4>1 DEF Reply
    <3>4. CASE v.decision = "Allow" /\ ~AddsParam(t)
      <4>1. /\ resp.page = "app"
            /\ resp.set = (IF HasStash(r.sent) THEN "clear" ELSE "keep")
            /\ resp.seen = (IF Restorable(t) THEN r.sent.stash.ref ELSE r.ref)
        BY <3>4 DEF Response, Passed
      <4>2. CASE HasStash(r.sent)
        <5>1. r.since # Never /\ resp.set = "clear"
          BY <1>5, <4>1, <4>2
        <5>2. Due(r, clock) => resp.seen = Learnt(q)
          BY <1>3, <1>5, <1>6, <3>1, <4>1, <5>1 DEF Restorable, Learnt
        <5>3. QED
          BY <1>3, <3>1, <4>1, <5>1, <5>2 DEF Reply
      <4>3. CASE ~HasStash(r.sent)
        BY <1>3, <1>5, <1>6, <1>7, <3>1, <4>1, <4>3 DEF Reply, Restorable
      <4>4. QED
        BY <4>2, <4>3
    <3>5. QED
      BY <1>4, <2>2, <3>2, <3>3, <3>4 DEF Decisions
  <2>3. QED
    BY <2>1, <2>2
<1>11. Journey(q, s, clock)
  BY <1>3, <1>8, <1>9, <1>10 DEF Journey
<1>12. QED
  BY <1>4, <1>11

\* Taking the response.
LEMMA ReceiveJourney ==
  ASSUME TypeOK, NEW t \in Tab, Receive(t), Journey(tab[t], jar.stash, clock)
  PROVE  Journey(tab'[t], jar'.stash, clock')
<1> DEFINE r == tab[t]
           s == jar.stash
           q == tab'[t]
           resp == r.resp
           st == Stored(resp)
           next == st.stash
<1>1. /\ clock \in Nat /\ s.until \in Nat /\ r.since \in Nat \cup {Never} /\ TokenTTL \in Nat
      /\ r.pc = "reply" /\ clock' = clock /\ jar' = st /\ r \in Tabs /\ resp \in Responses
      /\ st \in Jars
  BY CookieTypes, TTLAssumption DEF TypeOK, Jars, Tabs, Receive
<1>2. /\ r.since # Never => r.since =< clock
      /\ Sent(r, s, clock)
      /\ Reply(r, s, clock)
  BY <1>1 DEF Journey
<1>3. /\ resp.set = "keep" => next = s
      /\ resp.set = "save" => next.ref = resp.seen /\ next.until = clock + TokenTTL
      /\ resp.set = "clear" => next.until = 0
  BY DEF Stored, NoStash
<1>4. Due(r, clock) /\ resp.page # "app" => Kept(r, next)
  <2> SUFFICES ASSUME Due(r, clock), resp.page # "app" PROVE Kept(r, next)
    OBVIOUS
  <2>1. CASE resp.set = "keep"
    BY <1>2, <1>3, <2>1 DEF Reply
  <2>2. CASE resp.set # "keep"
    <3>1. resp.set = "save" /\ resp.seen = r.src
      BY <1>2, <2>2 DEF Reply
    <3>2. r.since \in Nat /\ r.since =< clock
      BY <1>1, <1>2 DEF Due
    <3> HIDE DEF r, resp, next
    <3>3. QED
      BY <1>1, <1>3, <3>1, <3>2 DEF Kept
  <2>3. QED
    BY <2>1, <2>2
<1>5. r.since = Never => Gone(next, clock) /\ next = s
  BY <1>2, <1>3 DEF Reply
<1>6. CASE resp.page = "redirect"
  <2> DEFINE m == [r EXCEPT !.param = TRUE]
  <2>1. m \in Tabs /\ m.since = r.since /\ m.src = r.src
    BY <1>1 DEF Tabs
  <2>2. Request(t, m, r.ref, Live(st))
    BY <1>6 DEF Receive
  <2>3. r.since # Never /\ r.ref = Own
    BY <1>2, <1>6 DEF Reply
  <2>4. Due(m, clock) => Kept(m, next)
    BY <1>4, <1>6, <2>1 DEF Due, Kept
  <2> HIDE DEF m, st
  <2>5. QED
    BY <1>1, <1>2, <2>1, <2>2, <2>3, <2>4, RequestJourney
<1>7. CASE resp.page # "redirect"
  <2> DEFINE pc == IF resp.page = "app" THEN "landed" ELSE resp.page
  <2>1. q.pc = pc /\ q.seen = resp.seen /\ q.since = r.since /\ q.src = r.src
    <3> HIDE DEF pc, resp
    <3>1. tab' = [tab EXCEPT ![t].pc = pc, ![t].seen = resp.seen, ![t].shim = resp.shim]
      BY <1>7 DEF Receive, pc, resp
    <3>2. QED
      BY <3>1 DEF TypeOK, Tabs
  <2>2. (Due(q, clock) <=> Due(r, clock)) /\ (Kept(q, next) <=> Kept(r, next))
    BY <2>1 DEF Due, Kept
  <2>3. CASE resp.page = "app"
    <3>1. Gone(next, clock)
      <4>1. CASE resp.set = "keep"
        BY <1>2, <1>3, <2>3, <4>1 DEF Reply
      <4>2. CASE resp.set = "clear"
        BY <1>1, <1>3, <4>2 DEF Gone
      <4>3. QED
        BY <1>2, <2>3, <4>1, <4>2 DEF Reply
    <3>2. r.since = Never \/ Due(r, clock) => resp.seen = Learnt(q)
      BY <1>2, <2>1, <2>3 DEF Reply, Learnt
    <3>3. Journey(q, next, clock)
      BY <1>2, <2>1, <2>2, <2>3, <3>1, <3>2 DEF Journey
    <3>4. QED
      BY <1>1, <3>3
  <2>4. CASE resp.page = "denied"
    <3>1. Journey(q, next, clock)
      BY <1>2, <1>4, <1>5, <2>1, <2>2, <2>4 DEF Journey
    <3>2. QED
      BY <1>1, <3>1
  <2>5. CASE resp.page \in {"challenge", "captcha"}
    <3>1. r.since # Never
      BY <1>2, <2>5 DEF Reply
    <3>2. Journey(q, next, clock)
      BY <1>2, <1>4, <2>1, <2>2, <2>5, <3>1 DEF Journey
    <3>3. QED
      BY <1>1, <3>2
  <2>6. resp.page \in {"challenge", "captcha", "denied", "app"}
    BY <1>1, <1>7 DEF Responses
  <2>7. QED
    BY <2>3, <2>4, <2>5, <2>6
<1>8. QED
  BY <1>6, <1>7

JourneyInv ==
  /\ TypeOK
  /\ \A t \in Tab : Journey(tab[t], jar.stash, clock)

\* No visit has begun, and no stash is there.
LEMMA JourneyInit == Init => JourneyInv
<1> SUFFICES ASSUME Init PROVE JourneyInv
  OBVIOUS
<1>1. \A t \in Tab : tab[t].pc = "closed" /\ tab[t].since = Never
  BY DEF Init, Closed
<1>2. Gone(jar.stash, clock)
  BY DEF Init, Gone, NoStash
<1>3. QED
  BY <1>1, <1>2, TypeInit DEF JourneyInv, Journey

\* Every step of the one tab, of its responses and of time keeps its journey
\* true.
LEMMA JourneyStep ==
  ASSUME \A t, u \in Tab : t = u, JourneyInv, [Next]_vvars
  PROVE  JourneyInv'
<1>0. TypeOK /\ TypeOK'
  BY TypeStep DEF JourneyInv
<1> SUFFICES ASSUME NEW t \in Tab PROVE Journey(tab'[t], jar'.stash, clock')
  BY <1>0 DEF JourneyInv
<1> USE <1>0
<1> DEFINE r == tab[t]
           s == jar.stash
<1>1. /\ clock \in Nat /\ s.until \in Nat /\ r.since \in Nat \cup {Never} /\ TokenTTL \in Nat
      /\ jar \in Jars /\ r \in Tabs /\ Journey(r, s, clock)
  BY TTLAssumption DEF TypeOK, Jars, Tabs, JourneyInv
<1>2. CASE Tick
  <2>1. clock' = clock + 1 /\ tab' = tab /\ jar' = jar
    BY <1>2 DEF Tick
  <2>2. Due(r, clock + 1) => Due(r, clock)
    BY <1>1 DEF Due, Never
  <2>3. Gone(s, clock) => Gone(s, clock + 1)
    BY <1>1 DEF Gone
  <2>4. r.since # Never /\ r.since =< clock => r.since =< clock + 1
    BY <1>1 DEF Never
  <2>5. Sent(r, s, clock) => Sent(r, s, clock + 1)
    BY <2>3 DEF Sent
  <2>6. Reply(r, s, clock) => Reply(r, s, clock + 1)
    BY <2>2, <2>3 DEF Reply
  <2>7. Journey(r, s, clock + 1)
    BY <1>1, <2>2, <2>3, <2>4, <2>5, <2>6 DEF Journey
  <2>8. QED
    BY <2>1, <2>7
\* A page that reloads by itself, or because the visitor reloads it.
<1>3. ASSUME NEW q \in Tabs, Request(t, q, Own, Live(jar)), UNCHANGED <<clock, jar>>,
             q.since = r.since, r.pc \in {"challenge", "captcha", "failed", "denied"},
             q.src = IF r.since = Never THEN Own ELSE r.src
      PROVE  Journey(tab'[t], jar'.stash, clock')
  <2>1. /\ r.since # Never => r.since =< clock
        /\ Due(r, clock) => Kept(r, s)
        /\ r.since = Never => Gone(s, clock)
    BY <1>1, <1>3 DEF Journey
  <2>2. Due(q, clock) => Kept(q, s)
    BY <1>3, <2>1 DEF Due, Kept
  <2>3. QED
    BY <1>1, <1>3, <2>1, <2>2, RequestJourney
<1>4. CASE \E src \in Source : Open(t, src)
  <2>1. PICK src \in Source : Open(t, src)
    BY <1>4
  <2> DEFINE q == [Closed EXCEPT !.src = src]
  <2>2. q \in Tabs /\ q.since = Never /\ q.src = src
    BY StartTypes DEF Tabs, Closed
  <2>3. Request(t, q, src, Live(jar)) /\ UNCHANGED <<clock, jar>>
    BY <2>1 DEF Open
  <2>4. Gone(s, clock)
    BY <1>1, <2>1 DEF Open, Journey
  <2>5. ~Due(q, clock)
    BY <2>2 DEF Due
  <2> HIDE DEF q
  <2>6. QED
    BY <1>1, <2>2, <2>3, <2>4, <2>5, RequestJourney
<1>5. CASE Browse(t)
  <2> DEFINE q == [Closed EXCEPT !.src = Own, !.retried = tab[t].retried]
  <2>1. q \in Tabs /\ q.since = Never /\ q.src = Own
    <3>1. tab[t].retried \in BOOLEAN
      BY <1>1 DEF Tabs
    <3>2. QED
      BY <3>1, StartTypes DEF Tabs, Closed
  <2>2. Request(t, q, Own, Live(jar)) /\ UNCHANGED <<clock, jar>>
    BY <1>5 DEF Browse
  <2>3. Gone(s, clock)
    BY <1>1, <1>5 DEF Browse, Journey
  <2>4. ~Due(q, clock)
    BY <2>1 DEF Due
  <2> HIDE DEF q
  <2>5. QED
    BY <1>1, <2>1, <2>2, <2>3, <2>4, RequestJourney
<1>6. CASE Serve(t)
  BY <1>1, <1>6, ServeJourney
<1>7. CASE Receive(t)
  BY <1>1, <1>7, ReceiveJourney
<1>8. CASE Solve(t)
  <2> DEFINE q == [r EXCEPT !.retried = FALSE]
             now == [jar EXCEPT !.pass = clock + ClearanceTTL]
  <2>1. now \in Jars /\ now.stash = s /\ jar' = now /\ clock' = clock
    BY <1>1, <1>8, TTLAssumption DEF Solve, Jars
  <2>2. q \in Tabs /\ q.since = r.since /\ q.src = r.src
    BY <1>1 DEF Tabs
  <2>3. Request(t, q, Own, Live(now))
    <3> DEFINE live == Live(now)
    <3>1. tab' = [tab EXCEPT ![t].pc = "sent", ![t].retried = FALSE, ![t].ref = Own,
                             ![t].sent = live]
      BY <1>8, <2>1 DEF Solve
    <3> HIDE DEF live
    <3>2. [q EXCEPT !.pc = "sent", !.ref = Own, !.sent = live]
            = [r EXCEPT !.pc = "sent", !.retried = FALSE, !.ref = Own, !.sent = live]
      BY <1>1 DEF Tabs
    <3>3. tab' = [tab EXCEPT ![t] = [q EXCEPT !.pc = "sent", !.ref = Own, !.sent = live]]
      BY <3>1, <3>2 DEF TypeOK
    <3>4. QED
      BY <3>3 DEF Request, live
  <2>4. /\ r.since # Never /\ r.since =< clock
        /\ Due(r, clock) => Kept(r, s)
    BY <1>1, <1>8 DEF Solve, Journey
  <2>5. Due(q, clock) => Kept(q, s)
    BY <2>2, <2>4 DEF Due, Kept
  <2> HIDE DEF q, now
  <2>6. QED
    BY <2>1, <2>2, <2>3, <2>4, <2>5, RequestJourney
<1>9. ASSUME UNCHANGED <<clock, jar>>,
             \/ r.pc = "challenge" /\ Refused(t)
             \/ r.pc = "captcha" /\ tab' = [tab EXCEPT ![t].issued = clock]
      PROVE  Journey(tab'[t], jar'.stash, clock')
  <2>0. r.since # Never
    BY <1>1, <1>9 DEF Journey
  <2>1. CASE Reload(t, [r EXCEPT !.retried = TRUE])
    <3> DEFINE q == [r EXCEPT !.retried = TRUE]
    <3>1. q \in Tabs /\ q.since = r.since /\ q.src = r.src
      BY <1>1 DEF Tabs
    <3>2. Request(t, q, Own, Live(jar))
      BY <2>1 DEF Reload
    <3> HIDE DEF q
    <3>3. QED
      BY <1>3, <1>9, <2>0, <3>1, <3>2
  <2>2. CASE tab' = [tab EXCEPT ![t].pc = "failed"] /\ r.pc = "challenge"
    <3> DEFINE q == tab'[t]
    <3>1. q.pc = "failed" /\ q.since = r.since /\ q.src = r.src
      BY <2>2 DEF TypeOK, Tabs
    <3>2. Due(q, clock) => Kept(q, s)
      BY <1>1, <2>2, <3>1 DEF Journey, Due, Kept
    <3> HIDE DEF q
    <3>3. Journey(q, s, clock)
      BY <1>1, <2>0, <2>2, <3>1, <3>2 DEF Journey
    <3>4. QED
      BY <1>9, <3>3 DEF q
  <2>3. CASE tab' = [tab EXCEPT ![t].issued = clock] /\ r.pc = "captcha"
    <3> DEFINE q == tab'[t]
    <3>1. q.pc = "captcha" /\ q.since = r.since /\ q.src = r.src
      BY <2>3 DEF TypeOK, Tabs
    <3>2. Due(q, clock) => Kept(q, s)
      BY <1>1, <2>3, <3>1 DEF Journey, Due, Kept
    <3> HIDE DEF q
    <3>3. Journey(q, s, clock)
      BY <1>1, <2>0, <2>3, <3>1, <3>2 DEF Journey
    <3>4. QED
      BY <1>9, <3>3 DEF q
  <2>4. QED
    BY <1>9, <2>1, <2>2, <2>3 DEF Refused
<1>10. CASE AnswerLate(t)
  BY <1>9, <1>10 DEF AnswerLate
<1>11. CASE AnswerWrong(t)
  BY <1>9, <1>11 DEF AnswerWrong
<1>12. CASE TryAgain(t)
  <2> DEFINE src == IF r.since = Never THEN Own ELSE r.src
             q == [r EXCEPT !.retried = FALSE, !.src = src]
  <2>1. src \in Referer
    BY <1>1, StartTypes DEF Tabs
  <2>2. Reload(t, q) /\ UNCHANGED <<clock, jar>> /\ r.pc \in {"failed", "denied"}
    BY <1>12 DEF TryAgain
  <2> HIDE DEF src
  <2>3. q \in Tabs /\ q.since = r.since /\ q.src = src
    BY <1>1, <2>1 DEF Tabs
  <2> HIDE DEF q
  <2>4. QED
    BY <1>3, <2>2, <2>3 DEF Reload, src
<1>13. CASE UNCHANGED vvars
  BY <1>1, <1>13 DEF vvars
<1>14. QED
  BY <1>2, <1>4, <1>5, <1>6, <1>7, <1>8, <1>10, <1>11, <1>12, <1>13 DEF Next

\* In a browser with one tab, a visit that gets through in time reaches the
\* application with the referrer it came with (as Learnt says), for any number
\* of rounds, refusals and redirects, any lifetimes and any mode of handing it
\* on.
THEOREM SourceSurvivesHolds ==
  ASSUME \A t, u \in Tab : t = u
  PROVE  Spec => []SourceSurvives
<1>1. JourneyInv => SourceSurvives
  BY DEF JourneyInv, Journey, Due, SourceSurvives
<1>2. JourneyInv /\ [Next]_vvars => JourneyInv'
  BY JourneyStep
<1>3. QED
  BY <1>1, <1>2, JourneyInit, PTL DEF Spec
===============================================================================
