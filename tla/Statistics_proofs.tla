--------------------------- MODULE Statistics_proofs ---------------------------
(***************************************************************************)
(* Proofs about Statistics, for any traffic, size of the log, period and   *)
(* any number of visits, answers, losses, resets and pages: what a page    *)
(* reads, what a reset tells, and what stands behind the pass rate.        *)
(***************************************************************************)
EXTENDS Statistics, FiniteSetTheorems, TLAPS

Decisions == {"Allow", "Challenge", "TooMany", "Block"}

\* A line of the log, as far as it can be told without its wording.
LineTrue(r) ==
  /\ r.decision \in {"challenge_solved", "challenge_failed"} => StageOf(r) = r.shown
  /\ r.decision = "Challenge" /\ r.shown # "none"
       => \/ StageShownFor(r) = r.shown
          \/ r.class = "score" /\ r.about \in SharedDim
          \/ CheckboxAt = 0 /\ IsHardReason(r)

Forms == Stages \X Uses

ResetAnswers == {"none", "done", "log cleared, but counters not", "could not clear the log"}

Histories ==
  [visits : Nat, answers : Nat, resets : Nat, pages : Nat, gone : Nat, hits : Nat,
   cleared : Nat, stale : Nat, since : [Counter -> Int], credit : Nat, lost : Nat,
   repeats : Nat]

\* The types of the state; those of the page are in Pages.
Typed ==
  /\ Len(file) \in Nat /\ file = [n \in 1 .. Len(file) |-> file[n]]
  /\ showing \in Nat
  /\ forms \in [Forms -> Nat]
  /\ pending \in [Counter -> Nat]
  /\ table \in [Counter -> Nat]
  /\ reset \in [pc : {"idle", "truncated"}, answer : ResetAnswers]
  /\ history \in Histories

\* Every line is a true one.
LinesTrue == \A n \in DOMAIN file : LineTrue(file[n])

\* No line is left from before a reset that says so, nor while one is under way.
Cleared ==
  reset.pc = "truncated" \/ reset.answer \in {"done", "log cleared, but counters not"}
    => history.stale = 0

\* What is counted, or on its way, was pushed since the reset began.
Recent ==
  \A c \in Counter :
    /\ reset.pc = "truncated" => pending[c] =< history.since[c]
    /\ reset.pc = "idle" /\ reset.answer = "done"
         => table[c] + pending[c] =< history.since[c]

\* The forms whose answer would count once more.
OpenOf(o) == o[<<"pow", "open">>] + o[<<"checkbox", "open">>] + o[<<"captcha", "open">>]

OpenForms == OpenOf(forms)

\* Behind every answer that is counted, and every one that may still be, there
\* is a page.
Backed ==
  SampleStep = 1 =>
    table["solved"] + pending["solved"] + OpenForms
    =< table["challenged"] + pending["challenged"] + showing
         + history.lost + history.credit + history.repeats

\* The inductive invariant.
Books == Typed /\ LinesTrue /\ Cleared /\ Recent /\ Backed

------------------------------------------------------------------------------
(* The log *)

\* What Append does to a log, whatever its lines are made of.
LEMMA OneLineMore ==
  ASSUME NEW s, NEW r, Len(s) \in Nat, s = [n \in 1 .. Len(s) |-> s[n]]
  PROVE  LET t == Append(s, r)
         IN  /\ Len(t) = Len(s) + 1 /\ DOMAIN t = 1 .. Len(t)
             /\ t = [n \in 1 .. Len(t) |-> t[n]]
             /\ \A n \in 1 .. Len(s) : t[n] = s[n]
             /\ t[Len(s) + 1] = r
<1> DEFINE T == {s[n] : n \in 1 .. Len(s)} \cup {r}
<1>1. s \in [1 .. Len(s) -> T]
  OBVIOUS
<1>2. s \in Seq(T)
  BY <1>1
<1>3. r \in T
  OBVIOUS
<1> HIDE DEF T
<1> DEFINE t == Append(s, r)
<1>4. /\ t \in Seq(T) /\ Len(t) = Len(s) + 1
      /\ \A n \in 1 .. Len(s) : t[n] = s[n]
      /\ t[Len(s) + 1] = r
  BY <1>2, <1>3
<1> HIDE DEF t
<1>5. DOMAIN t = 1 .. Len(t) /\ t \in [1 .. Len(t) -> T]
  BY <1>4
<1>6. t = [n \in 1 .. Len(t) |-> t[n]]
  BY <1>5
<1>7. QED
  BY <1>4, <1>5, <1>6 DEF t

\* Evaluate gives the four decisions and no other.
LEMMA Decides ==
  ASSUME NEW r \in Requests(Nat, Nat, Nat), NEW v \in Evaluate(r)
  PROVE  v.decision \in Decisions
<1> DEFINE late == AtLeast(Score(r), ChallengeAt)
           foreign == ActionToDecision(IF r.onMismatch = "allow" THEN "challenge"
                                       ELSE r.onMismatch)
           match == ActionToDecision(r.onMatch)
<1>1. r.kind \in Kinds
  BY DEF Requests
<1>2. foreign \in Decisions /\ match \in Decisions
  BY DEF ActionToDecision, Decisions
<1> HIDE DEF late, foreign, match
<1>3. CASE ~(r.asn = "blocked" \/ UsedUp(r)) /\ r.kind \in Counted
  <2>1. v \in EvaluateCounted(r)
    BY <1>3 DEF Evaluate, Counted
  <2>2. \/ v = Verdict("Allow", "store_error", "", 0)
        \/ v = Verdict("TooMany", "store_error", "", 0)
        \/ v = Verdict("Challenge", "asn_always_challenge", "", late)
        \/ v = Verdict("Challenge", "hosting_browser", "", late)
        \/ \E worst \in Worsts(r) : v = Threshold(r, worst)
    BY <2>1 DEF EvaluateCounted, late
  <2>3. \A worst \in Worsts(r) :
           \/ Threshold(r, worst) = Verdict("Block", "score", worst, Score(r))
           \/ Threshold(r, worst) = Verdict("Challenge", "score", worst, Score(r))
           \/ Threshold(r, worst) = Verdict("Challenge", "cleared_abuse", worst, Score(r))
           \/ Threshold(r, worst) = Verdict("Allow", "ok", "", Score(r))
    BY DEF Threshold
  <2>4. /\ Verdict("Allow", "store_error", "", 0).decision = "Allow"
        /\ Verdict("TooMany", "store_error", "", 0).decision = "TooMany"
        /\ Verdict("Challenge", "asn_always_challenge", "", late).decision = "Challenge"
        /\ Verdict("Challenge", "hosting_browser", "", late).decision = "Challenge"
    BY DEF Verdict
  <2>5. ASSUME NEW worst \in Worsts(r)
        PROVE  Threshold(r, worst).decision \in Decisions
    <3>1. /\ Verdict("Block", "score", worst, Score(r)).decision = "Block"
          /\ Verdict("Challenge", "score", worst, Score(r)).decision = "Challenge"
          /\ Verdict("Challenge", "cleared_abuse", worst, Score(r)).decision = "Challenge"
          /\ Verdict("Allow", "ok", "", Score(r)).decision = "Allow"
      BY DEF Verdict
    <3>2. QED
      BY <2>3, <3>1 DEF Decisions
  <2>6. QED
    BY <2>2, <2>4, <2>5 DEF Decisions
<1>4. CASE r.asn = "blocked" \/ UsedUp(r) \/ r.kind \notin Counted
  <2>1. \/ v = Verdict("Block", "blocked_asn", "", RefusalScore)
        \/ v = Verdict("Block", "challenge_failures", "", RefusalScore)
        \/ v = EvaluateKnownBot(r)
        \/ v = Verdict("Block", "seo_blacklist", "", RefusalScore)
        \/ v = Verdict("Challenge", "tool_agent", "", ChallengeAt)
        \/ v = Verdict("Allow", "ai_crawler_allow", "", 0)
        \/ v = Verdict("Allow", "unknown_bot_allow", "", 0)
    BY <1>1, <1>4 DEF Evaluate, Kinds, Counted
  <2>2. \/ EvaluateKnownBot(r) = Verdict(foreign, "fake_bot", "", ChallengeAt)
        \/ EvaluateKnownBot(r) = Verdict("TooMany", "bot_flood", "", 0)
        \/ EvaluateKnownBot(r) = Verdict(match, "bot_match", "", 0)
    BY DEF EvaluateKnownBot, foreign, match
  <2>3. /\ Verdict("Block", "blocked_asn", "", RefusalScore).decision = "Block"
        /\ Verdict("Block", "challenge_failures", "", RefusalScore).decision = "Block"
        /\ Verdict("Block", "seo_blacklist", "", RefusalScore).decision = "Block"
        /\ Verdict("Challenge", "tool_agent", "", ChallengeAt).decision = "Challenge"
        /\ Verdict("Allow", "ai_crawler_allow", "", 0).decision = "Allow"
        /\ Verdict("Allow", "unknown_bot_allow", "", 0).decision = "Allow"
        /\ Verdict(foreign, "fake_bot", "", ChallengeAt).decision = foreign
        /\ Verdict("TooMany", "bot_flood", "", 0).decision = "TooMany"
        /\ Verdict(match, "bot_match", "", 0).decision = match
    BY DEF Verdict
  <2>4. EvaluateKnownBot(r).decision \in Decisions
    BY <1>2, <2>2, <2>3 DEF Decisions
  <2>5. QED
    BY <2>1, <2>3, <2>4 DEF Decisions
<1>5. QED
  BY <1>3, <1>4

\* The page computes the stage of a challenge as HTTPMiddleware did.
LEMMA VerdictLine ==
  ASSUME NEW v, v.decision \in Decisions, NEW shown,
         shown = "none" \/ shown = Stage(v)
  PROVE  LineTrue(Record(v.decision, v.class, v.about, v.score, shown))
<1> DEFINE r == Record(v.decision, v.class, v.about, v.score, shown)
<1>1. /\ r.decision = v.decision /\ r.class = v.class /\ r.about = v.about
      /\ r.score = v.score /\ r.shown = shown
  BY DEF Record
<1> HIDE DEF r
<1>2. r.decision \notin {"challenge_solved", "challenge_failed"}
  BY <1>1 DEF Decisions
<1>3. ASSUME r.shown # "none", ~(r.class = "score" /\ r.about \in SharedDim),
             ~(CheckboxAt = 0 /\ IsHardReason(r))
      PROVE  StageShownFor(r) = r.shown
  <2>1. EffChallengeScore(v) = r.score /\ (IsHardReason(v) <=> IsHardReason(r))
    BY <1>1, <1>3 DEF EffChallengeScore, IsHardReason
  <2>2. CheckboxAt \in Nat
    BY ScoreAssumption
  <2>3. r.shown = Stage(v)
    BY <1>1, <1>3
  <2>4. QED
    BY <1>3, <2>1, <2>2, <2>3 DEF Stage, StageShownFor
<1>4. LineTrue(r)
  BY <1>2, <1>3 DEF LineTrue
<1>5. QED
  BY <1>4 DEF r

\* The lines of the answers name the stage that judged them.
LEMMA AnswerLine ==
  ASSUME NEW decision \in {"challenge_solved", "challenge_failed"}, NEW class, NEW about,
         NEW stage, stage = IF class \in {"captcha", "checkbox"} THEN class ELSE "pow"
  PROVE  LineTrue(Record(decision, class, about, 0, stage))
<1> DEFINE r == Record(decision, class, about, 0, stage)
<1>1. r.decision = decision /\ r.class = class /\ r.shown = stage
  BY DEF Record
<1> HIDE DEF r
<1>2. LineTrue(r)
  BY <1>1 DEF LineTrue, StageOf
<1>3. QED
  BY <1>2 DEF r

------------------------------------------------------------------------------
(* Counting *)

\* The two counters that stand for pages and answers are followed.
LEMMA Followed ==
  "challenged" \in Counter /\ "solved" \in Counter /\ Counter \subseteq Counters
BY StatisticsAssumption

\* One value of a function changes; it may lie outside its domain.
LEMMA OneChanges ==
  ASSUME NEW S, NEW f \in [S -> Nat], NEW k, NEW x \in Nat
  PROVE  /\ [f EXCEPT ![k] = x] \in [S -> Nat]
         /\ k \in S => [f EXCEPT ![k] = x][k] = x
         /\ \A j \in S : j # k => [f EXCEPT ![k] = x][j] = f[j]
OBVIOUS

\* Since moves the counts with the events and leaves the rest.
LEMMA SinceMoves ==
  ASSUME NEW h \in Histories, pending \in [Counter -> Nat], pending' \in [Counter -> Nat]
  PROVE  /\ Since(h) \in Histories
         /\ \A c \in Counter : Since(h).since[c] = h.since[c] + pending'[c] - pending[c]
         /\ Since(h).stale = h.stale /\ Since(h).lost = h.lost
         /\ Since(h).credit = h.credit /\ Since(h).repeats = h.repeats
         /\ pending' = pending => Since(h) = h
<1> DEFINE moved == [c \in Counter |-> h.since[c] + pending'[c] - pending[c]]
<1>1. h.since \in [Counter -> Int]
  BY DEF Histories
<1>2. moved \in [Counter -> Int]
  BY <1>1
<1>3. Since(h) = [h EXCEPT !.since = moved]
  BY DEF Since
<1>4. \A c \in Counter : moved[c] = h.since[c] + pending'[c] - pending[c]
  OBVIOUS
<1>5. ASSUME pending' = pending PROVE moved = h.since
  BY <1>1, <1>4, <1>5
<1> HIDE DEF moved
<1>6. QED
  BY <1>2, <1>3, <1>4, <1>5 DEF Histories

\* How many of the calls count is a number, and none that did not ask to.
LEMMA KeptCounts ==
  ASSUME NEW calls, NEW n \in Nat, DOMAIN calls = 1 .. n, NEW c
  PROVE  /\ Kept(calls, c) \in Nat
         /\ (\A k \in 1 .. n : calls[k] # c) => Kept(calls, c) = 0
<1> DEFINE S == {k \in DOMAIN calls : calls[k] = c /\ Sample(k)}
<1>1. IsFiniteSet(1 .. n)
  <2>1. 1 \in Int /\ n \in Int
    OBVIOUS
  <2>2. QED
    BY <2>1, FS_Interval
<1>2. S \subseteq 1 .. n
  OBVIOUS
<1>3. Kept(calls, c) = Cardinality(S)
  BY DEF Kept
<1>4. (\A k \in 1 .. n : calls[k] # c) => S = {}
  OBVIOUS
<1> HIDE DEF S
<1>5. IsFiniteSet(S)
  BY <1>1, <1>2, FS_Subset
<1>6. QED
  BY <1>3, <1>4, <1>5, FS_CardinalityType, FS_EmptySet

\* What the calls of the middleware leave.
LEMMA VisitCalls ==
  ASSUME pending \in [Counter -> Nat],
         NEW calls \in {<<"hits", "allowed">>, <<"hits">>, <<"challenged">>}, RecordFP(calls)
  PROVE  /\ pending' \in [Counter -> Nat]
         /\ Kept(calls, "hits") \in Nat
         /\ pending'["solved"] = pending["solved"]
         /\ pending'["challenged"] >= pending["challenged"]
         /\ calls = <<"challenged">> /\ SampleStep = 1 =>
              pending'["challenged"] = pending["challenged"] + 1
<1>1. PICK n \in {1, 2} : DOMAIN calls = 1 .. n /\ \A k \in 1 .. n : calls[k] # "solved"
  OBVIOUS
<1>2. \A c : Kept(calls, c) \in Nat
  BY <1>1, KeptCounts
<1>3. Kept(calls, "solved") = 0
  BY <1>1, KeptCounts
<1>4. ASSUME calls = <<"challenged">>, SampleStep = 1 PROVE Kept(calls, "challenged") = 1
  <2>1. {k \in DOMAIN calls : calls[k] = "challenged" /\ Sample(k)} = {1}
    BY <1>4 DEF Sample
  <2>2. Cardinality({1}) = 1
    BY FS_Singleton
  <2>3. QED
    BY <2>1, <2>2 DEF Kept
<1>5. pending' = [c \in Counter |-> pending[c] + Kept(calls, c)]
  BY DEF RecordFP
<1>6. pending' \in [Counter -> Nat]
  BY <1>2, <1>5
<1>7. /\ pending'["solved"] = pending["solved"] + Kept(calls, "solved")
      /\ pending'["challenged"] = pending["challenged"] + Kept(calls, "challenged")
  BY <1>5, Followed
<1>8. /\ pending["solved"] \in Nat /\ pending["challenged"] \in Nat
      /\ Kept(calls, "challenged") \in Nat /\ Kept(calls, "hits") \in Nat
  BY <1>2, Followed
<1>9. QED
  BY <1>3, <1>4, <1>6, <1>7, <1>8

\* The open forms are natural numbers.
LEMMA FormsCount ==
  ASSUME NEW o \in [Forms -> Nat]
  PROVE  /\ o[<<"pow", "open">>] \in Nat /\ o[<<"checkbox", "open">>] \in Nat
         /\ o[<<"captcha", "open">>] \in Nat /\ OpenOf(o) \in Nat
BY DEF Forms, Stages, Uses, OpenOf

\* A true line more.
LEMMA LineAdded ==
  ASSUME Books, NEW r, LineTrue(r), file' = Append(file, r)
  PROVE  /\ Len(file') \in Nat /\ file' = [n \in 1 .. Len(file') |-> file'[n]]
         /\ LinesTrue'
<1>1. Len(file) \in Nat /\ file = [n \in 1 .. Len(file) |-> file[n]]
  BY DEF Books, Typed
<1>2. /\ Len(file') = Len(file) + 1 /\ DOMAIN file' = 1 .. Len(file')
      /\ file' = [n \in 1 .. Len(file') |-> file'[n]]
      /\ \A n \in 1 .. Len(file) : file'[n] = file[n]
      /\ file'[Len(file) + 1] = r
  <2> DEFINE more == Append(file, r)
  <2>1. /\ Len(more) = Len(file) + 1 /\ DOMAIN more = 1 .. Len(more)
        /\ more = [n \in 1 .. Len(more) |-> more[n]]
        /\ \A n \in 1 .. Len(file) : more[n] = file[n]
        /\ more[Len(file) + 1] = r
    BY <1>1, OneLineMore
  <2>2. file' = more
    OBVIOUS
  <2> HIDE DEF more
  <2>3. QED
    BY <2>1, <2>2
<1>3. \A n \in 1 .. Len(file) : LineTrue(file[n])
  BY <1>1 DEF Books, LinesTrue
<1>4. ASSUME NEW n \in 1 .. Len(file') PROVE LineTrue(file'[n])
  <2>1. n \in 1 .. Len(file) \/ n = Len(file) + 1
    BY <1>1, <1>2
  <2>2. CASE n \in 1 .. Len(file)
    <3>1. file'[n] = file[n] /\ LineTrue(file[n])
      BY <1>2, <1>3, <2>2
    <3>2. QED
      BY <3>1, Zenon
  <2>3. CASE n = Len(file) + 1
    <3>1. file'[n] = r
      BY <1>2, <2>3
    <3>2. QED
      BY <3>1, Zenon
  <2>4. QED
    BY <2>1, <2>2, <2>3
<1>5. LinesTrue'
  BY <1>2, <1>4 DEF LinesTrue, LineTrue, StageOf, StageShownFor, IsHardReason
<1>6. QED
  BY <1>1, <1>2, <1>5

\* A form is worth 1 as long as its answer would count once more.
Worth(u) == IF u = "open" THEN 1 ELSE 0

\* The forms of one stage and use become n more.
LEMMA FormsAdd ==
  ASSUME NEW o \in [Forms -> Nat], NEW s \in Stages, NEW u \in Uses, NEW n \in Int,
         o[<<s, u>>] + n >= 0
  PROVE  /\ Add(o, s, u, n) \in [Forms -> Nat]
         /\ OpenOf(o) \in Nat /\ OpenOf(Add(o, s, u, n)) \in Nat
         /\ u = "open" => OpenOf(Add(o, s, u, n)) = OpenOf(o) + n
         /\ u # "open" => OpenOf(Add(o, s, u, n)) = OpenOf(o)
<1> DEFINE x == o[<<s, u>>] + n
           p == [o EXCEPT ![<<s, u>>] = x]
<1>1. <<s, u>> \in Forms
  BY DEF Forms
<1>2. x \in Nat /\ x = o[<<s, u>>] + n
  BY <1>1
<1>3. Add(o, s, u, n) = p
  BY DEF Add
<1> HIDE DEF x
<1>4. /\ p \in [Forms -> Nat] /\ p[<<s, u>>] = x
      /\ \A k \in Forms : k # <<s, u>> => p[k] = o[k]
  BY <1>1, <1>2, OneChanges
<1> HIDE DEF p
<1>5. /\ o[<<"pow", "open">>] \in Nat /\ o[<<"checkbox", "open">>] \in Nat
      /\ o[<<"captcha", "open">>] \in Nat /\ OpenOf(o) \in Nat
      /\ p[<<"pow", "open">>] \in Nat /\ p[<<"checkbox", "open">>] \in Nat
      /\ p[<<"captcha", "open">>] \in Nat /\ OpenOf(p) \in Nat
  BY <1>4, FormsCount
<1>6. /\ <<"pow", "open">> \in Forms /\ <<"checkbox", "open">> \in Forms
      /\ <<"captcha", "open">> \in Forms
  BY DEF Forms, Stages, Uses
<1>7. ASSUME NEW k \in {"pow", "checkbox", "captcha"}, u # "open" \/ s # k
      PROVE  p[<<k, "open">>] = o[<<k, "open">>]
  BY <1>4, <1>6, <1>7
<1>8. CASE u # "open"
  BY <1>3, <1>4, <1>5, <1>7, <1>8 DEF OpenOf
<1>9. CASE u = "open" /\ s = "pow"
  BY <1>2, <1>3, <1>4, <1>5, <1>7, <1>9 DEF OpenOf
<1>10. CASE u = "open" /\ s = "checkbox"
  BY <1>2, <1>3, <1>4, <1>5, <1>7, <1>10 DEF OpenOf
<1>11. CASE u = "open" /\ s = "captcha"
  BY <1>2, <1>3, <1>4, <1>5, <1>7, <1>11 DEF OpenOf
<1>12. QED
  BY <1>8, <1>9, <1>10, <1>11 DEF Stages

\* A form changes its use, and more new captchas are out.
LEMMA FormMoves ==
  ASSUME NEW o \in [Forms -> Nat], NEW s \in Stages, NEW u \in Uses, NEW t \in Stages,
         NEW to \in Uses, o[<<s, u>>] > 0
  PROVE  LET p == Add(Add(o, s, u, -1), t, to, 1)
         IN  /\ p \in [Forms -> Nat] /\ OpenOf(o) \in Nat /\ OpenOf(p) \in Nat
             /\ OpenOf(p) + Worth(u) = OpenOf(o) + Worth(to)
<1> DEFINE q == Add(o, s, u, -1)
           p == Add(q, t, to, 1)
<1>1. <<s, u>> \in Forms /\ <<t, to>> \in Forms
  BY DEF Forms
<1>2. o[<<s, u>>] \in Nat /\ o[<<s, u>>] + -1 >= 0 /\ -1 \in Int
  BY <1>1
<1>3. /\ q \in [Forms -> Nat] /\ OpenOf(o) \in Nat /\ OpenOf(q) \in Nat
      /\ u = "open" => OpenOf(q) = OpenOf(o) + -1
      /\ u # "open" => OpenOf(q) = OpenOf(o)
  BY <1>2, FormsAdd
<1> HIDE DEF q
<1>4. q[<<t, to>>] \in Nat /\ q[<<t, to>>] + 1 >= 0 /\ 1 \in Int
  BY <1>1, <1>3
<1>5. /\ p \in [Forms -> Nat] /\ OpenOf(p) \in Nat
      /\ to = "open" => OpenOf(p) = OpenOf(q) + 1
      /\ to # "open" => OpenOf(p) = OpenOf(q)
  BY <1>3, <1>4, FormsAdd
<1> HIDE DEF p
<1>6. OpenOf(p) + Worth(u) = OpenOf(o) + Worth(to)
  BY <1>3, <1>5 DEF Worth
<1>7. QED
  BY <1>3, <1>5, <1>6 DEF p, q

\* An answer that is counted leaves no open form behind, and none opens one.
LEMMA NotReopened ==
  ASSUME NEW e, NEW f, NEW u \in Uses, NEW ok \in BOOLEAN, NEW to \in UsesAfter(e, f, u, ok)
  PROVE  /\ to \in Uses /\ (ok => Worth(to) = 0) /\ Worth(to) =< Worth(u)
         /\ Worth(u) \in {0, 1} /\ Worth(to) \in {0, 1}
BY DEF UsesAfter, Uses, Worth

\* Steps that push events and log a line keep the books when the pages they show
\* and the answers they count balance.
LEMMA EventsBalance ==
  ASSUME Books, NEW h \in Histories,
         h.since = history.since, h.stale = history.stale, h.lost = history.lost,
         h.credit = history.credit, h.repeats \in Nat, history' = Since(h),
         pending' \in [Counter -> Nat], table' = table, reset' = reset,
          forms' \in [Forms -> Nat], showing' \in Nat,
         file' = file \/ \E r : LineTrue(r) /\ file' = Append(file, r),
         SampleStep = 1 =>
           pending'["solved"] + OpenForms' + pending["challenged"] + showing + history.repeats
           =< pending["solved"] + OpenForms + pending'["challenged"] + showing' + h.repeats
  PROVE  Books'
<1>1. /\ history' \in Histories
      /\ \A c \in Counter : history'.since[c] = history.since[c] + pending'[c] - pending[c]
      /\ history'.stale = history.stale /\ history'.lost = history.lost
      /\ history'.credit = history.credit /\ history'.repeats = h.repeats
  BY SinceMoves DEF Books, Typed
<1>3. /\ Len(file') \in Nat /\ file' = [n \in 1 .. Len(file') |-> file'[n]]
      /\ LinesTrue'
  <2>1. CASE file' = file
    BY <2>1 DEF Books, Typed, LinesTrue
  <2>2. CASE \E r : LineTrue(r) /\ file' = Append(file, r)
    BY <2>2, LineAdded
  <2>3. QED
    BY <2>1, <2>2
<1>4. Typed'
  BY <1>1, <1>3 DEF Books, Typed
<1>5. Cleared'
  BY <1>1 DEF Books, Cleared
<1>6. Recent'
  <2>1. \A c \in Counter : /\ pending[c] \in Nat /\ pending'[c] \in Nat
                           /\ history.since[c] \in Int /\ table[c] \in Nat
    BY DEF Books, Typed, Histories
  <2>2. ASSUME NEW c \in Counter
        PROVE  /\ reset'.pc = "truncated" => pending'[c] =< history'.since[c]
               /\ reset'.pc = "idle" /\ reset'.answer = "done"
                    => table'[c] + pending'[c] =< history'.since[c]
    <3>1. /\ reset.pc = "truncated" => pending[c] =< history.since[c]
          /\ reset.pc = "idle" /\ reset.answer = "done"
               => table[c] + pending[c] =< history.since[c]
      BY DEF Books, Recent
    <3>2. /\ pending[c] \in Nat /\ pending'[c] \in Nat
          /\ history.since[c] \in Int /\ table[c] \in Nat /\ table'[c] = table[c]
          /\ history'.since[c] = history.since[c] + pending'[c] - pending[c]
      BY <1>1, <2>1
    <3>3. QED
      BY <3>1, <3>2
  <2>3. QED
    BY <2>2 DEF Recent
<1>7. Backed'
  <2>1. /\ pending["solved"] \in Nat /\ pending'["solved"] \in Nat
        /\ pending["challenged"] \in Nat /\ pending'["challenged"] \in Nat
        /\ table["solved"] \in Nat /\ table["challenged"] \in Nat
        /\ showing \in Nat /\ showing' \in Nat
    BY Followed DEF Books, Typed
  <2>2. OpenForms \in Nat /\ OpenForms' \in Nat
    <3>1. forms \in [Forms -> Nat] /\ forms' \in [Forms -> Nat]
      BY DEF Books, Typed
    <3>2. OpenForms \in Nat
      BY <3>1, FormsCount DEF OpenForms
    <3>3. OpenForms' \in Nat
      BY <3>1, FormsCount DEF OpenForms
    <3>4. QED
      BY <3>2, <3>3
  <2>3. /\ history.lost \in Nat /\ history.credit \in Nat /\ history.repeats \in Nat
    BY DEF Books, Typed, Histories
  <2>4. SUFFICES ASSUME SampleStep = 1
                 PROVE  table["solved"] + pending'["solved"] + OpenForms'
                        =< table["challenged"] + pending'["challenged"] + showing'
                             + history.lost + history.credit + h.repeats
    BY <1>1 DEF Backed
  <2>5. table["solved"] + pending["solved"] + OpenForms
          =< table["challenged"] + pending["challenged"] + showing
               + history.lost + history.credit + history.repeats
    BY <2>4 DEF Books, Backed
  <2>6. pending'["solved"] + OpenForms' + pending["challenged"] + showing + history.repeats
          =< pending["solved"] + OpenForms + pending'["challenged"] + showing' + h.repeats
    BY <2>4, Zenon
  <2> DEFINE a == table["solved"]
             b == pending["solved"]
             d == table["challenged"]
             e == pending["challenged"]
             l == history.lost
             k == history.credit
             p == history.repeats
             b1 == pending'["solved"]
             c1 == OpenForms'
             e1 == pending'["challenged"]
             f1 == showing'
             p1 == h.repeats
  <2>7. /\ a \in Nat /\ b \in Nat /\ d \in Nat /\ e \in Nat
        /\ l \in Nat /\ k \in Nat /\ p \in Nat
        /\ b1 \in Nat /\ c1 \in Nat /\ e1 \in Nat /\ f1 \in Nat /\ p1 \in Nat
        /\ OpenForms \in Nat /\ showing \in Nat
    BY <2>1, <2>2, <2>3
  <2>8. /\ a + b + OpenForms =< d + e + showing + l + k + p
        /\ b1 + c1 + e + showing + p =< b + OpenForms + e1 + f1 + p1
    BY <2>5, <2>6
  <2>9. a + b1 + c1 =< d + e1 + f1 + l + k + p1
    <3> HIDE DEF a, b, d, e, l, k, p, b1, c1, e1, f1, p1
    <3>1. QED
      BY <2>7, <2>8
  <2>10. QED
    BY <2>9
<1>8. QED
  BY <1>3, <1>4, <1>5, <1>6, <1>7 DEF Books

\* What the history keeps when a visit is counted.
LEMMA VisitCounted ==
  ASSUME NEW h \in Histories, NEW n \in Nat,
         NEW g, g = [h EXCEPT !.visits = @ + 1, !.hits = @ + n]
  PROVE  /\ g \in Histories /\ g.since = h.since /\ g.stale = h.stale
         /\ g.lost = h.lost /\ g.credit = h.credit /\ g.repeats = h.repeats
<1> DEFINE a == h.visits + 1
           b == h.hits + n
<1>1. a \in Nat /\ b \in Nat
  BY DEF Histories
<1>2. g = [h EXCEPT !.visits = a, !.hits = b]
  OBVIOUS
<1> HIDE DEF a, b
<1>3. QED
  BY <1>1, <1>2 DEF Histories

\* A visit writes a true line, and opens a form when it shows one.
LEMMA StepVisit ==
  ASSUME Books, NEW t \in Traffic, Visit(t)
  PROVE  Books'
<1>1. PICK v \in Evaluate(t.q) :
        LET stage == IF v.decision = "Challenge" /\ Enforce /\ ~t.api THEN Stage(v)
                                                                      ELSE "none"
            calls == IF v.decision = "Allow" THEN <<"hits", "allowed">> ELSE <<"hits">>
        IN  /\ file' = LogVerdict(v, stage)
            /\ RecordFP(calls)
            /\ history' = Since([history EXCEPT !.visits = @ + 1,
                                                !.hits = @ + Kept(calls, "hits")])
            /\ IF stage = "none" THEN UNCHANGED <<showing, forms>>
               ELSE /\ showing' = showing + 1
                    /\ forms' = Add(forms, stage, "open", 1)
  BY DEF Visit
<1> DEFINE stage == IF v.decision = "Challenge" /\ Enforce /\ ~t.api THEN Stage(v) ELSE "none"
           calls == IF v.decision = "Allow" THEN <<"hits", "allowed">> ELSE <<"hits">>
           h == [history EXCEPT !.visits = @ + 1, !.hits = @ + Kept(calls, "hits")]
           line == Record(v.decision, v.class, v.about, v.score, stage)
<1>2. /\ file' = LogVerdict(v, stage) /\ RecordFP(calls) /\ history' = Since(h)
      /\ stage = "none" => showing' = showing /\ forms' = forms
      /\ stage # "none" => /\ showing' = showing + 1
                           /\ forms' = Add(forms, stage, "open", 1)
  BY <1>1
<1>3. /\ calls \in {<<"hits", "allowed">>, <<"hits">>}
      /\ stage = "none" \/ stage = Stage(v)
      /\ stage # "none" => stage \in Stages
  BY DEF Stage, Stages
<1>4. v.decision \in Decisions
  <2>1. t.q \in Requests(Nat, Nat, Nat)
    BY TrafficAssumption
  <2>2. QED
    BY <2>1, Decides
<1>5. LineTrue(line)
  <2> HIDE DEF stage
  <2>1. QED
    BY <1>3, <1>4, VerdictLine
<1> HIDE DEF stage, calls
<1>6. file' = file \/ \E r : LineTrue(r) /\ file' = Append(file, r)
  <2>1. file' = file \/ file' = Append(file, line)
    BY <1>2 DEF LogVerdict
  <2> HIDE DEF line
  <2>2. QED
    BY <1>5, <2>1
<1> HIDE DEF line
<1>7. /\ pending \in [Counter -> Nat] /\ history \in Histories /\ showing \in Nat
      /\ forms \in [Forms -> Nat]
  BY DEF Books, Typed
<1>8. /\ pending' \in [Counter -> Nat] /\ Kept(calls, "hits") \in Nat
      /\ pending'["solved"] = pending["solved"]
      /\ pending'["challenged"] >= pending["challenged"]
  BY <1>2, <1>3, <1>7, VisitCalls
<1>9. /\ h \in Histories /\ h.since = history.since /\ h.stale = history.stale
      /\ h.lost = history.lost /\ h.credit = history.credit /\ h.repeats = history.repeats
      /\ h.repeats \in Nat
  <2>1. h \in Histories /\ h.since = history.since /\ h.stale = history.stale
        /\ h.lost = history.lost /\ h.credit = history.credit /\ h.repeats = history.repeats
    <3> DEFINE n == Kept(calls, "hits")
    <3>1. h = [history EXCEPT !.visits = @ + 1, !.hits = @ + n]
      OBVIOUS
    <3> HIDE DEF h, n
    <3>2. n \in Nat
      BY <1>8 DEF n
    <3>3. history \in Histories
      BY <1>7
    <3>4. QED
      BY <3>1, <3>2, <3>3, VisitCounted, Zenon
  <2>2. history.repeats \in Nat
    BY <1>7 DEF Histories
  <2> HIDE DEF h
  <2>3. QED
    BY <2>1, <2>2
<1> HIDE DEF h
<1>10. /\ forms' \in [Forms -> Nat] /\ showing' \in Nat
       /\ OpenForms' + showing =< OpenForms + showing'
  <2>1. OpenForms = OpenOf(forms) /\ OpenForms' = OpenOf(forms')
    BY DEF OpenForms, OpenOf
  <2>2. OpenOf(forms) \in Nat
    BY <1>7, FormsCount
  <2>3. CASE stage = "none"
    BY <1>2, <1>7, <2>1, <2>2, <2>3
  <2>4. CASE stage # "none"
    <3>1. stage \in Stages /\ "open" \in Uses /\ <<stage, "open">> \in Forms
      BY <1>3, <2>4 DEF Uses, Forms
    <3>2. forms[<<stage, "open">>] + 1 >= 0
      BY <1>7, <3>1
    <3>3. /\ Add(forms, stage, "open", 1) \in [Forms -> Nat]
          /\ OpenOf(Add(forms, stage, "open", 1)) = OpenOf(forms) + 1
      BY <1>7, <3>1, <3>2, FormsAdd
    <3>4. QED
      BY <1>2, <1>7, <2>1, <2>2, <2>4, <3>3
  <2>5. QED
    BY <2>3, <2>4
<1>11. /\ pending["solved"] \in Nat /\ pending["challenged"] \in Nat
       /\ pending'["challenged"] \in Nat
       /\ OpenForms \in Nat /\ OpenForms' \in Nat
  BY <1>7, <1>8, <1>10, Followed, FormsCount DEF OpenForms
<1>12. pending'["solved"] + OpenForms' + pending["challenged"] + showing + history.repeats
        =< pending["solved"] + OpenForms + pending'["challenged"] + showing' + h.repeats
  <2> DEFINE b == pending["solved"]
             e == pending["challenged"]
             e1 == pending'["challenged"]
             c1 == OpenForms'
             f1 == showing'
             p == history.repeats
  <2>1. /\ b \in Nat /\ e \in Nat /\ e1 \in Nat /\ c1 \in Nat /\ f1 \in Nat /\ p \in Nat
        /\ OpenForms \in Nat /\ showing \in Nat
        /\ e1 >= e /\ c1 + showing =< OpenForms + f1
    BY <1>7, <1>8, <1>9, <1>10, <1>11
  <2>2. b + c1 + e + showing + p =< b + OpenForms + e1 + f1 + p
    <3> HIDE DEF b, e, e1, c1, f1, p
    <3>1. QED
      BY <2>1
  <2>3. QED
    BY <1>8, <1>9, <2>2
<1>13. /\ table' = table /\ reset' = reset
  BY DEF Visit
<1>14. QED
  BY <1>2, <1>6, <1>8, <1>9, <1>10, <1>12, <1>13, EventsBalance

\* The event of a page that was shown is pushed.
LEMMA StepCountShown ==
  ASSUME Books, CountShown
  PROVE  Books'
<1>1. /\ pending \in [Counter -> Nat] /\ history \in Histories /\ showing \in Nat
      /\ forms \in [Forms -> Nat] /\ forms' = forms /\ showing > 0 /\ showing' = showing - 1
      /\ file' = file /\ table' = table /\ reset' = reset
      /\ history' = Since(history) /\ RecordFP(<<"challenged">>)
  BY DEF Books, Typed, CountShown
<1>2. /\ pending' \in [Counter -> Nat] /\ pending'["solved"] = pending["solved"]
      /\ SampleStep = 1 => pending'["challenged"] = pending["challenged"] + 1
  BY <1>1, VisitCalls
<1>3. /\ pending["solved"] \in Nat /\ pending["challenged"] \in Nat
      /\ OpenForms \in Nat /\ OpenForms' = OpenForms /\ history.repeats \in Nat
  <2>1. OpenForms \in Nat
    BY <1>1, FormsCount DEF OpenForms
  <2>2. OpenForms' = OpenForms
    BY <1>1 DEF OpenForms, OpenOf
  <2>3. QED
    BY <1>1, <2>1, <2>2, Followed DEF Histories
<1>4. ASSUME SampleStep = 1
      PROVE pending'["solved"] + OpenForms' + pending["challenged"] + showing + history.repeats
            =< pending["solved"] + OpenForms + pending'["challenged"] + showing' + history.repeats
  BY <1>1, <1>2, <1>3, <1>4
<1>5. showing' \in Nat /\ forms' \in [Forms -> Nat]
  BY <1>1
<1>6. QED
  BY <1>1, <1>2, <1>3, <1>4, <1>5, EventsBalance

\* An answer pushes one event, and only a right one counts as solved.
LEMMA AnswerPushed ==
  ASSUME Books, NEW ok \in BOOLEAN, Push(IF ok THEN "solved" ELSE "failed")
  PROVE  /\ pending' \in [Counter -> Nat]
         /\ pending["challenged"] \in Nat /\ pending["solved"] \in Nat
         /\ pending'["challenged"] = pending["challenged"]
         /\ pending'["solved"] = pending["solved"] + (IF ok THEN 1 ELSE 0)
<1>1. /\ pending["challenged"] \in Nat /\ pending["solved"] \in Nat
      /\ "challenged" \in Counter /\ "solved" \in Counter
      /\ pending \in [Counter -> Nat]
  BY Followed DEF Books, Typed
<1>2. CASE ok
  <2> DEFINE x == pending["solved"] + 1
  <2>1. x \in Nat /\ pending' = [pending EXCEPT !["solved"] = x]
    BY <1>1, <1>2 DEF Push
  <2>2. x = pending["solved"] + 1
    OBVIOUS
  <2> HIDE DEF x
  <2>3. /\ pending' \in [Counter -> Nat] /\ pending'["solved"] = x
        /\ pending'["challenged"] = pending["challenged"]
    BY <1>1, <2>1, OneChanges
  <2>4. QED
    BY <1>1, <1>2, <2>2, <2>3
<1>3. CASE ~ok
  <2> DEFINE x == pending["failed"] + 1
  <2>1. pending' = [pending EXCEPT !["failed"] = x]
    BY <1>3 DEF Push
  <2>2. CASE "failed" \in Counter
    <3>1. x \in Nat
      BY <1>1, <2>2
    <3> HIDE DEF x
    <3>2. /\ pending' \in [Counter -> Nat] /\ pending'["solved"] = pending["solved"]
          /\ pending'["challenged"] = pending["challenged"]
      BY <1>1, <2>1, <3>1, OneChanges
    <3>3. QED
      BY <1>1, <1>3, <3>2
  <2>3. CASE "failed" \notin Counter
    <3> HIDE DEF x
    <3>1. pending' = pending
      BY <1>1, <2>1, <2>3
    <3>2. QED
      BY <1>1, <1>3, <3>1
  <2>4. QED
    BY <2>2, <2>3
<1>4. QED
  BY <1>2, <1>3

\* An answer is paid for with an open form, a page, or a repeat.
LEMMA StepAnswer ==
  ASSUME Books, NEW e \in Stages, NEW f \in Stages, NEW u \in Uses, NEW ok \in BOOLEAN,
         NEW reason, e = (IF reason.class \in {"captcha", "checkbox"} THEN reason.class
                                                                      ELSE "pow"),
         NEW more \in {0, 1}, Answer(e, f, u, ok, reason, more)
  PROVE  Books'
<1> DEFINE n == IF ok /\ u # "open" THEN 1 ELSE 0
           cost == IF ok THEN 1 ELSE 0
           h == [history EXCEPT !.answers = @ + 1, !.repeats = @ + n]
<1>1. /\ history \in Histories /\ forms \in [Forms -> Nat] /\ showing \in Nat
      /\ history.repeats \in Nat
  BY DEF Books, Typed, Histories
<1>2. PICK to \in UsesAfter(e, f, u, ok) :
        forms' = Add(Add(Add(forms, f, u, -1), f, to, 1), "captcha", "open", more)
  BY DEF Answer
<1>3. /\ forms[<<f, u>>] > 0 /\ showing' = showing + more /\ history' = Since(h)
      /\ Push(IF ok THEN "solved" ELSE "failed") /\ file' = LogResult(ok, reason, e)
      /\ table' = table /\ reset' = reset
  BY DEF Answer
<1>4. /\ to \in Uses /\ (ok => Worth(to) = 0) /\ Worth(to) =< Worth(u)
      /\ Worth(u) \in {0, 1} /\ Worth(to) \in {0, 1}
  BY <1>2, NotReopened
<1>5. /\ forms' \in [Forms -> Nat] /\ OpenForms \in Nat /\ OpenForms' \in Nat
      /\ OpenForms' + Worth(u) = OpenForms + Worth(to) + more
  <2> DEFINE q == Add(Add(forms, f, u, -1), f, to, 1)
  <2>1. /\ q \in [Forms -> Nat] /\ OpenOf(forms) \in Nat /\ OpenOf(q) \in Nat
        /\ OpenOf(q) + Worth(u) = OpenOf(forms) + Worth(to)
    BY <1>1, <1>3, <1>4, FormMoves
  <2>2. forms' = Add(q, "captcha", "open", more)
    BY <1>2
  <2> HIDE DEF q
  <2>3. "captcha" \in Stages /\ "open" \in Uses /\ <<"captcha", "open">> \in Forms
    BY DEF Stages, Uses, Forms
  <2>4. q[<<"captcha", "open">>] + more >= 0 /\ more \in Int
    BY <2>1, <2>3
  <2>5. forms' \in [Forms -> Nat] /\ OpenOf(forms') = OpenOf(q) + more
    BY <2>1, <2>2, <2>3, <2>4, FormsAdd
  <2>6. OpenForms = OpenOf(forms) /\ OpenForms' = OpenOf(forms')
    BY DEF OpenForms, OpenOf
  <2>7. Worth(u) \in Nat /\ Worth(to) \in Nat
    BY <1>4
  <2>8. QED
    BY <2>1, <2>5, <2>6, <2>7
<1>6. n \in {0, 1} /\ cost \in {0, 1} /\ cost + Worth(to) =< Worth(u) + n
  <2>1. CASE ok
    BY <1>4, <2>1 DEF Worth
  <2>2. CASE ~ok
    BY <1>4, <2>2
  <2>3. QED
    BY <2>1, <2>2
<1>7. /\ h \in Histories /\ h.since = history.since /\ h.stale = history.stale
      /\ h.lost = history.lost /\ h.credit = history.credit
      /\ h.repeats = history.repeats + n
  <2> DEFINE a == history.answers + 1
             b == history.repeats + n
  <2>1. h = [history EXCEPT !.answers = a, !.repeats = b]
    OBVIOUS
  <2>2. history.answers \in Nat /\ history.repeats \in Nat /\ n \in Nat
    BY <1>1 DEF Histories
  <2>3. a \in Nat /\ b \in Nat /\ b = history.repeats + n
    BY <2>2
  <2> HIDE DEF h, n, a, b
  <2>4. QED
    BY <1>1, <2>1, <2>3 DEF Histories
<1>8. /\ pending' \in [Counter -> Nat]
      /\ pending["challenged"] \in Nat /\ pending["solved"] \in Nat
      /\ pending'["challenged"] = pending["challenged"]
      /\ pending'["solved"] = pending["solved"] + cost
  BY <1>3, AnswerPushed
<1>9. \E r : LineTrue(r) /\ file' = Append(file, r)
  <2> DEFINE decision == IF ok THEN "challenge_solved" ELSE "challenge_failed"
             line == Record(decision, reason.class, reason.about, 0, e)
  <2>1. file' = Append(file, line)
    BY <1>3 DEF LogResult
  <2>2. decision \in {"challenge_solved", "challenge_failed"}
    OBVIOUS
  <2> HIDE DEF decision
  <2>3. LineTrue(line)
    BY <2>2, AnswerLine
  <2> HIDE DEF line
  <2>4. QED
    BY <2>1, <2>3
<1> HIDE DEF h, n, cost
<1>10. /\ showing' \in Nat /\ h.repeats \in Nat
       /\ pending'["solved"] + OpenForms' + pending["challenged"] + showing + history.repeats
          =< pending["solved"] + OpenForms + pending'["challenged"] + showing' + h.repeats
  <2> DEFINE b == pending["solved"]
             c == pending["challenged"]
             p == history.repeats
             w == Worth(u)
             v == Worth(to)
             d == OpenForms'
  <2>1. /\ b \in Nat /\ c \in Nat /\ p \in Nat /\ w \in Nat /\ v \in Nat /\ d \in Nat
        /\ OpenForms \in Nat /\ showing \in Nat /\ n \in Nat /\ cost \in Nat
        /\ cost + v =< w + n /\ d + w = OpenForms + v + more
    BY <1>1, <1>4, <1>5, <1>6, <1>8
  <2>2. (b + cost) + d + c + showing + p =< b + OpenForms + c + (showing + more) + (p + n)
    <3> HIDE DEF b, c, p, w, v, d
    <3>1. QED
      BY <2>1
  <2>3. QED
    BY <1>1, <1>3, <1>6, <1>7, <1>8, <2>2
<1>11. QED
  BY <1>3, <1>5, <1>7, <1>8, <1>9, <1>10, EventsBalance

\* The three endpoints log the stages they are named for.
LEMMA StepEndpoints ==
  ASSUME Books, NEW f \in Stages, NEW u \in Uses, NEW ok \in BOOLEAN,
         VerifyHTTP(f, u, ok) \/ CheckboxHTTP(f, u, ok) \/ CaptchaHTTP(f, u, ok)
  PROVE  Books'
<1>1. CASE VerifyHTTP(f, u, ok)
  <2> DEFINE reason == [class |-> IF ok THEN "solved" ELSE "bad proof", about |-> ""]
  <2>1. Answer("pow", f, u, ok, reason, 0)
    BY <1>1 DEF VerifyHTTP
  <2>2. "pow" = IF reason.class \in {"captcha", "checkbox"} THEN reason.class ELSE "pow"
    OBVIOUS
  <2> HIDE DEF reason
  <2>3. "pow" \in Stages /\ 0 \in {0, 1}
    BY DEF Stages
  <2>4. QED
    BY <2>1, <2>2, <2>3, StepAnswer
<1>2. CASE CheckboxHTTP(f, u, ok)
  <2> DEFINE reason == [class |-> "checkbox", about |-> IF ok THEN "solved" ELSE "webdriver"]
  <2>1. Answer("checkbox", f, u, ok, reason, 0)
    BY <1>2 DEF CheckboxHTTP
  <2>2. "checkbox" = IF reason.class \in {"captcha", "checkbox"} THEN reason.class ELSE "pow"
    OBVIOUS
  <2> HIDE DEF reason
  <2>3. "checkbox" \in Stages /\ 0 \in {0, 1}
    BY DEF Stages
  <2>4. QED
    BY <2>1, <2>2, <2>3, StepAnswer
<1>3. CASE CaptchaHTTP(f, u, ok)
  <2> DEFINE reason == [class |-> "captcha", about |-> IF ok THEN "solved" ELSE "wrong"]
             more == IF ok THEN 0 ELSE 1
  <2>1. Answer("captcha", f, u, ok, reason, more)
    BY <1>3 DEF CaptchaHTTP
  <2>2. "captcha" = IF reason.class \in {"captcha", "checkbox"} THEN reason.class ELSE "pow"
    OBVIOUS
  <2>3. "captcha" \in Stages /\ more \in {0, 1}
    BY DEF Stages
  <2> HIDE DEF reason, more
  <2>4. QED
    BY <2>1, <2>2, <2>3, StepAnswer
<1>4. QED
  BY <1>1, <1>2, <1>3

\* A captcha that comes too late, or none at all, is answered with a page whose
\* event is to come.
LEMMA StepNewCaptcha ==
  ASSUME Books, CaptchaUnparsed \/ \E f \in Stages, u \in Uses : CaptchaExpired(f, u)
  PROVE  Books'
<1> DEFINE h == [history EXCEPT !.answers = @ + 1]
<1>1. /\ history \in Histories /\ showing \in Nat /\ forms \in [Forms -> Nat]
      /\ history.repeats \in Nat /\ pending \in [Counter -> Nat]
  BY DEF Books, Typed, Histories
<1>2. /\ history' = h /\ showing' = showing + 1
      /\ file' = file /\ pending' = pending /\ table' = table /\ reset' = reset
  BY DEF CaptchaExpired, CaptchaUnparsed
<1>3. /\ h \in Histories /\ h.since = history.since /\ h.stale = history.stale
      /\ h.lost = history.lost /\ h.credit = history.credit /\ h.repeats = history.repeats
  BY <1>1 DEF Histories
<1> HIDE DEF h
<1>4. /\ forms' \in [Forms -> Nat] /\ OpenForms \in Nat /\ OpenForms' \in Nat
      /\ OpenForms' =< OpenForms + 1
  <2>1. OpenForms = OpenOf(forms) /\ OpenForms' = OpenOf(forms')
    BY DEF OpenForms, OpenOf
  <2>2. "captcha" \in Stages /\ "open" \in Uses /\ <<"captcha", "open">> \in Forms
    BY DEF Stages, Uses, Forms
  <2>3. CASE CaptchaUnparsed
    <3>1. forms[<<"captcha", "open">>] + 1 >= 0
      BY <1>1, <2>2
    <3>2. forms' = Add(forms, "captcha", "open", 1)
      BY <2>3 DEF CaptchaUnparsed
    <3>3. /\ forms' \in [Forms -> Nat] /\ OpenOf(forms) \in Nat
          /\ OpenOf(forms') = OpenOf(forms) + 1
      BY <1>1, <2>2, <3>1, <3>2, FormsAdd
    <3>4. QED
      BY <2>1, <3>3
  <2>4. ASSUME NEW f \in Stages, NEW u \in Uses, CaptchaExpired(f, u)
        PROVE  /\ forms' \in [Forms -> Nat] /\ OpenForms \in Nat /\ OpenForms' \in Nat
               /\ OpenForms' =< OpenForms + 1
    <3>1. forms' = Add(Add(forms, f, u, -1), "captcha", "open", 1) /\ forms[<<f, u>>] > 0
      BY <2>4 DEF CaptchaExpired
    <3>2. /\ forms' \in [Forms -> Nat] /\ OpenOf(forms) \in Nat /\ OpenOf(forms') \in Nat
          /\ OpenOf(forms') + Worth(u) = OpenOf(forms) + Worth("open")
      BY <1>1, <2>2, <3>1, FormMoves
    <3>3. Worth(u) \in Nat /\ Worth("open") = 1
      BY DEF Worth
    <3>4. QED
      BY <2>1, <3>2, <3>3
  <2>5. QED
    BY <2>3, <2>4
<1>5. pending["solved"] \in Nat /\ pending["challenged"] \in Nat
  BY <1>1, Followed
<1>6. Since(h) = h
  BY <1>1, <1>2, <1>3, SinceMoves
<1>7. pending'["solved"] + OpenForms' + pending["challenged"] + showing + history.repeats
        =< pending["solved"] + OpenForms + pending'["challenged"] + showing' + h.repeats
  <2> DEFINE b == pending["solved"]
             c == pending["challenged"]
             p == history.repeats
             d == OpenForms'
  <2>1. /\ b \in Nat /\ c \in Nat /\ p \in Nat /\ d \in Nat /\ OpenForms \in Nat
        /\ showing \in Nat /\ d =< OpenForms + 1
    BY <1>1, <1>4, <1>5
  <2>2. b + d + c + showing + p =< b + OpenForms + c + (showing + 1) + p
    <3> HIDE DEF b, c, p, d
    <3>1. QED
      BY <2>1
  <2>3. QED
    BY <1>2, <1>3, <2>2
<1>8. showing' \in Nat /\ pending' \in [Counter -> Nat] /\ history' = Since(h)
      /\ h.repeats \in Nat
  BY <1>1, <1>2, <1>3, <1>6
<1>9. QED
  BY <1>2, <1>3, <1>4, <1>7, <1>8, EventsBalance

\* An event that leaves pending.
LEMMA EventLeaves ==
  ASSUME Books, NEW c \in Counter, pending[c] > 0, pending' = [pending EXCEPT ![c] = @ - 1]
  PROVE  /\ pending' \in [Counter -> Nat] /\ pending[c] \in Nat /\ pending'[c] = pending[c] - 1
         /\ \A j \in Counter : j # c => pending'[j] = pending[j]
<1> DEFINE x == pending[c] - 1
<1>1. pending \in [Counter -> Nat]
  BY DEF Books, Typed
<1>2. x \in Nat /\ pending[c] \in Nat /\ x = pending[c] - 1 /\ pending' = [pending EXCEPT ![c] = x]
  BY <1>1
<1> HIDE DEF x
<1>3. QED
  BY <1>1, <1>2, OneChanges

\* An event reaches the table: what is counted there was on its way.
LEMMA StepLand ==
  ASSUME Books, NEW c \in Counter, Land(c)
  PROVE  Books'
<1> DEFINE y == table[c] + 1
<1>1. /\ pending \in [Counter -> Nat] /\ table \in [Counter -> Nat]
  BY DEF Books, Typed
<1>2. /\ pending[c] > 0 /\ pending' = [pending EXCEPT ![c] = @ - 1]
      /\ table' = [table EXCEPT ![c] = y]
      /\ file' = file /\ showing' = showing /\ forms' = forms
      /\ reset' = reset /\ history' = history
  BY DEF Land
<1>3. /\ pending' \in [Counter -> Nat] /\ pending[c] \in Nat /\ pending'[c] = pending[c] - 1
      /\ \A j \in Counter : j # c => pending'[j] = pending[j]
  BY <1>2, EventLeaves
<1>4. y \in Nat /\ table[c] \in Nat /\ y = table[c] + 1
  BY <1>1
<1> HIDE DEF y
<1>5. /\ table' \in [Counter -> Nat] /\ table'[c] = y
      /\ \A j \in Counter : j # c => table'[j] = table[j]
  BY <1>1, <1>2, <1>4, OneChanges
<1>6. ASSUME NEW j \in Counter
      PROVE  table'[j] + pending'[j] = table[j] + pending[j] /\ pending'[j] =< pending[j]
  <2>1. CASE j = c
    BY <1>3, <1>4, <1>5, <2>1
  <2>2. CASE j # c
    <3>1. table'[j] = table[j] /\ pending'[j] = pending[j] /\ pending[j] \in Nat
      BY <1>1, <1>3, <1>5, <2>2
    <3>2. QED
      BY <3>1
  <2>3. QED
    BY <2>1, <2>2
<1>7. Typed'
  BY <1>2, <1>3, <1>5 DEF Books, Typed
<1>8. LinesTrue'
  BY <1>2 DEF Books, LinesTrue, LineTrue, StageOf, StageShownFor, IsHardReason
<1>9. Cleared'
  BY <1>2 DEF Books, Cleared
<1>10. Recent'
  <2>1. ASSUME NEW j \in Counter
        PROVE  /\ reset.pc = "truncated" => pending'[j] =< history.since[j]
               /\ reset.pc = "idle" /\ reset.answer = "done"
                    => table'[j] + pending'[j] =< history.since[j]
    <3>1. /\ reset.pc = "truncated" => pending[j] =< history.since[j]
          /\ reset.pc = "idle" /\ reset.answer = "done"
               => table[j] + pending[j] =< history.since[j]
      BY DEF Books, Recent
    <3>2. /\ pending[j] \in Nat /\ pending'[j] \in Nat /\ history.since[j] \in Int
      BY <1>1, <1>3 DEF Books, Typed, Histories
    <3>3. QED
      BY <1>6, <3>1, <3>2
  <2>2. QED
    BY <1>2, <2>1 DEF Recent
<1>11. Backed'
  <2>1. OpenForms' = OpenForms
    BY <1>2 DEF OpenForms, OpenOf
  <2>2. /\ table'["solved"] + pending'["solved"] = table["solved"] + pending["solved"]
        /\ table'["challenged"] + pending'["challenged"]
             = table["challenged"] + pending["challenged"]
    BY <1>6, Followed
  <2>3. QED
    BY <1>2, <2>1, <2>2 DEF Books, Backed
<1>12. QED
  BY <1>7, <1>8, <1>9, <1>10, <1>11 DEF Books

\* An event is lost, and the history says so if it was a page's.
LEMMA StepLose ==
  ASSUME Books, NEW c \in Counter, Lose(c)
  PROVE  Books'
<1> DEFINE w == history.lost + (IF c = "challenged" THEN 1 ELSE 0)
           g == history.gone + 1
<1>1. /\ pending \in [Counter -> Nat] /\ table \in [Counter -> Nat] /\ history \in Histories
      /\ forms \in [Forms -> Nat] /\ showing \in Nat
  BY DEF Books, Typed
<1>2. /\ pending[c] > 0 /\ pending' = [pending EXCEPT ![c] = @ - 1]
      /\ history' = [history EXCEPT !.gone = g, !.lost = w]
      /\ file' = file /\ showing' = showing /\ forms' = forms
      /\ reset' = reset /\ table' = table
  BY DEF Lose
<1>3. /\ pending' \in [Counter -> Nat] /\ pending[c] \in Nat /\ pending'[c] = pending[c] - 1
      /\ \A j \in Counter : j # c => pending'[j] = pending[j]
  BY <1>2, EventLeaves
<1>4. /\ w \in Nat /\ g \in Nat /\ history.lost \in Nat /\ w >= history.lost
      /\ c = "challenged" => w = history.lost + 1
  BY <1>1 DEF Histories
<1> HIDE DEF w, g
<1>5. /\ history' \in Histories /\ history'.since = history.since
      /\ history'.stale = history.stale /\ history'.lost = w
      /\ history'.credit = history.credit /\ history'.repeats = history.repeats
  BY <1>1, <1>2, <1>4 DEF Histories
<1>6. \A j \in Counter : /\ pending[j] \in Nat /\ pending'[j] \in Nat /\ table[j] \in Nat
                         /\ pending'[j] =< pending[j]
  <2>1. ASSUME NEW j \in Counter
        PROVE  pending'[j] =< pending[j]
    <3>1. CASE j = c
      BY <1>3, <3>1
    <3>2. CASE j # c
      <4>1. pending'[j] = pending[j] /\ pending[j] \in Nat
        BY <1>1, <1>3, <3>2
      <4>2. QED
        BY <4>1
    <3>3. QED
      BY <3>1, <3>2
  <2>2. QED
    BY <1>1, <1>3, <2>1
<1>7. Typed'
  BY <1>2, <1>3, <1>5 DEF Books, Typed
<1>8. LinesTrue'
  BY <1>2 DEF Books, LinesTrue, LineTrue, StageOf, StageShownFor, IsHardReason
<1>9. Cleared'
  BY <1>2, <1>5 DEF Books, Cleared
<1>10. Recent'
  <2>1. ASSUME NEW j \in Counter
        PROVE  /\ reset.pc = "truncated" => pending'[j] =< history.since[j]
               /\ reset.pc = "idle" /\ reset.answer = "done"
                    => table[j] + pending'[j] =< history.since[j]
    <3>1. /\ reset.pc = "truncated" => pending[j] =< history.since[j]
          /\ reset.pc = "idle" /\ reset.answer = "done"
               => table[j] + pending[j] =< history.since[j]
      BY DEF Books, Recent
    <3>2. history.since[j] \in Int
      BY <1>1 DEF Histories
    <3>3. QED
      BY <1>6, <3>1, <3>2
  <2>2. QED
    BY <1>2, <1>5, <2>1 DEF Recent
<1>11. Backed'
  <2>1. OpenForms' = OpenForms
    BY <1>2 DEF OpenForms, OpenOf
  <2>2. SUFFICES ASSUME SampleStep = 1
                 PROVE  table["solved"] + pending'["solved"] + OpenForms
                        =< table["challenged"] + pending'["challenged"] + showing
                             + w + history.credit + history.repeats
    BY <1>2, <1>5, <2>1 DEF Backed
  <2> DEFINE a == table["solved"]
             b == pending["solved"]
             b1 == pending'["solved"]
             d == table["challenged"]
             e == pending["challenged"]
             e1 == pending'["challenged"]
             l == history.lost
             k == history.credit
             p == history.repeats
  <2>3. /\ a \in Nat /\ b \in Nat /\ b1 \in Nat /\ d \in Nat /\ e \in Nat /\ e1 \in Nat
        /\ b1 =< b
    BY <1>6, Followed
  <2>4. l \in Nat /\ k \in Nat /\ p \in Nat
    BY <1>1 DEF Histories
  <2>5. OpenForms \in Nat
    BY <1>1, FormsCount DEF OpenForms
  <2>6. a + b + OpenForms =< d + e + showing + l + k + p
    BY <2>2 DEF Books, Backed
  <2>7. e + l =< e1 + w
    <3>1. CASE c = "challenged"
      <4>1. e1 = e - 1 /\ w = l + 1
        BY <1>3, <1>4, <3>1
      <4> HIDE DEF e, e1, l
      <4>2. QED
        BY <2>3, <2>4, <4>1
    <3>2. CASE c # "challenged"
      <4>1. e1 = e /\ w >= l
        BY <1>3, <1>4, <3>2, Followed
      <4> HIDE DEF e, e1, l
      <4>2. QED
        BY <1>4, <2>3, <2>4, <4>1
    <3>3. QED
      BY <3>1, <3>2
  <2>8. a + b1 + OpenForms =< d + e1 + showing + w + k + p
    <3> HIDE DEF a, b, b1, d, e, e1, l, k, p
    <3>1. QED
      BY <1>1, <1>4, <2>3, <2>4, <2>5, <2>6, <2>7
  <2>9. QED
    BY <2>8
<1>12. QED
  BY <1>7, <1>8, <1>9, <1>10, <1>11 DEF Books

------------------------------------------------------------------------------
(* The reset and the page *)

\* The reset clears the log.
LEMMA StepTruncate ==
  ASSUME Books, Truncate
  PROVE  Books'
<1>1. /\ pending \in [Counter -> Nat] /\ table \in [Counter -> Nat] /\ history \in Histories
      /\ Len(file) \in Nat
  BY DEF Books, Typed
<1> DEFINE g == history.resets + 1
           k == history.cleared + Len(file)
<1>2. /\ reset' = [pc |-> "truncated", answer |-> "none"] /\ file' = <<>>
      /\ history' = [history EXCEPT !.resets = g, !.cleared = k, !.stale = 0,
                                    !.since = pending]
      /\ showing' = showing /\ forms' = forms /\ pending' = pending
      /\ table' = table
  BY DEF Truncate
<1>3. g \in Nat /\ k \in Nat /\ pending \in [Counter -> Int]
  BY <1>1 DEF Histories
<1> HIDE DEF g, k
<1>4. /\ history' \in Histories /\ history'.since = pending /\ history'.stale = 0
      /\ history'.lost = history.lost /\ history'.credit = history.credit
      /\ history'.repeats = history.repeats
  BY <1>1, <1>2, <1>3 DEF Histories
<1>5. Len(file') = 0 /\ file' = [n \in 1 .. Len(file') |-> file'[n]]
  BY <1>2
<1>6. reset'.pc = "truncated" /\ reset'.answer = "none"
  BY <1>2
<1>7. Typed'
  BY <1>2, <1>4, <1>5 DEF Books, Typed, ResetAnswers
<1>8. LinesTrue'
  BY <1>2 DEF LinesTrue
<1>9. Cleared'
  BY <1>4 DEF Cleared
<1>10. Recent'
  BY <1>1, <1>2, <1>4, <1>6 DEF Recent
<1>11. Backed'
  <2>1. OpenForms' = OpenForms
    BY <1>2 DEF OpenForms, OpenOf
  <2>2. QED
    BY <1>2, <1>4, <2>1 DEF Books, Backed
<1>12. QED
  BY <1>7, <1>8, <1>9, <1>10, <1>11 DEF Books

\* The reset cannot clear the log and ends there.
LEMMA StepTruncateFails ==
  ASSUME Books, TruncateFails
  PROVE  Books'
<1>1. /\ pending \in [Counter -> Nat] /\ table \in [Counter -> Nat] /\ history \in Histories
      /\ Len(file) \in Nat
  BY DEF Books, Typed
<1> DEFINE g == history.resets + 1
<1>2. /\ reset' = [pc |-> "idle", answer |-> "could not clear the log"]
      /\ history' = [history EXCEPT !.resets = g, !.stale = Len(file), !.since = pending]
      /\ file' = file
      /\ showing' = showing /\ forms' = forms /\ pending' = pending
      /\ table' = table
  BY DEF TruncateFails
<1>3. g \in Nat /\ pending \in [Counter -> Int]
  BY <1>1 DEF Histories
<1> HIDE DEF g
<1>4. /\ history' \in Histories /\ history'.since = pending
      /\ history'.lost = history.lost /\ history'.credit = history.credit
      /\ history'.repeats = history.repeats
  BY <1>1, <1>2, <1>3 DEF Histories
<1>5. reset'.pc = "idle" /\ reset'.answer = "could not clear the log"
  BY <1>2
<1>6. Typed'
  BY <1>2, <1>4 DEF Books, Typed, ResetAnswers
<1>7. LinesTrue'
  BY <1>2 DEF Books, LinesTrue, LineTrue, StageOf, StageShownFor, IsHardReason
<1>8. Cleared'
  BY <1>5 DEF Cleared
<1>9. Recent'
  BY <1>5 DEF Recent
<1>10. Backed'
  <2>1. OpenForms' = OpenForms
    BY <1>2 DEF OpenForms, OpenOf
  <2>2. QED
    BY <1>2, <1>4, <2>1 DEF Books, Backed
<1>11. QED
  BY <1>6, <1>7, <1>8, <1>9, <1>10 DEF Books

\* The reset clears the table: what comes later was on its way or is new.
LEMMA StepZero ==
  ASSUME Books, Zero
  PROVE  Books'
<1>1. /\ pending \in [Counter -> Nat] /\ history \in Histories /\ forms \in [Forms -> Nat]
      /\ showing \in Nat
  BY DEF Books, Typed
<1> DEFINE line == Record("-", "log cleared", "", 0, "none")
<1>2. /\ reset.pc = "truncated" /\ reset' = [pc |-> "idle", answer |-> "done"]
      /\ history' = [history EXCEPT !.credit = Credit, !.lost = 0, !.repeats = 0]
      /\ file' = Append(file, line) /\ table' = None
      /\ showing' = showing /\ forms' = forms /\ pending' = pending
  BY DEF Zero
<1>3. LineTrue(line)
  BY DEF LineTrue, Record
<1> HIDE DEF line
<1>4. OpenForms \in Nat /\ Credit \in Nat /\ Credit = pending["solved"] + OpenForms
  <2> DEFINE a == forms[<<"pow", "open">>]
             b == forms[<<"checkbox", "open">>]
             c == forms[<<"captcha", "open">>]
             d == pending["solved"]
  <2>1. a \in Nat /\ b \in Nat /\ c \in Nat /\ d \in Nat
    BY <1>1, FormsCount, Followed
  <2>2. OpenForms = a + b + c /\ Credit = d + a + b + c
    BY DEF OpenForms, OpenOf, Credit
  <2> HIDE DEF a, b, c
  <2>3. QED
    BY <2>1, <2>2
<1>5. /\ history' \in Histories /\ history'.since = history.since
      /\ history'.stale = history.stale
      /\ history'.lost = 0 /\ history'.credit = Credit /\ history'.repeats = 0
  BY <1>1, <1>2, <1>4 DEF Histories
<1>6. /\ Len(file') \in Nat /\ file' = [n \in 1 .. Len(file') |-> file'[n]]
      /\ LinesTrue'
  BY <1>2, <1>3, LineAdded
<1>7. reset'.pc = "idle" /\ reset'.answer = "done"
  BY <1>2
<1>8. table' \in [Counter -> Nat] /\ \A c \in Counter : table'[c] = 0
  BY <1>2 DEF None
<1>9. Typed'
  BY <1>2, <1>5, <1>6, <1>8 DEF Books, Typed, ResetAnswers
<1>10. Cleared'
  BY <1>2, <1>5 DEF Books, Cleared
<1>11. Recent'
  <2>1. ASSUME NEW c \in Counter
        PROVE  table'[c] + pending'[c] =< history'.since[c]
    <3>1. pending[c] =< history.since[c] /\ pending[c] \in Nat /\ history.since[c] \in Int
      BY <1>1, <1>2 DEF Books, Recent, Histories
    <3>2. table'[c] = 0
      BY <1>8
    <3>3. QED
      BY <1>2, <1>5, <3>1, <3>2
  <2>2. QED
    BY <1>7, <2>1 DEF Recent
<1>12. Backed'
  <2>1. OpenForms' = OpenForms
    BY <1>2 DEF OpenForms, OpenOf
  <2> DEFINE b == pending["solved"]
             e == pending["challenged"]
  <2>2. b \in Nat /\ e \in Nat /\ Credit = b + OpenForms
    BY <1>1, <1>4, Followed
  <2>3. 0 + b + OpenForms =< 0 + e + showing + 0 + Credit + 0
    <3> HIDE DEF b, e
    <3>1. QED
      BY <1>1, <1>4, <2>2
  <2>4. table'["solved"] = 0 /\ table'["challenged"] = 0
    BY <1>8, Followed
  <2>5. QED
    BY <1>2, <1>5, <2>1, <2>3, <2>4 DEF Backed
<1>13. QED
  BY <1>6, <1>9, <1>10, <1>11, <1>12 DEF Books

\* The reset cannot clear the table.
LEMMA StepZeroFails ==
  ASSUME Books, ZeroFails
  PROVE  Books'
<1>1. history \in Histories
  BY DEF Books, Typed
<1>2. /\ reset.pc = "truncated"
      /\ reset' = [pc |-> "idle", answer |-> "log cleared, but counters not"]
      /\ file' = file /\ table' = table /\ history' = history
      /\ showing' = showing /\ forms' = forms /\ pending' = pending
  BY DEF ZeroFails
<1>3. reset'.pc = "idle" /\ reset'.answer = "log cleared, but counters not"
  BY <1>2
<1>4. Typed'
  BY <1>2 DEF Books, Typed, ResetAnswers
<1>5. LinesTrue'
  BY <1>2 DEF Books, LinesTrue, LineTrue, StageOf, StageShownFor, IsHardReason
<1>6. Cleared'
  BY <1>2 DEF Books, Cleared
<1>7. Recent'
  BY <1>3 DEF Recent
<1>8. Backed'
  BY <1>2 DEF Books, Backed, OpenForms, OpenOf
<1>9. QED
  BY <1>4, <1>5, <1>6, <1>7, <1>8 DEF Books

\* The steps of a page.
PageStep ==
  PageOpen \/ PageSeek \/ PageSeekFails \/ PageRead \/ PageEnd \/ PageBreaks

\* A page reads, and changes nothing that is logged or counted.
LEMMA StepPage ==
  ASSUME Books, PageStep \/ UNCHANGED svars
  PROVE  Books'
<1>1. /\ file' = file /\ table' = table /\ reset' = reset
      /\ showing' = showing /\ forms' = forms /\ pending' = pending
  BY DEF PageStep, PageOpen, PageSeek, PageSeekFails, PageRead, PageEnd, PageBreaks, svars
<1>2. history' = history \/ history' = [history EXCEPT !.pages = @ + 1]
  BY DEF PageStep, PageOpen, PageSeek, PageSeekFails, PageRead, PageEnd, PageBreaks, svars
<1>3. history \in Histories
  BY DEF Books, Typed
<1>4. /\ history' \in Histories /\ history'.since = history.since
      /\ history'.stale = history.stale /\ history'.lost = history.lost
      /\ history'.credit = history.credit /\ history'.repeats = history.repeats
  <2>1. CASE history' = history
    BY <1>3, <2>1
  <2>2. CASE history' = [history EXCEPT !.pages = @ + 1]
    BY <1>3, <2>2 DEF Histories
  <2>3. QED
    BY <1>2, <2>1, <2>2
<1>5. Typed'
  BY <1>1, <1>4 DEF Books, Typed
<1>6. LinesTrue'
  BY <1>1 DEF Books, LinesTrue, LineTrue, StageOf, StageShownFor, IsHardReason
<1>7. Cleared' /\ Recent'
  BY <1>1, <1>4 DEF Books, Cleared, Recent
<1>8. Backed'
  BY <1>1, <1>4 DEF Books, Backed, OpenForms, OpenOf
<1>9. QED
  BY <1>5, <1>6, <1>7, <1>8 DEF Books

\* Books holds at the start and survives every step: whatever is logged,
\* counted, lost, cleared and read in whatever order.
THEOREM BooksInvariant == Spec => []Books
<1>1. Init => Books
  <2>1. SUFFICES ASSUME Init PROVE Books
    OBVIOUS
  <2>2. /\ file = <<>> /\ showing = 0 /\ pending = None /\ table = None
        /\ forms = [k \in Forms |-> 0]
        /\ reset = [pc |-> "idle", answer |-> "none"]
        /\ history = [visits |-> 0, answers |-> 0, resets |-> 0, pages |-> 0, gone |-> 0,
                      hits |-> 0, cleared |-> 0, stale |-> 0, since |-> None, credit |-> 0,
                      lost |-> 0, repeats |-> 0]
    BY <2>1 DEF Init, Forms
  <2>3. /\ None \in [Counter -> Nat] /\ None \in [Counter -> Int]
        /\ None["solved"] = 0 /\ None["challenged"] = 0
    BY Followed DEF None
  <2>4. /\ history \in Histories
        /\ history.lost = 0 /\ history.credit = 0 /\ history.repeats = 0
    BY <2>2, <2>3 DEF Histories
  <2>5. /\ forms \in [Forms -> Nat]
        /\ forms[<<"pow", "open">>] = 0 /\ forms[<<"checkbox", "open">>] = 0
        /\ forms[<<"captcha", "open">>] = 0
    BY <2>2 DEF Forms, Stages, Uses
  <2>6. Len(file) = 0 /\ file = [n \in 1 .. Len(file) |-> file[n]]
    BY <2>2
  <2>7. reset.pc = "idle" /\ reset.answer = "none"
    BY <2>2
  <2>8. Typed
    BY <2>2, <2>3, <2>4, <2>5, <2>6 DEF Typed, ResetAnswers
  <2>9. LinesTrue
    BY <2>2 DEF LinesTrue
  <2>10. Cleared /\ Recent
    BY <2>7 DEF Cleared, Recent
  <2>11. Backed
    BY <2>2, <2>3, <2>4, <2>5 DEF Backed, OpenForms, OpenOf
  <2>12. QED
    BY <2>8, <2>9, <2>10, <2>11 DEF Books
<1>2. Books /\ [Next]_svars => Books'
  <2>1. SUFFICES ASSUME Books, [Next]_svars PROVE Books'
    OBVIOUS
  <2>2. CASE \E t \in Traffic : Visit(t)
    BY <2>1, <2>2, StepVisit
  <2>3. CASE CountShown
    BY <2>1, <2>3, StepCountShown
  <2>4. CASE \E f \in Stages, u \in Uses, ok \in BOOLEAN :
               VerifyHTTP(f, u, ok) \/ CheckboxHTTP(f, u, ok) \/ CaptchaHTTP(f, u, ok)
    BY <2>1, <2>4, StepEndpoints
  <2>5. CASE CaptchaUnparsed \/ \E f \in Stages, u \in Uses : CaptchaExpired(f, u)
    BY <2>1, <2>5, StepNewCaptcha
  <2>6. CASE \E c \in Counter : Land(c) \/ Lose(c)
    BY <2>1, <2>6, StepLand, StepLose
  <2>7. CASE Truncate \/ TruncateFails \/ Zero \/ ZeroFails
    BY <2>1, <2>7, StepTruncate, StepTruncateFails, StepZero, StepZeroFails
  <2>8. CASE PageStep \/ UNCHANGED svars
    BY <2>1, <2>8, StepPage
  <2>9. QED
    BY <2>1, <2>2, <2>3, <2>4, <2>5, <2>6, <2>7, <2>8 DEF Next, PageStep
<1>3. QED
  BY <1>1, <1>2, PTL DEF Spec

\* StatsHTTP comes to the stages that were served and judged, for every line
\* that HTTPMiddleware and the answer endpoints ever write.
THEOREM StagesTrueHolds == Spec => []StagesTrue
<1>1. Books => StagesTrue
  BY DEF Books, LinesTrue, LineTrue, StagesTrue
<1>2. QED
  BY <1>1, BooksInvariant, PTL

\* What StatsResetHTTP answers is what it did, for any number of resets, with
\* anything logged and counted while it runs.
THEOREM ResetToldHolds == Spec => []ResetTold
<1>1. ASSUME Books PROVE ResetTold
  <2>1. SUFFICES ASSUME reset.pc = "idle"
                 PROVE  /\ reset.answer \in {"done", "log cleared, but counters not"}
                             => history.stale = 0
                        /\ reset.answer = "done" =>
                             \A c \in DOMAIN ChallengeStats :
                               ChallengeStats[c] =< history.since[c]
    BY DEF ResetTold
  <2>2. reset.answer \in {"done", "log cleared, but counters not"} => history.stale = 0
    BY <1>1 DEF Books, Cleared
  <2>3. ASSUME reset.answer = "done", NEW c \in DOMAIN ChallengeStats
        PROVE  ChallengeStats[c] =< history.since[c]
    <3>1. c \in Counter /\ ChallengeStats[c] = table[c]
      BY <2>3 DEF ChallengeStats
    <3>2. table[c] + pending[c] =< history.since[c]
      BY <1>1, <2>1, <2>3, <3>1 DEF Books, Recent
    <3>3. table[c] \in Nat /\ pending[c] \in Nat /\ history.since[c] \in Int
      BY <1>1, <3>1 DEF Books, Typed, Histories
    <3>4. QED
      BY <3>1, <3>2, <3>3
  <2>4. QED
    BY <2>2, <2>3
<1>2. QED
  BY <1>1, BooksInvariant, PTL

\* Behind the pass rate of the page there are pages that were shown, however
\* late the events of pages and answers come and whichever of them are lost.
THEOREM PassRateBackedHolds == Spec => []PassRateBacked
<1>1. ASSUME Books PROVE PassRateBacked
  <2> DEFINE a == table["solved"]
             b == pending["solved"]
             d == table["challenged"]
             e == pending["challenged"]
             l == history.lost
             k == history.credit
             p == history.repeats
  <2>1. ChallengeStats["solved"] = a /\ ChallengeStats["challenged"] = d
    BY Followed DEF ChallengeStats
  <2>2. OpenForms \in Nat
    BY <1>1, FormsCount DEF Books, Typed, OpenForms
  <2>3. a \in Nat /\ b \in Nat /\ d \in Nat /\ e \in Nat /\ showing \in Nat
    BY <1>1, Followed DEF Books, Typed
  <2>4. l \in Nat /\ k \in Nat /\ p \in Nat
    BY <1>1 DEF Books, Typed, Histories
  <2>5. ASSUME SampleStep = 1
        PROVE  a + b =< d + e + showing + l + k + p
    <3>1. a + b + OpenForms =< d + e + showing + l + k + p
      BY <1>1, <2>5 DEF Books, Backed
    <3> HIDE DEF a, b, d, e, l, k, p
    <3>2. QED
      BY <2>2, <2>3, <2>4, <3>1
  <2>6. QED
    BY <2>1, <2>5 DEF PassRateBacked
<1>2. QED
  BY <1>1, BooksInvariant, PTL

------------------------------------------------------------------------------
(* What a page reads *)

PageRecords ==
  [pc : {"done", "opened", "reading"}, cut : BOOLEAN, base : Nat, asked : Nat, older : Nat,
   from : Nat, pos : Nat, seen : SUBSET Nat, cleared : BOOLEAN,
   end : {"ok", "error", "broken"}]

\* What PageComplete says of a page p.
CompletePage(p) ==
  p.pc = "done" =>
    /\ \A n \in p.seen : n > p.base
    /\ p.end = "error" => p.cleared
    /\ p.end = "ok" /\ ~p.cleared =>
         /\ \A n, m \in p.seen : n .. m \subseteq p.seen
         /\ \A n \in p.older + 1 .. p.asked :
              n \in p.seen \/ (p.cut /\ Cardinality(p.seen) >= TailLines)

\* While the log is not cleared: a page p that was opened has seen a log that was
\* too large if it says so, ...
Opened(p, c, l) ==
  /\ p.base = c
  /\ p.cut => l * LineSize > StatsMaxBytes

\* ... and one that reads has what lies between where it began and its position.
Reading(p, c, l) ==
  /\ p.base = c /\ c =< p.older
  /\ p.from =< p.pos /\ p.pos =< l
  /\ p.seen = {n \in c + p.from + 1 .. c + p.pos : n > p.older}
  /\ IF p.cut THEN p.from + TailLines =< l ELSE p.from = 0

\* A page p, when c lines were cleared so far and l are in the log.
PageFacts(p, c, l) ==
  /\ p \in PageRecords
  /\ p.base =< c /\ p.asked =< c + l
  /\ \A n \in p.seen : n > p.base
  /\ p.pc = "opened" => p.seen = {} /\ p.end = "ok" /\ (p.cleared \/ Opened(p, c, l))
  /\ p.pc = "reading" => p.end = "ok" /\ (p.cleared \/ Reading(p, c, l))
  /\ CompletePage(p)

Pages == PageFacts(page, history.cleared, Len(file))

\* The sizes the page works with are numbers.
LEMMA Sizes ==
  StatsMaxBytes \in Nat /\ LineSize \in Nat \ {0} /\ TailLines \in Nat
<1>1. StatsMaxBytes \in Nat /\ LineSize \in Nat \ {0}
  BY StatisticsAssumption
<1>2. StatsMaxBytes \div LineSize \in Nat
  BY <1>1
<1>3. QED
  BY <1>1, <1>2 DEF TailLines

\* A longer log is no smaller.
LEMMA MoreLines ==
  ASSUME NEW s \in Nat, NEW l \in Nat, NEW m \in Nat, l =< m
  PROVE  l * s =< m * s
<1> DEFINE d == m - l
<1>1. d \in Nat /\ m = l + d
  OBVIOUS
<1> HIDE DEF d
<1>2. m * s = l * s + d * s /\ d * s \in Nat /\ l * s \in Nat
  BY <1>1
<1>3. QED
  BY <1>2

\* A log of StatsMaxBytes or more has all the lines a page reads of it.
LEMMA WholeLines ==
  ASSUME NEW m \in Nat, NEW s \in Nat \ {0}, NEW l \in Nat, l * s >= m
  PROVE  m \div s =< l
<1> DEFINE q == m \div s
           r == m % s
<1>1. q \in Nat /\ r \in Nat /\ m = s * q + r
  OBVIOUS
<1> HIDE DEF q, r
<1>2. SUFFICES ASSUME l + 1 =< q PROVE FALSE
  BY <1>1 DEF q
<1>3. (l + 1) * s =< q * s
  BY <1>1, <1>2, MoreLines
<1>4. (l + 1) * s = l * s + s /\ q * s = s * q /\ l * s \in Nat /\ s * q \in Nat
  BY <1>1
<1>5. QED
  BY <1>1, <1>3, <1>4

\* Lines that are logged change nothing for a page.
LEMMA PageStays ==
  ASSUME NEW p, NEW c \in Nat, NEW l \in Nat, NEW m \in Nat, l =< m, PageFacts(p, c, l)
  PROVE  PageFacts(p, c, m)
<1>1. p \in PageRecords /\ p.base \in Nat /\ p.asked \in Nat /\ p.from \in Nat /\ p.pos \in Nat
  BY DEF PageFacts, PageRecords
<1>2. p.asked =< c + m
  BY <1>1 DEF PageFacts
<1>3. Opened(p, c, l) => Opened(p, c, m)
  <2>1. l * LineSize =< m * LineSize /\ l * LineSize \in Nat /\ m * LineSize \in Nat
    BY Sizes, MoreLines
  <2>2. QED
    BY <2>1, Sizes DEF Opened
<1>4. Reading(p, c, l) => Reading(p, c, m)
  BY <1>1, Sizes DEF Reading
<1>5. QED
  BY <1>1, <1>2, <1>3, <1>4 DEF PageFacts

\* A page under way notes that the log is cleared.
LEMMA PageCleared ==
  ASSUME NEW p, NEW c \in Nat, NEW l \in Nat, PageFacts(p, c, l),
         NEW q, q = [p EXCEPT !.cleared = @ \/ p.pc # "done"]
  PROVE  PageFacts(q, c + l, 0)
<1>1. p \in PageRecords
  BY DEF PageFacts
<1>2. /\ q \in PageRecords /\ q.pc = p.pc /\ q.cut = p.cut /\ q.base = p.base
      /\ q.asked = p.asked /\ q.older = p.older /\ q.seen = p.seen /\ q.end = p.end
      /\ p.pc = "done" => q.cleared = p.cleared
      /\ p.pc # "done" => q.cleared
  BY <1>1 DEF PageRecords
<1>3. q.base =< c + l /\ q.asked =< c + l + 0
  BY <1>1, <1>2 DEF PageFacts, PageRecords
<1>4. CompletePage(q)
  BY <1>2 DEF PageFacts, CompletePage
<1>5. QED
  BY <1>2, <1>3, <1>4 DEF PageFacts

\* A page seeks: a log that was not cleared since is large enough.
LEMMA PageSeeks ==
  ASSUME NEW p, NEW c \in Nat, NEW l \in Nat, PageFacts(p, c, l), p.pc = "opened",
         p.cut => l * LineSize >= StatsMaxBytes, NEW older \in c .. c + l,
         NEW from, from = IF p.cut THEN l - TailLines ELSE 0,
         NEW q, q = [p EXCEPT !.pc = "reading", !.older = older, !.from = from, !.pos = from]
  PROVE  PageFacts(q, c, l)
<1>1. p \in PageRecords /\ older \in Nat
  BY DEF PageFacts
<1>2. from \in Nat /\ from =< l /\ (p.cut => from + TailLines =< l) /\ (~p.cut => from = 0)
  <2>1. CASE p.cut
    <3>1. TailLines =< l
      BY <2>1, Sizes, WholeLines DEF TailLines
    <3>2. QED
      BY <2>1, <3>1, Sizes
  <2>2. CASE ~p.cut
    BY <2>2
  <2>3. QED
    BY <2>1, <2>2
<1>3. /\ q \in PageRecords /\ q.pc = "reading" /\ q.older = older /\ q.from = from
      /\ q.pos = from /\ q.cut = p.cut /\ q.base = p.base /\ q.asked = p.asked
      /\ q.seen = p.seen /\ q.end = p.end /\ q.cleared = p.cleared
  BY <1>1, <1>2 DEF PageRecords
<1>4. p.seen = {} /\ p.end = "ok" /\ (p.cleared \/ p.base = c)
  BY DEF PageFacts, Opened
<1>5. ASSUME ~p.cleared PROVE Reading(q, c, l)
  <2>1. q.seen = {n \in c + q.from + 1 .. c + q.pos : n > q.older}
    BY <1>2, <1>3, <1>4
  <2>2. c =< older
    OBVIOUS
  <2>3. QED
    BY <1>2, <1>3, <1>4, <1>5, <2>1, <2>2 DEF Reading
<1>6. CompletePage(q)
  BY <1>3 DEF CompletePage
<1>7. QED
  BY <1>3, <1>4, <1>5, <1>6 DEF PageFacts

\* There is no page, because the log was cleared.
LEMMA PageFails ==
  ASSUME NEW p, NEW c \in Nat, NEW l \in Nat, PageFacts(p, c, l), p.pc = "opened",
         p.cut, l * LineSize < StatsMaxBytes,
         NEW q, q = [p EXCEPT !.pc = "done", !.end = "error"]
  PROVE  PageFacts(q, c, l)
<1>1. p \in PageRecords
  BY DEF PageFacts
<1>2. /\ q \in PageRecords /\ q.pc = "done" /\ q.base = p.base /\ q.asked = p.asked
      /\ q.seen = p.seen /\ q.end = "error" /\ q.cleared = p.cleared
  BY <1>1 DEF PageRecords
<1>3. p.cleared
  <2>1. l * LineSize \in Nat
    BY Sizes
  <2>2. QED
    BY <2>1, Sizes DEF PageFacts, Opened
<1>4. QED
  BY <1>2, <1>3 DEF PageFacts, CompletePage

\* It takes a line.
LEMMA PageReads ==
  ASSUME NEW p, NEW c \in Nat, NEW l \in Nat, PageFacts(p, c, l), p.pc = "reading",
         p.pos < l, NEW line, line = c + p.pos + 1,
         NEW q, q = [p EXCEPT !.pos = @ + 1,
                              !.seen = IF line > p.older THEN @ \cup {line} ELSE @]
  PROVE  PageFacts(q, c, l)
<1> DEFINE pos == p.pos + 1
           seen == IF line > p.older THEN p.seen \cup {line} ELSE p.seen
<1>1. /\ p \in PageRecords /\ p.pos \in Nat /\ p.seen \in SUBSET Nat /\ p.from \in Nat
      /\ p.base \in Nat /\ p.older \in Nat
  BY DEF PageFacts, PageRecords
<1>2. line \in Nat /\ line > p.base
  BY <1>1 DEF PageFacts
<1>3. pos \in Nat /\ pos = p.pos + 1 /\ seen \in SUBSET Nat
  BY <1>1, <1>2
<1>4. q = [p EXCEPT !.pos = pos, !.seen = seen]
  OBVIOUS
<1>5. \A n \in seen : n > p.base
  BY <1>2 DEF PageFacts
<1>6. ASSUME Reading(p, c, l)
      PROVE  seen = {n \in c + p.from + 1 .. c + pos : n > p.older}
  <2>1. p.seen = {n \in c + p.from + 1 .. c + p.pos : n > p.older} /\ p.from =< p.pos
    BY <1>6 DEF Reading
  <2>2. \A n : n \in c + p.from + 1 .. c + pos
                 <=> n \in c + p.from + 1 .. c + p.pos \/ n = line
    BY <1>1, <1>3, <2>1
  <2>3. QED
    BY <2>1, <2>2
<1> HIDE DEF pos, seen
<1>7. /\ q \in PageRecords /\ q.pc = "reading" /\ q.pos = pos /\ q.seen = seen
      /\ q.cut = p.cut /\ q.base = p.base /\ q.asked = p.asked /\ q.older = p.older
      /\ q.from = p.from /\ q.end = p.end /\ q.cleared = p.cleared
  BY <1>1, <1>3, <1>4 DEF PageRecords
<1>8. Reading(p, c, l) => Reading(q, c, l)
  BY <1>1, <1>3, <1>6, <1>7 DEF Reading
<1>9. CompletePage(q)
  BY <1>7 DEF CompletePage
<1>10. QED
  BY <1>5, <1>7, <1>8, <1>9 DEF PageFacts

\* It stands at the end of the log: what was logged when it was asked for lies
\* behind it, and a page that was cut has all the lines it seeks to.
LEMMA PageEnds ==
  ASSUME NEW p, NEW c \in Nat, NEW l \in Nat, PageFacts(p, c, l), p.pc = "reading",
         p.pos >= l, NEW q, q = [p EXCEPT !.pc = "done"]
  PROVE  PageFacts(q, c, l)
<1>1. /\ p \in PageRecords /\ p.pos \in Nat /\ p.seen \in SUBSET Nat /\ p.from \in Nat
      /\ p.base \in Nat /\ p.older \in Nat /\ p.asked \in Nat /\ p.asked =< c + l
      /\ p.end = "ok"
  BY DEF PageFacts, PageRecords
<1>2. /\ q \in PageRecords /\ q.pc = "done" /\ q.seen = p.seen
      /\ q.cut = p.cut /\ q.base = p.base /\ q.asked = p.asked /\ q.older = p.older
      /\ q.end = "ok" /\ q.cleared = p.cleared
  BY <1>1 DEF PageRecords
<1>3. ASSUME ~p.cleared
      PROVE  /\ \A n, m \in p.seen : n .. m \subseteq p.seen
             /\ \A n \in p.older + 1 .. p.asked :
                  n \in p.seen \/ (p.cut /\ Cardinality(p.seen) >= TailLines)
  <2>1. Reading(p, c, l)
    BY <1>3 DEF PageFacts
  <2> DEFINE lo == c + p.from + 1
             hi == c + l
  <2>2. /\ lo \in Nat /\ hi \in Nat /\ p.seen = {n \in lo .. hi : n > p.older}
        /\ c =< p.older /\ (p.cut => p.from + TailLines =< l) /\ (~p.cut => p.from = 0)
    <3>1. p.pos = l
      BY <1>1, <2>1 DEF Reading
    <3>2. QED
      BY <1>1, <2>1, <3>1 DEF Reading
  <2>3. \A n, m \in p.seen : n .. m \subseteq p.seen
    <3> HIDE DEF lo, hi
    <3>1. QED
      BY <1>1, <2>2
  <2>4. ASSUME NEW n \in p.older + 1 .. p.asked, n \notin p.seen
        PROVE  p.cut /\ Cardinality(p.seen) >= TailLines
    <3>1. n \in Int /\ n > p.older /\ n =< hi /\ n < lo
      BY <1>1, <2>2, <2>4
    <3>2. p.cut
      BY <1>1, <2>2, <3>1
    <3>3. p.seen = lo .. hi
      <4> HIDE DEF lo, hi
      <4>1. QED
        BY <1>1, <2>2, <3>1
    <3>4. /\ Cardinality(lo .. hi) = IF lo > hi THEN 0 ELSE hi - lo + 1
      <4>1. lo \in Int /\ hi \in Int
        BY <2>2
      <4> HIDE DEF lo, hi
      <4>2. QED
        BY <4>1, FS_Interval
    <3>5. (IF lo > hi THEN 0 ELSE hi - lo + 1) >= TailLines
      BY <1>1, <2>2, <3>2, Sizes
    <3>6. QED
      BY <3>2, <3>3, <3>4, <3>5
  <2>5. QED
    BY <2>3, <2>4
<1>4. CompletePage(q)
  BY <1>2, <1>3 DEF CompletePage, PageFacts
<1>5. QED
  BY <1>1, <1>2, <1>4 DEF PageFacts

\* Scan breaks off.
LEMMA PageBroken ==
  ASSUME NEW p, NEW c \in Nat, NEW l \in Nat, PageFacts(p, c, l), p.pc = "reading",
         NEW q, q = [p EXCEPT !.pc = "done", !.end = "broken"]
  PROVE  PageFacts(q, c, l)
<1>1. p \in PageRecords
  BY DEF PageFacts
<1>2. /\ q \in PageRecords /\ q.pc = "done" /\ q.base = p.base /\ q.asked = p.asked
      /\ q.seen = p.seen /\ q.end = "broken" /\ q.cleared = p.cleared
  BY <1>1 DEF PageRecords
<1>3. QED
  BY <1>2 DEF PageFacts, CompletePage

\* What the other steps leave of what a page depends on.
LEMMA LogGrows ==
  ASSUME Books,
         \/ \E t \in Traffic : Visit(t)
         \/ CountShown
         \/ \E f \in Stages, u \in Uses, ok \in BOOLEAN :
              VerifyHTTP(f, u, ok) \/ CheckboxHTTP(f, u, ok) \/ CaptchaHTTP(f, u, ok)
         \/ CaptchaUnparsed \/ \E f \in Stages, u \in Uses : CaptchaExpired(f, u)
         \/ \E c \in Counter : Land(c) \/ Lose(c)
         \/ TruncateFails \/ Zero \/ ZeroFails \/ UNCHANGED svars
  PROVE  /\ page' = page /\ history'.cleared = history.cleared
         /\ file' = file \/ \E r : file' = Append(file, r)
<1>0. history \in Histories
  BY DEF Books, Typed
<1>1. ASSUME NEW t \in Traffic, Visit(t)
      PROVE  /\ page' = page /\ history'.cleared = history.cleared
             /\ file' = file \/ \E r : file' = Append(file, r)
  <2>1. PICK v, shown, n :
          /\ file' = LogVerdict(v, shown)
          /\ history' = Since([history EXCEPT !.visits = @ + 1, !.hits = @ + n])
    BY <1>1 DEF Visit
  <2>2. file' = file \/ \E r : file' = Append(file, r)
    BY <2>1 DEF LogVerdict
  <2>3. history'.cleared = history.cleared
    BY <1>0, <2>1 DEF Since, Histories
  <2>4. QED
    BY <1>1, <2>2, <2>3 DEF Visit
<1>2. ASSUME NEW e, NEW f, NEW u, NEW ok, NEW reason, NEW more,
             Answer(e, f, u, ok, reason, more)
      PROVE  /\ page' = page /\ history'.cleared = history.cleared
             /\ file' = file \/ \E r : file' = Append(file, r)
  <2>1. PICK n : history' = Since([history EXCEPT !.answers = @ + 1, !.repeats = @ + n])
    BY <1>2 DEF Answer
  <2>2. file' = file \/ \E r : file' = Append(file, r)
    BY <1>2 DEF Answer, LogResult
  <2>3. history'.cleared = history.cleared
    BY <1>0, <2>1 DEF Since, Histories
  <2>4. QED
    BY <1>2, <2>2, <2>3 DEF Answer
<1>3. CASE \E f \in Stages, u \in Uses, ok \in BOOLEAN :
             VerifyHTTP(f, u, ok) \/ CheckboxHTTP(f, u, ok) \/ CaptchaHTTP(f, u, ok)
  BY <1>2, <1>3 DEF VerifyHTTP, CheckboxHTTP, CaptchaHTTP
<1>4. CASE CountShown
  BY <1>0, <1>4 DEF CountShown, Since, Histories
<1>5. CASE CaptchaUnparsed \/ \E f \in Stages, u \in Uses : CaptchaExpired(f, u)
  BY <1>0, <1>5 DEF CaptchaUnparsed, CaptchaExpired, Histories
<1>6. CASE \E c \in Counter : Land(c) \/ Lose(c)
  BY <1>0, <1>6 DEF Land, Lose, Histories
<1>7. CASE TruncateFails \/ Zero \/ ZeroFails \/ UNCHANGED svars
  BY <1>0, <1>7 DEF TruncateFails, Zero, ZeroFails, svars, Histories
<1>8. QED
  BY <1>1, <1>3, <1>4, <1>5, <1>6, <1>7

\* Pages holds at the start ...
LEMMA PagesStart ==
  ASSUME Init
  PROVE  Pages
<1>1. /\ page = Page0 /\ Len(file) = 0 /\ history.cleared = 0
  BY DEF Init
<1>2. PageFacts(Page0, 0, 0)
  BY DEF PageFacts, PageRecords, CompletePage, Page0
<1>3. QED
  BY <1>1, <1>2 DEF Pages

\* ... and survives every step.
LEMMA PagesStep ==
  ASSUME Books, Pages, [Next]_svars
  PROVE  Pages'
<1> DEFINE c == history.cleared
           l == Len(file)
<1>1. /\ c \in Nat /\ l \in Nat /\ file = [n \in 1 .. l |-> file[n]]
      /\ PageFacts(page, c, l) /\ Size = l * LineSize /\ Logged = c + l
  BY DEF Books, Typed, Histories, Pages, Size, Logged
<1>2. CASE Truncate
  <2>1. /\ page' = [page EXCEPT !.cleared = @ \/ page.pc # "done"]
        /\ Len(file') = 0 /\ history'.cleared = c + l
    BY <1>2 DEF Truncate, Books, Typed, Histories
  <2> HIDE DEF c, l
  <2>2. PageFacts(page', c + l, 0)
    BY <1>1, <2>1, PageCleared
  <2>3. QED
    BY <2>1, <2>2 DEF Pages
<1>3. CASE PageStep
  <2>1. file' = file /\ history'.cleared = history.cleared
    BY <1>3 DEF PageStep, PageOpen, PageSeek, PageSeekFails, PageRead, PageEnd, PageBreaks,
                Books, Typed, Histories
  <2> SUFFICES PageFacts(page', c, l)
    BY <2>1 DEF Pages
  <2>2. CASE PageOpen
    <3> DEFINE cut == l * LineSize > StatsMaxBytes
    <3>1. page' = [Page0 EXCEPT !.pc = "opened", !.cut = cut, !.base = c, !.asked = Logged]
      BY <1>1, <2>2 DEF PageOpen
    <3>2. c \in Nat /\ l \in Nat /\ Logged = c + l /\ Logged \in Nat /\ cut \in BOOLEAN
      BY <1>1
    <3>3. Page0 \in PageRecords /\ Page0.seen = {} /\ Page0.end = "ok"
      BY DEF Page0, PageRecords
    <3> HIDE DEF c, l, cut
    <3>4. /\ page' \in PageRecords /\ page'.pc = "opened" /\ page'.cut = cut
          /\ page'.base = c /\ page'.asked = Logged /\ page'.seen = {} /\ page'.end = "ok"
      BY <3>1, <3>2, <3>3 DEF PageRecords
    <3>5. page'.cut => l * LineSize > StatsMaxBytes
      BY <3>4, Zenon DEF cut
    <3>6. Opened(page', c, l)
      BY <3>4, <3>5 DEF Opened
    <3>7. page'.base =< c /\ page'.asked =< c + l
      BY <3>2, <3>4
    <3>8. QED
      BY <3>4, <3>6, <3>7 DEF PageFacts, CompletePage
  <2>3. CASE PageSeek
    <3> DEFINE from == IF page.cut THEN l - TailLines ELSE 0
    <3>1. PICK older \in c .. c + l :
            page' = [page EXCEPT !.pc = "reading", !.older = older, !.from = from,
                                 !.pos = from]
      BY <1>1, <2>3 DEF PageSeek
    <3>2. page.pc = "opened" /\ (page.cut => l * LineSize >= StatsMaxBytes)
      BY <1>1, <2>3 DEF PageSeek
    <3>3. c \in Nat /\ l \in Nat /\ PageFacts(page, c, l)
      BY <1>1
    <3> HIDE DEF c, l
    <3>4. from = IF page.cut THEN l - TailLines ELSE 0
      OBVIOUS
    <3> HIDE DEF from
    <3>5. QED
      BY <3>1, <3>2, <3>3, <3>4, PageSeeks
  <2>4. CASE PageSeekFails
    BY <1>1, <2>4, PageFails DEF PageSeekFails
  <2>5. CASE PageRead
    BY <1>1, <2>5, PageReads DEF PageRead
  <2>6. CASE PageEnd
    BY <1>1, <2>6, PageEnds DEF PageEnd
  <2>7. CASE PageBreaks
    BY <1>1, <2>7, PageBroken DEF PageBreaks
  <2>8. QED
    BY <1>3, <2>2, <2>3, <2>4, <2>5, <2>6, <2>7 DEF PageStep
<1>4. CASE ~Truncate /\ ~PageStep
  <2>1. /\ page' = page /\ history'.cleared = history.cleared
        /\ file' = file \/ \E r : file' = Append(file, r)
    BY <1>4, LogGrows DEF Next, PageStep
  <2>2. Len(file') \in Nat /\ l =< Len(file')
    <3>1. CASE file' = file
      BY <1>1, <3>1
    <3>2. ASSUME NEW r, file' = Append(file, r)
          PROVE  Len(file') = l + 1
      <4> DEFINE more == Append(file, r)
      <4>1. Len(more) = l + 1
        BY <1>1, OneLineMore
      <4>2. file' = more
        BY <3>2
      <4> HIDE DEF more
      <4>3. QED
        BY <4>1, <4>2
    <3>3. QED
      BY <1>1, <2>1, <3>1, <3>2
  <2>3. PageFacts(page, c, Len(file'))
    <3> HIDE DEF c, l
    <3>1. QED
      BY <1>1, <2>2, PageStays
  <2>4. QED
    BY <2>1, <2>3 DEF Pages
<1>5. QED
  BY <1>2, <1>3, <1>4

\* StatsHTTP has read what it says it has, for any number of lines that are
\* logged and any number of resets while it looks at the size of the log, seeks
\* and reads line by line, for any size of a line and wherever the period begins.
THEOREM PageCompleteHolds == Spec => []PageComplete
<1>1. Pages => PageComplete
  BY DEF Pages, PageFacts, CompletePage, PageComplete
<1>2. Init => Pages
  BY PagesStart
<1>3. Books /\ Pages /\ [Next]_svars => Pages'
  BY PagesStep
<1>4. QED
  BY <1>1, <1>2, <1>3, BooksInvariant, PTL DEF Spec
==============================================================================
