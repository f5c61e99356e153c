------------------------------- MODULE Engine -------------------------------
(***************************************************************************)
(* The decision about one request: Guard.Evaluate, evaluateKnownBot and    *)
(* what HTTPMiddleware does with the verdict (refuse, challenge and at     *)
(* which stage, let through).  The decision is a function of what the      *)
(* request, its cookies, the counters and the store look like at that      *)
(* moment, so this module holds operators only: Decision states what makes *)
(* them right, Visit runs them for a browser that keeps coming back.       *)
(*                                                                         *)
(* Scores are integers, One of them making a score of 1.0; thresholds and  *)
(* weights are given in the same unit.                                     *)
(***************************************************************************)
EXTENDS Integers, FiniteSetsExt

CONSTANTS
  Dimension,        \* names of the counted dimensions
  SharedDim,        \* those isSharedDim accepts (Config.SharedScoreDims)
  HardReason,       \* the reasons a Thresholds.HardReasons prefix matches
  One,              \* the score 1.0
  ClearanceMult,
  ChallengeAt, CheckboxAt, CaptchaAt, BlockAt,
  AbuseAt,          \* BlockAt * ClearedAbuseRatio
  EmptyUAWeight, MismatchWeight,
  FailBudget,       \* ChallengeFailsBeforeBlock
  RedisFailOpen,    \* Config.FailOpen
  ChallengeHosting, \* Network.ChallengeHostingBrowsers
  BaseDifficulty, MaxDifficulty, DifficultyPerScore

ASSUME DimensionAssumption ==
  /\ IsFiniteSet(Dimension)
  /\ SharedDim \subseteq Dimension
  /\ "" \notin Dimension

ASSUME ScoreAssumption ==
  /\ {One, ClearanceMult, ChallengeAt, BlockAt} \subseteq Nat \ {0}
  /\ {CheckboxAt, CaptchaAt, AbuseAt, EmptyUAWeight, MismatchWeight, FailBudget}
        \subseteq Nat
  /\ ChallengeAt < BlockAt       \* Config.validate

ASSUME DifficultyAssumption ==
  /\ {BaseDifficulty, MaxDifficulty, DifficultyPerScore} \subseteq Nat

\* UAKind
Kinds == {"browser", "empty", "known_bot", "bad_bot", "tool_agent", "ai_bot",
          "unknown_bot", "behavioral"}

Actions == {"allow", "challenge", "rate_limit", "block"}

\* What is known of a request when Evaluate is entered.
\*   ratio[d]   rate over limit of dimension d as a score of a cleared client,
\*              0 when activeDimensions leaves d out or its limit is 0
\*   fails      the failure counter of the address, 0 when Redis fails
\*   behavior   the weight behaviorScore adds, 0 when Redis fails
\*   asn        "blocked": in BlockASN, "challenged": in AlwaysChallengeASN
\*   botNet     does the ASN belong to the bot the User-Agent names
\*   flood      the bot's own rate limit is exceeded
Requests(ratios, weights, failCounts) ==
  [kind : Kinds, cleared : BOOLEAN, asn : {"none", "blocked", "challenged"},
   hosting : BOOLEAN, fails : failCounts, storeOK : BOOLEAN,
   ratio : [Dimension -> ratios], behavior : weights, badPair : BOOLEAN,
   botNet : {"own", "foreign", "unknown"}, onMatch : Actions,
   onMismatch : Actions, flood : BOOLEAN]

Verdict(decision, class, about, score) ==
  [decision |-> decision, class |-> class, about |-> about, score |-> score]

AtLeast(score, floor) == IF score < floor THEN floor ELSE score

ActionToDecision(a) == CASE a = "challenge"  -> "Challenge"
                         [] a = "rate_limit" -> "TooMany"
                         [] a = "block"      -> "Block"
                         [] OTHER            -> "Allow"

\* evaluateKnownBot: an impostor is at least challenged; a bot from its own
\* network is limited, then treated as configured.
EvaluateKnownBot(r) ==
  IF r.botNet = "foreign"
  THEN Verdict(ActionToDecision(IF r.onMismatch = "allow" THEN "challenge"
                                                          ELSE r.onMismatch),
               "fake_bot", "", ChallengeAt)
  ELSE IF r.storeOK /\ r.flood
  THEN Verdict("TooMany", "bot_flood", "", 0)
  ELSE Verdict(ActionToDecision(r.onMatch), "bot_match", "", 0)

\* Which client kinds go through the counters at all.
Counted == {"browser", "empty", "behavioral"}

-----------------------------------------------------------------------------
(* Scoring: the worst dimension, then the weights on top. *)

RateScore(r, d) == r.ratio[d] * (IF r.cleared THEN 1 ELSE ClearanceMult)

\* The loop over the rates map keeps the first of equals, in Go's random map
\* order: any dimension with the largest score can come out.
WorstDimensions(r) ==
  {d \in Dimension : /\ r.ratio[d] > 0
                     /\ \A e \in Dimension : r.ratio[e] =< r.ratio[d]}

\* The contributions after the rates, in the order of the code.
EmptyUA(r) == IF r.kind = "empty" THEN EmptyUAWeight ELSE 0
Mismatch(r) == IF r.badPair THEN MismatchWeight ELSE 0
Extra(r) == r.behavior + EmptyUA(r) + Mismatch(r)

Score(r) == Max({0} \cup {RateScore(r, d) : d \in Dimension}) + Extra(r)

\* The score the visitor would have without the shared dimensions.
PersonalScore(r) ==
  Max({0} \cup {RateScore(r, d) : d \in Dimension \ SharedDim}) + Extra(r)

\* The name the verdict is given: the worst dimension when any rate counts,
\* and only without one the first of behavior rule, empty UA, bad pair.
Worsts(r) ==
  IF WorstDimensions(r) # {} THEN WorstDimensions(r)
  ELSE {CASE r.behavior > 0    -> "behavior"
          [] r.kind = "empty"  -> "empty_ua"
          [] r.badPair         -> "known_bad_fingerprint"
          [] OTHER             -> ""}

\* MUTANT of Threshold: shared dimensions block like any other.
ThresholdSharedBlocks(r, worst) ==
  LET score == Score(r)
  IN  IF score >= BlockAt THEN Verdict("Block", "score", worst, score)
      ELSE IF ~r.cleared /\ score >= ChallengeAt
      THEN Verdict("Challenge", "score", worst, score)
      ELSE Verdict("Allow", "ok", "", score)

\* MUTANT of Threshold: a score of exactly BlockAt falls between two cases.
ThresholdGap(r, worst) ==
  LET score == Score(r)
      shared == worst \in SharedDim
  IN  IF score > BlockAt /\ ~shared THEN Verdict("Block", "score", worst, score)
      ELSE IF ~r.cleared /\ score >= ChallengeAt /\ (score < BlockAt \/ shared)
      THEN Verdict("Challenge", "score", worst, score)
      ELSE Verdict("Allow", "ok", "", score)

\* Step 10 of Evaluate, for the name worst.
Threshold(r, worst) ==
  LET score == Score(r)
      shared == worst \in SharedDim
  IN  IF score >= BlockAt /\ ~shared
      THEN Verdict("Block", "score", worst, score)
      ELSE IF ~r.cleared /\ score >= ChallengeAt
      THEN Verdict("Challenge", "score", worst, score)
      ELSE IF r.cleared /\ ~shared /\ score >= AbuseAt
      THEN Verdict("Challenge", "cleared_abuse", worst, score)
      ELSE Verdict("Allow", "ok", "", score)

\* MUTANT of EvaluateCounted: a datacenter browser is challenged with or
\* without a clearance.
EvaluateCountedForgetsPass(r) ==
  IF ~r.storeOK
  THEN {Verdict(IF RedisFailOpen THEN "Allow" ELSE "TooMany", "store_error", "", 0)}
  ELSE IF ChallengeHosting /\ r.hosting /\ r.kind = "browser"
  THEN {Verdict("Challenge", "hosting_browser", "",
                AtLeast(Score(r), ChallengeAt))}
  ELSE {Threshold(r, worst) : worst \in Worsts(r)}

\* Steps 4 to 10 of Evaluate.
EvaluateCounted(r) ==
  IF ~r.storeOK
  THEN {Verdict(IF RedisFailOpen THEN "Allow" ELSE "TooMany", "store_error", "", 0)}
  ELSE IF r.asn = "challenged" /\ ~r.cleared
  THEN {Verdict("Challenge", "asn_always_challenge", "",
                AtLeast(Score(r), ChallengeAt))}
  ELSE IF ChallengeHosting /\ r.hosting /\ r.kind = "browser" /\ ~r.cleared
  THEN {Verdict("Challenge", "hosting_browser", "",
                AtLeast(Score(r), ChallengeAt))}
  ELSE {Threshold(r, worst) : worst \in Worsts(r)}

\* The score of a refusal that no rate led to.
RefusalScore == 99 * One

\* The failed-challenge budget is used up: the key is there (it is made by a first
\* failure) and counts enough of them.
UsedUp(r) == r.fails > 0 /\ r.fails >= FailBudget

\* Evaluate: the verdicts request r may get.
Evaluate(r) ==
  IF r.asn = "blocked"
  THEN {Verdict("Block", "blocked_asn", "", RefusalScore)}
  ELSE IF UsedUp(r)
  THEN {Verdict("Block", "challenge_failures", "", RefusalScore)}
  ELSE CASE r.kind = "known_bot"   -> {EvaluateKnownBot(r)}
         [] r.kind = "bad_bot"     -> {Verdict("Block", "seo_blacklist", "", RefusalScore)}
         [] r.kind = "tool_agent"  -> {Verdict("Challenge", "tool_agent", "", ChallengeAt)}
         [] r.kind = "ai_bot"      -> {Verdict("Allow", "ai_crawler_allow", "", 0)}
         [] r.kind = "unknown_bot" -> {Verdict("Allow", "unknown_bot_allow", "", 0)}
         [] r.kind \in Counted     -> EvaluateCounted(r)

-----------------------------------------------------------------------------
(* HTTPMiddleware in enforce mode: what the visitor is served. *)

\* MUTANT of EffChallengeScore: the raw score.
EffChallengeScoreRaw(v) == v.score

\* effChallengeScore: a shared dimension does not raise stage or difficulty.
EffChallengeScore(v) ==
  IF v.class = "score" /\ v.about \in SharedDim THEN ChallengeAt ELSE v.score

IsHardReason(v) == [class |-> v.class, about |-> v.about] \in HardReason

\* The stage rises with the score; a threshold of 0 disables a stage.
Stage(v) ==
  LET eff == EffChallengeScore(v)
  IN  IF CaptchaAt > 0 /\ eff >= CaptchaAt THEN "captcha"
      ELSE IF CheckboxAt > 0 /\ (eff >= CheckboxAt \/ IsHardReason(v)) THEN "checkbox"
      ELSE "pow"

\* difficultyFor
Difficulty(score) ==
  LET over == IF score > ChallengeAt
              THEN ((score - ChallengeAt) * DifficultyPerScore) \div One
              ELSE 0
  IN  Max({1, Min({MaxDifficulty, BaseDifficulty + over})})

\* A challenge takes the clearance away only for the visitor's own abuse.
Revokes(r, v) == v.decision = "Challenge" /\ r.cleared /\ v.class = "cleared_abuse"
=============================================================================
