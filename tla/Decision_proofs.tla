---------------------------- MODULE Decision_proofs ----------------------------
(***************************************************************************)
(* Proofs about Decision, for every set of dimensions, shared or not, for  *)
(* every threshold and weight the configuration accepts, and for requests  *)
(* with any rates: what the shared dimensions may do to a visitor, what a  *)
(* clearance is worth, and that more traffic is never judged milder.       *)
(***************************************************************************)
EXTENDS Decision, FiniteSetTheorems, WellFoundedInduction, TLAPS

\* A finite set of integers that is not empty has a largest element.
LEMMA MaxIsLargest ==
  ASSUME NEW S \in SUBSET Int, IsFiniteSet(S), S # {}
  PROVE  Max(S) \in S /\ \A y \in S : Max(S) >= y
<1> DEFINE Past(x) == {y \in S : y >= x}
           Pasts == {Past(x) : x \in S}
<1>1. FiniteSubsetsOf(S) = SUBSET S
  BY FS_FiniteSubsetsOfFinite
<1>2. Pasts \in SUBSET FiniteSubsetsOf(S) /\ Pasts # {}
  <2>1. \A x \in S : Past(x) \in SUBSET S
    OBVIOUS
  <2>2. Pasts \in SUBSET (SUBSET S)
    BY <2>1
  <2>3. PICK x \in S : TRUE
    OBVIOUS
  <2>4. Past(x) \in Pasts
    BY <2>3
  <2>5. QED
    BY <1>1, <2>2, <2>4
<1>3. IsWellFoundedOn(StrictSubsetOrdering(S), FiniteSubsetsOf(S))
  BY FS_StrictSubsetOrderingWellFounded
<1>4. PICK U \in Pasts : \A W \in Pasts : ~ (<<W, U>> \in StrictSubsetOrdering(S))
  <2> HIDE DEF Pasts
  <2>1. QED
    BY <1>2, <1>3, WFMin
<1>5. PICK x \in S : U = Past(x)
  OBVIOUS
<1>6. \A y \in S : x >= y
  <2>1. SUFFICES ASSUME NEW y \in S, ~(x >= y) PROVE FALSE
    OBVIOUS
  <2>2. x \in Int /\ y \in Int
    OBVIOUS
  <2>3. Past(y) \subseteq Past(x)
    <3>1. \A z \in S : z >= y => z >= x
      BY <2>1, <2>2
    <3>2. QED
      BY <3>1
  <2>4. x \in Past(x) /\ x \notin Past(y)
    BY <2>1, <2>2
  <2>5. Past(y) \in SUBSET S /\ Past(x) \in SUBSET S /\ Past(y) # Past(x)
    BY <2>4
  <2>6. Past(y) \in Pasts
    OBVIOUS
  <2> HIDE DEF Past, Pasts
  <2>7. <<Past(y), Past(x)>> \in StrictSubsetOrdering(S)
    BY <2>3, <2>5 DEF StrictSubsetOrdering
  <2>8. QED
    BY <1>4, <1>5, <2>6, <2>7
<1>7. QED
  BY <1>6 DEF Max

\* A finite set of integers that is not empty has a smallest element.
LEMMA MinIsSmallest ==
  ASSUME NEW S \in SUBSET Int, IsFiniteSet(S), S # {}
  PROVE  Min(S) \in S /\ \A y \in S : Min(S) =< y
<1> DEFINE Past(x) == {y \in S : y =< x}
           Pasts == {Past(x) : x \in S}
<1>1. FiniteSubsetsOf(S) = SUBSET S
  BY FS_FiniteSubsetsOfFinite
<1>2. Pasts \in SUBSET FiniteSubsetsOf(S) /\ Pasts # {}
  <2>1. \A x \in S : Past(x) \in SUBSET S
    OBVIOUS
  <2>2. Pasts \in SUBSET (SUBSET S)
    BY <2>1
  <2>3. PICK x \in S : TRUE
    OBVIOUS
  <2>4. Past(x) \in Pasts
    BY <2>3
  <2>5. QED
    BY <1>1, <2>2, <2>4
<1>3. IsWellFoundedOn(StrictSubsetOrdering(S), FiniteSubsetsOf(S))
  BY FS_StrictSubsetOrderingWellFounded
<1>4. PICK U \in Pasts : \A W \in Pasts : ~ (<<W, U>> \in StrictSubsetOrdering(S))
  <2> HIDE DEF Pasts
  <2>1. QED
    BY <1>2, <1>3, WFMin
<1>5. PICK x \in S : U = Past(x)
  OBVIOUS
<1>6. \A y \in S : x =< y
  <2>1. SUFFICES ASSUME NEW y \in S, ~(x =< y) PROVE FALSE
    OBVIOUS
  <2>2. x \in Int /\ y \in Int
    OBVIOUS
  <2>3. Past(y) \subseteq Past(x)
    <3>1. \A z \in S : z =< y => z =< x
      BY <2>1, <2>2
    <3>2. QED
      BY <3>1
  <2>4. x \in Past(x) /\ x \notin Past(y)
    BY <2>1, <2>2
  <2>5. Past(y) \in SUBSET S /\ Past(x) \in SUBSET S /\ Past(y) # Past(x)
    BY <2>4
  <2>6. Past(y) \in Pasts
    OBVIOUS
  <2> HIDE DEF Past, Pasts
  <2>7. <<Past(y), Past(x)>> \in StrictSubsetOrdering(S)
    BY <2>3, <2>5 DEF StrictSubsetOrdering
  <2>8. QED
    BY <1>4, <1>5, <2>6, <2>7
<1>7. QED
  BY <1>6 DEF Min

\* The image of a finite set of dimensions is finite.
LEMMA RatesFinite ==
  ASSUME NEW D \in SUBSET Dimension, NEW f
  PROVE  IsFiniteSet({f[d] : d \in D})
<1> DEFINE T == {f[d] : d \in D}
           g == [d \in D |-> f[d]]
<1>1. IsFiniteSet(D)
  BY DimensionAssumption, FS_Subset
<1>2. g \in Surjection(D, T)
  BY DEF Surjection
<1> HIDE DEF g, T
<1>3. IsFiniteSet(T)
  BY <1>1, <1>2, FS_Surjection
<1>4. QED
  BY <1>3 DEF T

\* Multiplication keeps the order.
LEMMA TimesKeepsOrder ==
  ASSUME NEW a \in Nat, NEW b \in Nat, NEW m \in Nat, a =< b
  PROVE  a * m =< b * m
<1>1. b - a \in Nat /\ b = a + (b - a)
  OBVIOUS
<1>2. b * m = a * m + (b - a) * m
  OBVIOUS
<1>3. (b - a) * m \in Nat
  BY <1>1
<1>4. a * m \in Nat
  OBVIOUS
<1>5. QED
  BY <1>2, <1>3, <1>4

------------------------------------------------------------------------------
(* Scores *)

AllRequests == Requests(Nat, Nat, Nat)

\* The number a rate is multiplied with.
Mult(r) == IF r.cleared THEN 1 ELSE ClearanceMult

\* The fields of a request that the scores are made of.
LEMMA RequestFields ==
  ASSUME NEW r \in AllRequests
  PROVE  /\ r.ratio \in [Dimension -> Nat] /\ Mult(r) \in Nat /\ Mult(r) > 0
         /\ Extra(r) \in Nat
         /\ \A d : RateScore(r, d) = r.ratio[d] * Mult(r)
<1>1. r.ratio \in [Dimension -> Nat] /\ r.behavior \in Nat
  BY DEF AllRequests, Requests
<1>2. EmptyUA(r) \in Nat /\ Mismatch(r) \in Nat
  BY ScoreAssumption DEF EmptyUA, Mismatch
<1>3. Mult(r) \in Nat /\ Mult(r) > 0
  BY ScoreAssumption DEF Mult
<1>4. QED
  BY <1>1, <1>2, <1>3 DEF Extra, RateScore, Mult

\* The worst rate score of the dimensions D.
Top(r, D) == Max({0} \cup {RateScore(r, d) : d \in D})

\* The score over a set of dimensions is that of one of them, or 0, and no other
\* is higher.
LEMMA TopIsWorst ==
  ASSUME NEW r \in AllRequests, NEW D \in SUBSET Dimension
  PROVE  /\ Top(r, D) \in Nat
         /\ \A d \in D : RateScore(r, d) \in Nat /\ RateScore(r, d) =< Top(r, D)
         /\ Top(r, D) = 0 \/ \E d \in D : Top(r, D) = RateScore(r, d)
<1> DEFINE f == [d \in D |-> RateScore(r, d)]
           S == {0} \cup {RateScore(r, d) : d \in D}
<1>1. \A d \in D : RateScore(r, d) \in Nat
  <2>1. ASSUME NEW d \in D PROVE RateScore(r, d) \in Nat
    <3>1. r.ratio[d] \in Nat /\ Mult(r) \in Nat
      BY RequestFields
    <3>2. r.ratio[d] * Mult(r) \in Nat
      BY <3>1
    <3>3. QED
      BY <3>2, RequestFields
  <2>2. QED
    BY <2>1
<1>2. {f[d] : d \in D} = {RateScore(r, d) : d \in D}
  OBVIOUS
<1>3. IsFiniteSet({f[d] : d \in D})
  BY RatesFinite
<1>4. IsFiniteSet(S)
  BY <1>2, <1>3, FS_AddElement
<1>5. S \in SUBSET Nat /\ S # {}
  BY <1>1
<1>6. Max(S) \in S /\ \A y \in S : Max(S) >= y
  BY <1>4, <1>5, MaxIsLargest
<1>7. QED
  BY <1>1, <1>5, <1>6 DEF Top

\* A larger rate is a larger score.
LEMMA RateOrder ==
  ASSUME NEW r \in AllRequests, NEW d \in Dimension, NEW e \in Dimension,
         r.ratio[d] =< r.ratio[e]
  PROVE  RateScore(r, d) =< RateScore(r, e)
<1>1. r.ratio[d] \in Nat /\ r.ratio[e] \in Nat /\ Mult(r) \in Nat
  BY RequestFields
<1>2. r.ratio[d] * Mult(r) =< r.ratio[e] * Mult(r)
  BY <1>1, TimesKeepsOrder
<1>3. QED
  BY <1>2, RequestFields

\* When no dimension is the worst, no rate counts.
LEMMA NoWorstNoRate ==
  ASSUME NEW r \in AllRequests, WorstDimensions(r) = {}, NEW d \in Dimension
  PROVE  r.ratio[d] = 0 /\ RateScore(r, d) = 0
<1> DEFINE S == {r.ratio[e] : e \in Dimension}
<1>1. \A e \in Dimension : r.ratio[e] \in Nat
  BY RequestFields
<1>2. S \in SUBSET Nat /\ r.ratio[d] \in S
  BY <1>1
<1>3. IsFiniteSet(S)
  BY RatesFinite
<1>4. Max(S) \in S /\ \A y \in S : Max(S) >= y
  <2> HIDE DEF S
  <2>1. S \in SUBSET Int /\ S # {}
    BY <1>2
  <2>2. QED
    BY <1>3, <2>1, MaxIsLargest
<1>5. PICK e \in Dimension : r.ratio[e] = Max(S)
  BY <1>4
<1>6. \A x \in Dimension : r.ratio[x] =< r.ratio[e]
  BY <1>1, <1>4, <1>5
<1>7. ~(r.ratio[e] > 0)
  BY <1>6 DEF WorstDimensions
<1>8. r.ratio[d] = 0
  BY <1>1, <1>6, <1>7
<1>9. 0 * Mult(r) = 0
  BY RequestFields
<1>10. QED
  BY <1>8, <1>9, RequestFields

\* The visitor's own dimensions score no more than all of them.
LEMMA PersonalBelowScore ==
  ASSUME NEW r \in AllRequests
  PROVE  /\ Score(r) = Top(r, Dimension) + Extra(r)
         /\ PersonalScore(r) = Top(r, Dimension \ SharedDim) + Extra(r)
         /\ Score(r) \in Nat /\ PersonalScore(r) \in Nat
         /\ PersonalScore(r) =< Score(r)
<1>1. /\ Score(r) = Top(r, Dimension) + Extra(r)
      /\ PersonalScore(r) = Top(r, Dimension \ SharedDim) + Extra(r)
  BY DEF Score, PersonalScore, Top
<1>2. /\ Top(r, Dimension) \in Nat /\ Top(r, Dimension \ SharedDim) \in Nat
      /\ Extra(r) \in Nat
  BY TopIsWorst, RequestFields
<1>3. Top(r, Dimension \ SharedDim) =< Top(r, Dimension)
  <2>1. /\ Top(r, Dimension \ SharedDim) = 0
           \/ \E d \in Dimension \ SharedDim : Top(r, Dimension \ SharedDim) = RateScore(r, d)
        /\ \A d \in Dimension : RateScore(r, d) =< Top(r, Dimension)
    BY TopIsWorst
  <2>2. QED
    BY <1>2, <2>1
<1>4. QED
  BY <1>1, <1>2, <1>3

\* A worst dimension of the visitor's own scores as much as all of them, and so
\* does a request without any rate.
LEMMA OwnWorstIsScore ==
  ASSUME NEW r \in AllRequests, NEW worst \in Worsts(r), worst \notin SharedDim
  PROVE  PersonalScore(r) = Score(r)
<1> DEFINE P == Dimension \ SharedDim
<1>1. Top(r, Dimension) = Top(r, P)
  <2>1. /\ Top(r, Dimension) \in Nat /\ Top(r, P) \in Nat
        /\ Top(r, Dimension) = 0 \/ \E d \in Dimension : Top(r, Dimension) = RateScore(r, d)
        /\ Top(r, P) = 0 \/ \E d \in P : Top(r, P) = RateScore(r, d)
        /\ \A d \in Dimension : RateScore(r, d) \in Nat /\ RateScore(r, d) =< Top(r, Dimension)
        /\ \A d \in P : RateScore(r, d) =< Top(r, P)
    BY TopIsWorst
  <2>2. CASE WorstDimensions(r) # {}
    <3>1. worst \in P /\ \A e \in Dimension : r.ratio[e] =< r.ratio[worst]
      BY <2>2 DEF Worsts, WorstDimensions
    <3>2. \A e \in Dimension : RateScore(r, e) =< RateScore(r, worst)
      BY <3>1, RateOrder
    <3>3. QED
      BY <2>1, <3>1, <3>2
  <2>3. CASE WorstDimensions(r) = {}
    <3>1. \A d \in Dimension : RateScore(r, d) = 0
      BY <2>3, NoWorstNoRate
    <3>2. QED
      BY <2>1, <3>1
  <2>4. QED
    BY <2>2, <2>3
<1>2. QED
  BY <1>1, PersonalBelowScore

------------------------------------------------------------------------------
(* Classification *)

\* The first built-in list that applies decides.
LEMMA BuiltInFirst ==
  ASSUME NEW ua
  PROVE  \/ ua.marks \cap TechMark # {} /\ BuiltIn(ua) = Class("browser", "")
         \/ /\ ua.name \in Social \/ ua.marks \cap Social # {}
            /\ BuiltIn(ua) = Class("behavioral", ua.name)
         \/ /\ ua.name \in DOMAIN BotASN
            /\ BuiltIn(ua) = Class("known_bot", ua.name)
         \/ /\ ua.name \notin DOMAIN BotASN /\ MarkedAs(ua) # ""
            /\ BuiltIn(ua) = Class("known_bot", MarkedAs(ua))
         \/ /\ ua.name \notin DOMAIN BotASN /\ MarkedAs(ua) = ""
            /\ BuiltIn(ua).kind \in {"bad_bot", "ai_bot", "tool_agent", "unknown_bot", "browser"}
<1> DEFINE c1 == ua.marks \cap TechMark # {}
           c2 == ua.name \in Social \/ ua.marks \cap Social # {}
           c3 == ua.name \in DOMAIN BotASN
           c4 == MarkedAs(ua) # ""
           c5 == ua.name \in AI \/ ua.marks \cap AI # {}
           c6 == ua.name \in Bad \/ ua.marks \cap Bad # {}
           c7 == ua.marks \cap ToolMark # {} \/ ua.crawler
           c8 == ua.bot
           c9 == TRUE
           k1 == Class("browser", "")
           k2 == Class("behavioral", ua.name)
           k3 == Class("known_bot", ua.name)
           k4 == Class("known_bot", MarkedAs(ua))
           k5 == Class(IF BlockAI THEN "bad_bot" ELSE "ai_bot", ua.name)
           k6 == Class("bad_bot", ua.name)
           k7 == Class("tool_agent", ua.name)
           k8 == Class("unknown_bot", ua.name)
           k9 == Class("browser", "")
           lists == <<<<c1, k1>>,
                      <<c2, k2>>,
                      <<c3, k3>>,
                      <<c4, k4>>,
                      <<c5, k5>>,
                      <<c6, k6>>,
                      <<c7, k7>>,
                      <<c8, k8>>,
                      <<c9, k9>>>>
           S == {i \in DOMAIN lists : lists[i][1]}
<1>1. BuiltIn(ua) = lists[Min(S)][2]
  BY DEF BuiltIn
<1>2. c9
  OBVIOUS
<1>3. /\ k5.kind \in {"bad_bot", "ai_bot"} /\ k6.kind = "bad_bot" /\ k7.kind = "tool_agent"
      /\ k8.kind = "unknown_bot" /\ k9.kind = "browser"
  BY DEF Class
<1> HIDE DEF c1, c2, c3, c4, c5, c6, c7, c8, c9, k1, k2, k3, k4, k5, k6, k7, k8, k9
<1>4. DOMAIN lists = 1 .. 9
  OBVIOUS
<1>5. /\ lists[1][1] = c1 /\ lists[1][2] = k1
      /\ lists[2][1] = c2 /\ lists[2][2] = k2
      /\ lists[3][1] = c3 /\ lists[3][2] = k3
      /\ lists[4][1] = c4 /\ lists[4][2] = k4
      /\ lists[5][1] = c5 /\ lists[5][2] = k5
      /\ lists[6][1] = c6 /\ lists[6][2] = k6
      /\ lists[7][1] = c7 /\ lists[7][2] = k7
      /\ lists[8][1] = c8 /\ lists[8][2] = k8
      /\ lists[9][1] = c9 /\ lists[9][2] = k9
  OBVIOUS
<1> HIDE DEF lists
<1>6. S \in SUBSET Int /\ IsFiniteSet(S) /\ 9 \in S
  <2>1. lists[9][1]
    BY <1>2, <1>5, Zenon
  <2>2. 9 \in 1 .. 9 /\ 1 .. 9 \subseteq Int /\ IsFiniteSet(1 .. 9)
    <3>1. 1 \in Int /\ 9 \in Int
      OBVIOUS
    <3>2. IsFiniteSet(1 .. 9)
      BY <3>1, FS_Interval
    <3>3. QED
      BY <3>2
  <2>3. S \in SUBSET (1 .. 9) /\ 9 \in S
    BY <1>4, <2>1, <2>2
  <2> HIDE DEF S
  <2>4. QED
    BY <2>2, <2>3, FS_Subset
<1>7. Min(S) \in S /\ \A y \in S : Min(S) =< y
  <2> HIDE DEF S
  <2>1. QED
    BY <1>6, MinIsSmallest
<1>8. PICK i \in 1 .. 9 : i = Min(S) /\ lists[i][1] /\ BuiltIn(ua) = lists[i][2]
                      /\ \A j \in 1 .. 9 : lists[j][1] => i =< j
  BY <1>1, <1>4, <1>7
<1>9. CASE i = 1
  <2>1. lists[1][1] /\ BuiltIn(ua) = lists[1][2]
    BY <1>8, <1>9
  <2>2. c1 /\ BuiltIn(ua) = k1
    BY <1>5, <2>1, Zenon
  <2>3. QED
    BY <2>2 DEF c1, k1
<1>10. CASE i = 2
  <2>1. lists[2][1] /\ BuiltIn(ua) = lists[2][2]
    BY <1>8, <1>10
  <2>2. c2 /\ BuiltIn(ua) = k2
    BY <1>5, <2>1, Zenon
  <2>3. QED
    BY <2>2 DEF c2, k2
<1>11. CASE i = 3
  <2>1. lists[3][1] /\ BuiltIn(ua) = lists[3][2]
    BY <1>8, <1>11
  <2>2. c3 /\ BuiltIn(ua) = k3
    BY <1>5, <2>1, Zenon
  <2>3. QED
    BY <2>2 DEF c3, k3
<1>12. CASE i \in 4 .. 9
  <2>1. ~c3
    BY <1>5, <1>8, <1>12
  <2>2. CASE i = 4
    BY <1>5, <1>8, <2>1, <2>2 DEF c3, c4, k4
  <2>3. CASE i \in 5 .. 9
    <3>1. ~c4
      BY <1>5, <1>8, <2>3
    <3>2. BuiltIn(ua) \in {k5, k6, k7, k8, k9}
      BY <1>5, <1>8, <2>3
    <3>3. QED
      BY <1>3, <2>1, <3>1, <3>2 DEF c3, c4
  <2>4. i = 4 \/ i \in 5 .. 9
    BY <1>12
  <2>5. QED
    BY <2>2, <2>3, <2>4, Zenon
<1>13. i = 1 \/ i = 2 \/ i = 3 \/ i \in 4 .. 9
  OBVIOUS
<1>14. QED
  BY <1>9, <1>10, <1>11, <1>12, <1>13, Zenon

AllClaims == [rules : Seq(RulesOf(STRING, STRING, STRING, Nat)),
              mode : RulesModes, ua : Agents, asn : Nat]

\* The first matching rule exists and is one of the rules.
LEMMA FirstMatch ==
  ASSUME NEW c \in AllClaims, Matching(c.rules, c.ua) # {}
  PROVE  /\ Min(Matching(c.rules, c.ua)) \in Matching(c.rules, c.ua)
         /\ Min(Matching(c.rules, c.ua)) \in DOMAIN c.rules
         /\ FirstRule(c).action \in RuleActions
<1>1. c.rules \in Seq(RulesOf(STRING, STRING, STRING, Nat))
  BY DEF AllClaims
<1>2. /\ Len(c.rules) \in Nat /\ DOMAIN c.rules = 1 .. Len(c.rules)
      /\ \A i \in DOMAIN c.rules : c.rules[i] \in RulesOf(STRING, STRING, STRING, Nat)
  BY <1>1
<1>3. IsFiniteSet(DOMAIN c.rules)
  BY <1>2, FS_Interval
<1> DEFINE S == Matching(c.rules, c.ua)
<1>4. S \in SUBSET DOMAIN c.rules
  BY DEF Matching
<1>5. S \in SUBSET Int
  BY <1>2, <1>4
<1> HIDE DEF S
<1>6. IsFiniteSet(S)
  BY <1>3, <1>4, FS_Subset
<1>7. S # {}
  BY DEF S
<1>8. Min(S) \in S
  BY <1>5, <1>6, <1>7, MinIsSmallest
<1>9. Min(S) \in DOMAIN c.rules
  BY <1>4, <1>8
<1>10. c.rules[Min(S)].action \in RuleActions
  BY <1>2, <1>9 DEF RulesOf
<1>11. QED
  BY <1>8, <1>9, <1>10 DEF S, FirstRule

\* Every claim gets one of the kinds.
LEMMA ClassKind ==
  ASSUME NEW c \in AllClaims
  PROVE  ClassifyUA(c.rules, c.mode, c.ua).kind \in Kinds
<1>1. CASE c.ua.empty
  BY <1>1 DEF ClassifyUA, Class, Kinds
<1>2. CASE ~c.ua.empty /\ Matching(c.rules, c.ua) # {}
  <2>1. ClassifyUA(c.rules, c.mode, c.ua) = KindOf(FirstRule(c))
    BY <1>2 DEF ClassifyUA, FirstRule
  <2>2. FirstRule(c).action \in {"allow", "block", "challenge", "score", "known_bot"}
    BY <1>2, FirstMatch DEF RuleActions
  <2>3. KindOf(FirstRule(c)).kind \in Kinds
    BY <2>2 DEF KindOf, Class, Kinds
  <2>4. QED
    BY <2>1, <2>3
<1>3. CASE ~c.ua.empty /\ Matching(c.rules, c.ua) = {} /\ c.mode = "override"
  BY <1>3 DEF ClassifyUA, Class, Kinds
<1>4. CASE ~c.ua.empty /\ Matching(c.rules, c.ua) = {} /\ c.mode # "override"
  <2>1. ClassifyUA(c.rules, c.mode, c.ua) = BuiltIn(c.ua)
    BY <1>4 DEF ClassifyUA
  <2>2. BuiltIn(c.ua).kind \in Kinds
    <3>1. \/ BuiltIn(c.ua) = Class("browser", "")
          \/ BuiltIn(c.ua) = Class("behavioral", c.ua.name)
          \/ BuiltIn(c.ua) = Class("known_bot", c.ua.name)
          \/ BuiltIn(c.ua) = Class("known_bot", MarkedAs(c.ua))
          \/ BuiltIn(c.ua).kind \in {"bad_bot", "ai_bot", "tool_agent", "unknown_bot", "browser"}
      BY BuiltInFirst, Zenon
    <3>2. BuiltIn(c.ua).kind \in {"browser", "behavioral", "known_bot", "bad_bot", "ai_bot",
                                 "tool_agent", "unknown_bot"}
      <4>1. /\ Class("browser", "").kind = "browser"
            /\ Class("behavioral", c.ua.name).kind = "behavioral"
            /\ Class("known_bot", c.ua.name).kind = "known_bot"
            /\ Class("known_bot", MarkedAs(c.ua)).kind = "known_bot"
        BY DEF Class
      <4>2. QED
        BY <3>1, <4>1
    <3>3. QED
      BY <3>2 DEF Kinds
  <2>3. QED
    BY <2>1, <2>2
<1>5. QED
  BY <1>1, <1>2, <1>3, <1>4

\* What the request of a claim is.
LEMMA ClaimRequest ==
  ASSUME NEW c \in AllClaims
  PROVE  /\ RequestBy(c) \in AllRequests
         /\ RequestBy(c).kind = ClassifyUA(c.rules, c.mode, c.ua).kind
         /\ RequestBy(c).asn = "none" /\ RequestBy(c).fails = 0
         /\ ~RequestBy(c).hosting /\ RequestBy(c).storeOK /\ ~RequestBy(c).flood
         /\ ~RequestBy(c).badPair /\ ~RequestBy(c).cleared /\ RequestBy(c).behavior = 0
         /\ \A d \in Dimension : RequestBy(c).ratio[d] = 0
         /\ RequestBy(c).botNet =
              BotNet(c.rules, ClassifyUA(c.rules, c.mode, c.ua), c.asn)
         /\ RequestBy(c).onMatch = "allow" /\ RequestBy(c).onMismatch = "allow"
<1> DEFINE kind == ClassifyUA(c.rules, c.mode, c.ua).kind
           net == BotNet(c.rules, ClassifyUA(c.rules, c.mode, c.ua), c.asn)
           rates == [d \in Dimension |-> 0]
           no == FALSE
           yes == TRUE
<1>1. kind \in Kinds
  BY ClassKind
<1>2. net \in {"own", "foreign", "unknown"}
  BY DEF BotNet
<1>3. rates \in [Dimension -> Nat] /\ \A d \in Dimension : rates[d] = 0
  OBVIOUS
<1>4. no \in BOOLEAN /\ yes \in BOOLEAN /\ ~no /\ yes
  OBVIOUS
<1>5. RequestBy(c) =
        [kind |-> kind, cleared |-> no, asn |-> "none", hosting |-> no,
         fails |-> 0, storeOK |-> yes, ratio |-> rates, behavior |-> 0,
         badPair |-> no, botNet |-> net, onMatch |-> "allow",
         onMismatch |-> "allow", flood |-> no]
  BY DEF RequestBy
<1> HIDE DEF kind, net, rates, no, yes
<1>6. RequestBy(c) \in AllRequests
  BY <1>1, <1>2, <1>3, <1>4, <1>5 DEF AllRequests, Requests, Actions
<1>7. /\ RequestBy(c).kind = kind /\ RequestBy(c).asn = "none" /\ RequestBy(c).fails = 0
      /\ RequestBy(c).behavior = 0 /\ RequestBy(c).ratio = rates /\ RequestBy(c).botNet = net
      /\ RequestBy(c).onMatch = "allow" /\ RequestBy(c).onMismatch = "allow"
  BY <1>5
<1>8. /\ RequestBy(c).hosting = no /\ RequestBy(c).storeOK = yes
      /\ RequestBy(c).badPair = no /\ RequestBy(c).flood = no /\ RequestBy(c).cleared = no
  BY <1>5
<1>9. /\ ~RequestBy(c).hosting /\ RequestBy(c).storeOK
      /\ ~RequestBy(c).badPair /\ ~RequestBy(c).flood /\ ~RequestBy(c).cleared
  BY <1>4, <1>8, Zenon
<1>10. QED
  BY <1>3, <1>6, <1>7, <1>9 DEF kind, net

------------------------------------------------------------------------------
(* The verdict *)

\* A verdict by score comes from the thresholds, for one of the worst names.
LEMMA ScoreVerdict ==
  ASSUME NEW r \in AllRequests, NEW v \in Evaluate(r),
         v.class \in {"score", "cleared_abuse"}
  PROVE  \E worst \in Worsts(r) : v = Threshold(r, worst)
<1>1. r.kind \in Kinds
  BY DEF AllRequests, Requests
<1>2. CASE r.asn = "blocked" \/ UsedUp(r)
  <2>1. \/ v = Verdict("Block", "blocked_asn", "", RefusalScore)
        \/ v = Verdict("Block", "challenge_failures", "", RefusalScore)
    BY <1>2 DEF Evaluate
  <2>2. v.class \in {"blocked_asn", "challenge_failures"}
    <3>1. /\ Verdict("Block", "blocked_asn", "", RefusalScore).class = "blocked_asn"
          /\ Verdict("Block", "challenge_failures", "", RefusalScore).class
               = "challenge_failures"
      BY DEF Verdict
    <3>2. QED
      BY <2>1, <3>1
  <2>3. QED
    BY <2>2
<1>3. CASE ~(r.asn = "blocked" \/ UsedUp(r)) /\ r.kind \in Counted
  <2>1. Evaluate(r) = EvaluateCounted(r)
    BY <1>3 DEF Evaluate, Counted
  <2>2. v \in EvaluateCounted(r)
    BY <2>1
  <2>3. \/ \E d : v = Verdict(d, "store_error", "", 0)
        \/ \E s : v = Verdict("Challenge", "asn_always_challenge", "", s)
        \/ \E s : v = Verdict("Challenge", "hosting_browser", "", s)
        \/ \E worst \in Worsts(r) : v = Threshold(r, worst)
    BY <2>2 DEF EvaluateCounted
  <2>4. ASSUME NEW d, v = Verdict(d, "store_error", "", 0) PROVE FALSE
    BY <2>4 DEF Verdict
  <2>5. ASSUME NEW s, v = Verdict("Challenge", "asn_always_challenge", "", s) PROVE FALSE
    BY <2>5 DEF Verdict
  <2>6. ASSUME NEW s, v = Verdict("Challenge", "hosting_browser", "", s) PROVE FALSE
    BY <2>6 DEF Verdict
  <2>7. QED
    BY <2>3, <2>4, <2>5, <2>6, Zenon
<1>4. CASE ~(r.asn = "blocked" \/ UsedUp(r)) /\ r.kind \notin Counted
  <2>1. r.kind \in {"known_bot", "bad_bot", "tool_agent", "ai_bot", "unknown_bot"}
    BY <1>1, <1>4 DEF Kinds, Counted
  <2>2. EvaluateKnownBot(r).class \in {"fake_bot", "bot_flood", "bot_match"}
    BY DEF EvaluateKnownBot, Verdict
  <2>3. \/ v = EvaluateKnownBot(r)
        \/ v = Verdict("Block", "seo_blacklist", "", RefusalScore)
        \/ v = Verdict("Challenge", "tool_agent", "", ChallengeAt)
        \/ v = Verdict("Allow", "ai_crawler_allow", "", 0)
        \/ v = Verdict("Allow", "unknown_bot_allow", "", 0)
    BY <1>4, <2>1 DEF Evaluate
  <2>4. v.class \in {"fake_bot", "bot_flood", "bot_match", "seo_blacklist", "tool_agent",
                     "ai_crawler_allow", "unknown_bot_allow"}
    <3>1. /\ Verdict("Block", "seo_blacklist", "", RefusalScore).class = "seo_blacklist"
          /\ Verdict("Challenge", "tool_agent", "", ChallengeAt).class = "tool_agent"
          /\ Verdict("Allow", "ai_crawler_allow", "", 0).class = "ai_crawler_allow"
          /\ Verdict("Allow", "unknown_bot_allow", "", 0).class = "unknown_bot_allow"
      BY DEF Verdict
    <3>2. QED
      BY <2>2, <2>3, <3>1
  <2>5. QED
    BY <2>4
<1>5. QED
  BY <1>2, <1>3, <1>4

\* What the thresholds make of the score and of the name they give it.
LEMMA ThresholdCases ==
  ASSUME NEW r, NEW worst
  PROVE  LET v == Threshold(r, worst)
         IN  \/ /\ Score(r) >= BlockAt /\ worst \notin SharedDim
                /\ v = Verdict("Block", "score", worst, Score(r))
             \/ /\ ~r.cleared /\ Score(r) >= ChallengeAt
                /\ Score(r) >= BlockAt => worst \in SharedDim
                /\ v = Verdict("Challenge", "score", worst, Score(r))
             \/ /\ r.cleared /\ worst \notin SharedDim /\ Score(r) >= AbuseAt
                /\ ~(Score(r) >= BlockAt)
                /\ v = Verdict("Challenge", "cleared_abuse", worst, Score(r))
             \/ /\ Score(r) >= BlockAt => worst \in SharedDim
                /\ r.cleared \/ ~(Score(r) >= ChallengeAt)
                /\ r.cleared /\ worst \notin SharedDim => ~(Score(r) >= AbuseAt)
                /\ v = Verdict("Allow", "ok", "", Score(r))
BY DEF Threshold

\* What every state of Decision is: a request that can be asked, and no verdict
\* or one that Evaluate gives.
Asked ==
  /\ req \in AllRequests
  /\ claim = NoClaim \/ (claim \in Claim /\ req = RequestBy(claim))
  /\ verdict = NoVerdict \/ verdict \in Evaluate(req)

\* Every verdict in a state is one Evaluate gives for a well-formed request.
THEOREM AskedAlways == Spec => []Asked
<1>1. Init => Asked
  <2>1. SUFFICES ASSUME Init PROVE Asked
    OBVIOUS
  <2>2. CASE claim = NoClaim /\ req \in Request
    BY <2>1, <2>2, InputAssumption DEF Init, Asked, AllRequests
  <2>3. CASE claim \in Claim /\ req = RequestBy(claim)
    <3>1. claim \in AllClaims
      BY <2>3, InputAssumption DEF AllClaims
    <3>2. QED
      BY <2>1, <2>3, <3>1, ClaimRequest DEF Init, Asked
  <2>4. QED
    BY <2>1, <2>2, <2>3 DEF Init
<1>2. Asked /\ [Decide]_evars => Asked'
  BY DEF Asked, Decide, evars
<1>3. QED
  BY <1>1, <1>2, PTL DEF Spec

------------------------------------------------------------------------------
(* What shared dimensions may do *)

\* The fields of a verdict by the thresholds.
LEMMA ThresholdFields ==
  ASSUME NEW r, NEW worst
  PROVE  LET v == Threshold(r, worst)
         IN  \/ /\ Score(r) >= BlockAt /\ worst \notin SharedDim
                /\ v.decision = "Block" /\ v.class = "score"
             \/ /\ ~r.cleared /\ Score(r) >= ChallengeAt
                /\ Score(r) >= BlockAt => worst \in SharedDim
                /\ v.decision = "Challenge" /\ v.class = "score"
                /\ v.about = worst /\ v.score = Score(r)
             \/ /\ r.cleared /\ worst \notin SharedDim /\ Score(r) >= AbuseAt
                /\ ~(Score(r) >= BlockAt)
                /\ v.decision = "Challenge" /\ v.class = "cleared_abuse"
             \/ /\ Score(r) >= BlockAt => worst \in SharedDim
                /\ r.cleared \/ ~(Score(r) >= ChallengeAt)
                /\ r.cleared /\ worst \notin SharedDim => ~(Score(r) >= AbuseAt)
                /\ v.decision = "Allow" /\ v.class = "ok"
<1>1. /\ Verdict("Block", "score", worst, Score(r)).decision = "Block"
      /\ Verdict("Block", "score", worst, Score(r)).class = "score"
      /\ Verdict("Challenge", "score", worst, Score(r)).decision = "Challenge"
      /\ Verdict("Challenge", "score", worst, Score(r)).class = "score"
      /\ Verdict("Challenge", "score", worst, Score(r)).about = worst
      /\ Verdict("Challenge", "score", worst, Score(r)).score = Score(r)
      /\ Verdict("Challenge", "cleared_abuse", worst, Score(r)).decision = "Challenge"
      /\ Verdict("Challenge", "cleared_abuse", worst, Score(r)).class = "cleared_abuse"
      /\ Verdict("Allow", "ok", "", Score(r)).decision = "Allow"
      /\ Verdict("Allow", "ok", "", Score(r)).class = "ok"
  BY DEF Verdict
<1>2. QED
  BY <1>1, ThresholdCases

\* A refusal by score and a revoked pass are always backed by the visitor's own
\* dimensions (step 10 of Evaluate), whatever the shared ones say: a worst name
\* outside the shared dimensions scores as much as all of them.
THEOREM SharedAloneNeverHarmsHolds == Spec => []SharedAloneNeverHarms
<1>1. Asked => SharedAloneNeverHarms
  <2>1. SUFFICES ASSUME Asked PROVE SharedAloneNeverHarms
    OBVIOUS
  <2>2. req \in AllRequests /\ (verdict = NoVerdict \/ verdict \in Evaluate(req))
    BY <2>1 DEF Asked
  <2>3. NoVerdict.decision = "None"
    BY DEF NoVerdict, Verdict
  <2>4. ASSUME verdict.decision = "Block", verdict.class = "score"
        PROVE  PersonalScore(req) >= BlockAt
    <3>1. PICK worst \in Worsts(req) : verdict = Threshold(req, worst)
      BY <2>2, <2>3, <2>4, ScoreVerdict
    <3>2. Score(req) >= BlockAt /\ worst \notin SharedDim
      BY <2>4, <3>1, ThresholdFields
    <3>3. QED
      BY <2>2, <3>2, OwnWorstIsScore
  <2>5. ASSUME Revokes(req, verdict)
        PROVE  PersonalScore(req) >= AbuseAt
    <3>1. verdict.decision = "Challenge" /\ verdict.class = "cleared_abuse"
      BY <2>5 DEF Revokes
    <3>2. PICK worst \in Worsts(req) : verdict = Threshold(req, worst)
      BY <2>2, <2>3, <3>1, ScoreVerdict
    <3>3. Score(req) >= AbuseAt /\ worst \notin SharedDim
      BY <3>1, <3>2, ThresholdFields
    <3>4. QED
      BY <2>2, <3>3, OwnWorstIsScore
  <2>6. QED
    BY <2>4, <2>5 DEF SharedAloneNeverHarms
<1>2. QED
  BY <1>1, AskedAlways, PTL

\* A visitor with a pass whose own score stays below the limits is let through,
\* however high the shared dimensions stand and although the network alone would
\* be challenged.
THEOREM ClearanceHoldsAlways == Spec => []ClearanceHolds
<1>1. Asked => ClearanceHolds
  <2>1. SUFFICES ASSUME Asked, verdict # NoVerdict, req.cleared, req.kind \in Counted,
                        req.storeOK, req.asn # "blocked", ~UsedUp(req),
                        PersonalScore(req) < AbuseAt, PersonalScore(req) < BlockAt
                 PROVE  verdict.decision = "Allow"
    BY DEF ClearanceHolds
  <2>2. req \in AllRequests /\ verdict \in Evaluate(req)
    BY <2>1 DEF Asked
  <2>3. ~UsedUp(req)
    BY <2>1
  <2>4. Evaluate(req) = EvaluateCounted(req)
    BY <2>1, <2>3 DEF Evaluate, Counted
  <2>5. EvaluateCounted(req) = {Threshold(req, worst) : worst \in Worsts(req)}
    BY <2>1 DEF EvaluateCounted
  <2>6. PICK worst \in Worsts(req) : verdict = Threshold(req, worst)
    BY <2>2, <2>4, <2>5
  <2>7. PersonalScore(req) \in Nat /\ AbuseAt \in Nat /\ BlockAt \in Nat
    BY <2>2, PersonalBelowScore, ScoreAssumption
  <2>8. worst \notin SharedDim => ~(Score(req) >= BlockAt) /\ ~(Score(req) >= AbuseAt)
    BY <2>1, <2>2, <2>7, OwnWorstIsScore
  <2>9. QED
    BY <2>1, <2>6, <2>8, ThresholdFields
<1>2. QED
  BY <1>1, AskedAlways, PTL

\* Division keeps the order.
LEMMA DivKeepsOrder ==
  ASSUME NEW a \in Nat, NEW b \in Nat, NEW n \in Nat \ {0}, a =< b
  PROVE  a \div n \in Nat /\ a \div n =< b \div n
<1> DEFINE p == a \div n
           q == b \div n
<1>1. p \in Nat /\ q \in Nat
  OBVIOUS
<1>2. n * p =< a /\ b < n * q + n
  OBVIOUS
<1> HIDE DEF p, q
<1>3. ASSUME p > q PROVE FALSE
  <2>1. q + 1 =< p
    BY <1>1, <1>3
  <2>2. (q + 1) * n =< p * n
    BY <1>1, <2>1, TimesKeepsOrder
  <2>3. (q + 1) * n = n * q + n /\ p * n = n * p
    BY <1>1
  <2>4. n * q \in Nat /\ n * p \in Nat
    BY <1>1
  <2>5. QED
    BY <1>2, <2>2, <2>3, <2>4
<1>4. QED
  BY <1>1, <1>3 DEF p, q

\* The largest and the smallest of two numbers.
LEMMA OfTwo ==
  ASSUME NEW a \in Int, NEW b \in Int
  PROVE  /\ Max({a, b}) = IF a >= b THEN a ELSE b
         /\ Min({a, b}) = IF a =< b THEN a ELSE b
<1> DEFINE S == {a, b}
<1>1. IsFiniteSet(S)
  <2>1. IsFiniteSet({a} \cup {b})
    BY FS_Singleton, FS_AddElement
  <2>2. S = {a} \cup {b}
    OBVIOUS
  <2>3. QED
    BY <2>1, <2>2
<1>2. S \in SUBSET Int /\ S # {}
  OBVIOUS
<1>3. /\ Max(S) \in S /\ \A y \in S : Max(S) >= y
      /\ Min(S) \in S /\ \A y \in S : Min(S) =< y
  <2> HIDE DEF S
  <2>1. QED
    BY <1>1, <1>2, MaxIsLargest, MinIsSmallest
<1>4. QED
  BY <1>3

\* A higher score never makes the puzzle easier.
LEMMA DifficultyKeepsOrder ==
  ASSUME NEW a \in Nat, NEW b \in Nat, a =< b
  PROVE  Difficulty(a) =< Difficulty(b)
<1> DEFINE over(s) == IF s > ChallengeAt
                      THEN ((s - ChallengeAt) * DifficultyPerScore) \div One ELSE 0
           capped(s) == Min({MaxDifficulty, BaseDifficulty + over(s)})
<1>1. /\ One \in Nat \ {0} /\ ChallengeAt \in Nat
      /\ MaxDifficulty \in Nat /\ BaseDifficulty \in Nat /\ DifficultyPerScore \in Nat
  BY ScoreAssumption, DifficultyAssumption
<1>2. \A s \in Nat : over(s) \in Nat
  <2>1. ASSUME NEW s \in Nat PROVE over(s) \in Nat
    <3>1. CASE s > ChallengeAt
      <4>1. s - ChallengeAt \in Nat
        BY <1>1, <3>1
      <4>2. (s - ChallengeAt) * DifficultyPerScore \in Nat
        BY <1>1, <4>1
      <4>3. ((s - ChallengeAt) * DifficultyPerScore) \div One \in Nat
        BY <1>1, <4>2, DivKeepsOrder
      <4>4. QED
        BY <3>1, <4>3
    <3>2. QED
      BY <3>1
  <2>2. QED
    BY <2>1
<1>3. over(a) =< over(b)
  <2>1. CASE a > ChallengeAt
    <3>1. a - ChallengeAt \in Nat /\ b - ChallengeAt \in Nat
          /\ a - ChallengeAt =< b - ChallengeAt
      BY <1>1, <2>1
    <3>2. (a - ChallengeAt) * DifficultyPerScore =< (b - ChallengeAt) * DifficultyPerScore
      BY <1>1, <3>1, TimesKeepsOrder
    <3>3. /\ (a - ChallengeAt) * DifficultyPerScore \in Nat
          /\ (b - ChallengeAt) * DifficultyPerScore \in Nat
      BY <1>1, <3>1
    <3>4. ((a - ChallengeAt) * DifficultyPerScore) \div One
            =< ((b - ChallengeAt) * DifficultyPerScore) \div One
      BY <1>1, <3>2, <3>3, DivKeepsOrder
    <3>5. b > ChallengeAt
      BY <1>1, <2>1
    <3>6. QED
      BY <2>1, <3>4, <3>5
  <2>2. CASE ~(a > ChallengeAt)
    <3>1. over(a) = 0 /\ over(b) \in Nat
      BY <1>2, <2>2
    <3> HIDE DEF over
    <3>2. QED
      BY <3>1
  <2>3. QED
    BY <2>1, <2>2
<1>4. Difficulty(a) = Max({1, capped(a)}) /\ Difficulty(b) = Max({1, capped(b)})
  BY DEF Difficulty
<1>5. over(a) \in Nat /\ over(b) \in Nat
  BY <1>2
<1>6. capped(a) \in Int /\ capped(b) \in Int /\ capped(a) =< capped(b)
  <2> HIDE DEF over
  <2>1. BaseDifficulty + over(a) \in Int /\ BaseDifficulty + over(b) \in Int
    BY <1>1, <1>5
  <2>2. /\ capped(a) = IF MaxDifficulty =< BaseDifficulty + over(a)
                       THEN MaxDifficulty ELSE BaseDifficulty + over(a)
        /\ capped(b) = IF MaxDifficulty =< BaseDifficulty + over(b)
                       THEN MaxDifficulty ELSE BaseDifficulty + over(b)
    <3>1. \A x \in Int : Min({MaxDifficulty, x}) = IF MaxDifficulty =< x THEN MaxDifficulty
                                                                          ELSE x
      BY <1>1, OfTwo
    <3>2. QED
      BY <2>1, <3>1
  <2>3. QED
    BY <1>1, <1>3, <1>5, <2>2
<1> HIDE DEF capped, over
<1>7. /\ Max({1, capped(a)}) = IF 1 >= capped(a) THEN 1 ELSE capped(a)
      /\ Max({1, capped(b)}) = IF 1 >= capped(b) THEN 1 ELSE capped(b)
  BY <1>6, OfTwo
<1>8. QED
  BY <1>4, <1>6, <1>7

\* Shared dimensions never raise the difficulty or the stage: the score that
\* effChallengeScore leaves is at most the visitor's own, or ChallengeAt.
THEOREM SharedScoreNeverEscalatesHolds == Spec => []SharedScoreNeverEscalates
<1>1. Asked => SharedScoreNeverEscalates
  <2> DEFINE own == AtLeast(PersonalScore(req), ChallengeAt)
             byOwnScore == Verdict("Challenge", "score", "", own)
             eff == EffChallengeScore(verdict)
  <2>1. SUFFICES ASSUME Asked, verdict.decision = "Challenge", verdict.class = "score",
                        ~IsHardReason(verdict)
                 PROVE  /\ Difficulty(eff) =< Difficulty(own)
                        /\ Effort(Stage(verdict)) =< Effort(Stage(byOwnScore))
    BY DEF SharedScoreNeverEscalates
  <2>2. NoVerdict.decision = "None"
    BY DEF NoVerdict, Verdict
  <2>3. req \in AllRequests /\ verdict \in Evaluate(req)
    BY <2>1, <2>2 DEF Asked
  <2>4. PICK worst \in Worsts(req) : verdict = Threshold(req, worst)
    BY <2>1, <2>3, ScoreVerdict
  <2>5. Score(req) >= ChallengeAt /\ verdict.about = worst /\ verdict.score = Score(req)
    BY <2>1, <2>4, ThresholdFields
  <2>6. /\ Score(req) \in Nat /\ PersonalScore(req) \in Nat
        /\ {ChallengeAt, CaptchaAt, CheckboxAt} \subseteq Nat
    BY <2>3, PersonalBelowScore, ScoreAssumption
  <2>7. own \in Nat /\ ChallengeAt =< own /\ PersonalScore(req) =< own
    BY <2>6 DEF AtLeast
  <2>8. eff \in Nat /\ eff =< own
    <3>1. CASE worst \in SharedDim
      <4>1. eff = ChallengeAt
        BY <2>1, <2>5, <3>1 DEF EffChallengeScore
      <4>2. QED
        BY <2>6, <2>7, <4>1
    <3>2. CASE worst \notin SharedDim
      <4>1. eff = Score(req)
        BY <2>1, <2>5, <3>2 DEF EffChallengeScore
      <4>2. PersonalScore(req) = Score(req)
        BY <2>3, <3>2, OwnWorstIsScore
      <4>3. QED
        BY <2>6, <2>7, <4>1, <4>2
    <3>3. QED
      BY <3>1, <3>2
  <2>9. EffChallengeScore(byOwnScore) = own
    <3>1. "" \notin SharedDim
      BY DimensionAssumption
    <3> HIDE DEF own
    <3>2. byOwnScore.about = "" /\ byOwnScore.score = own
      BY DEF Verdict
    <3>3. QED
      BY <3>1, <3>2 DEF EffChallengeScore
  <2> HIDE DEF own, byOwnScore, eff
  <2>10. Difficulty(eff) =< Difficulty(own)
    BY <2>7, <2>8, DifficultyKeepsOrder
  <2>11. Effort("pow") = 0 /\ Effort("checkbox") = 1 /\ Effort("captcha") = 2
    BY DEF Effort
  <2>12. Stage(verdict) = IF CaptchaAt > 0 /\ eff >= CaptchaAt THEN "captcha"
                          ELSE IF CheckboxAt > 0 /\ eff >= CheckboxAt THEN "checkbox"
                          ELSE "pow"
    BY <2>1 DEF Stage, eff
  <2>13. /\ Stage(byOwnScore) \in {"captcha", "checkbox", "pow"}
         /\ CaptchaAt > 0 /\ own >= CaptchaAt => Stage(byOwnScore) = "captcha"
         /\ CheckboxAt > 0 /\ own >= CheckboxAt =>
              Stage(byOwnScore) \in {"captcha", "checkbox"}
    BY <2>9 DEF Stage
  <2>14. Effort(Stage(byOwnScore)) \in 0 .. 2
    BY <2>11, <2>13
  <2>15. CASE CaptchaAt > 0 /\ eff >= CaptchaAt
    <3>1. own >= CaptchaAt
      BY <2>6, <2>7, <2>8, <2>15
    <3>2. QED
      BY <2>10, <2>11, <2>12, <2>13, <2>15, <3>1
  <2>16. CASE ~(CaptchaAt > 0 /\ eff >= CaptchaAt) /\ CheckboxAt > 0 /\ eff >= CheckboxAt
    <3>1. own >= CheckboxAt
      BY <2>6, <2>7, <2>8, <2>16
    <3>2. QED
      BY <2>10, <2>11, <2>12, <2>13, <2>16, <3>1
  <2>17. CASE /\ ~(CaptchaAt > 0 /\ eff >= CaptchaAt)
              /\ ~(CheckboxAt > 0 /\ eff >= CheckboxAt)
    BY <2>10, <2>11, <2>12, <2>14, <2>17
  <2>18. QED
    BY <2>15, <2>16, <2>17
<1>2. QED
  BY <1>1, AskedAlways, PTL

------------------------------------------------------------------------------
(* What rules and lists decide *)

\* A quiet client that passes for a browser is let through.
LEMMA QuietPasses ==
  ASSUME NEW c \in AllClaims, RequestBy(c).kind \in {"browser", "behavioral"}
  PROVE  Evaluate(RequestBy(c)) = {Verdict("Allow", "ok", "", 0)}
<1> DEFINE r == RequestBy(c)
<1>1. /\ r \in AllRequests /\ r.asn = "none" /\ r.fails = 0 /\ ~r.hosting /\ r.storeOK
      /\ ~r.badPair /\ ~r.cleared /\ r.behavior = 0 /\ \A d \in Dimension : r.ratio[d] = 0
  BY ClaimRequest
<1>2. r.kind \in {"browser", "behavioral"}
  OBVIOUS
<1> HIDE DEF r
<1>3. ~UsedUp(r)
  BY <1>1 DEF UsedUp
<1>4. Evaluate(r) = EvaluateCounted(r)
  BY <1>1, <1>2, <1>3 DEF Evaluate, Counted
<1>5. EvaluateCounted(r) = {Threshold(r, worst) : worst \in Worsts(r)}
  BY <1>1 DEF EvaluateCounted
<1>6. Score(r) = 0
  <2>1. EmptyUA(r) = 0 /\ Mismatch(r) = 0
    BY <1>1, <1>2 DEF EmptyUA, Mismatch
  <2>2. Extra(r) = 0
    BY <1>1, <2>1 DEF Extra
  <2>3. \A d \in Dimension : RateScore(r, d) = 0
    <3>1. 0 * Mult(r) = 0
      BY <1>1, RequestFields
    <3>2. QED
      BY <1>1, <3>1, RequestFields
  <2>4. Top(r, Dimension) = 0
    BY <1>1, <2>3, TopIsWorst
  <2>5. QED
    BY <1>1, <2>2, <2>4, PersonalBelowScore
<1>7. ~(0 >= BlockAt) /\ ~(0 >= ChallengeAt)
  BY ScoreAssumption
<1>8. \A worst \in Worsts(r) : Threshold(r, worst) = Verdict("Allow", "ok", "", 0)
  BY <1>1, <1>6, <1>7, ThresholdCases
<1>9. Worsts(r) # {}
  BY DEF Worsts
<1>10. QED
  BY <1>4, <1>5, <1>8, <1>9 DEF r

\* A client that passes for a known bot is judged by its network alone.
LEMMA BotJudged ==
  ASSUME NEW c \in AllClaims, RequestBy(c).kind = "known_bot",
         NEW v \in Evaluate(RequestBy(c))
  PROVE  v.decision = IF RequestBy(c).botNet = "foreign" THEN "Challenge" ELSE "Allow"
<1> DEFINE r == RequestBy(c)
<1>1. /\ r.asn = "none" /\ r.fails = 0 /\ ~r.flood /\ r.kind = "known_bot"
      /\ r.onMatch = "allow" /\ r.onMismatch = "allow"
  BY ClaimRequest
<1> HIDE DEF r
<1>2. ~UsedUp(r)
  BY <1>1 DEF UsedUp
<1>3. Evaluate(r) = {EvaluateKnownBot(r)}
  BY <1>1, <1>2 DEF Evaluate, Counted
<1>4. ActionToDecision("challenge") = "Challenge" /\ ActionToDecision("allow") = "Allow"
  BY DEF ActionToDecision
<1>5. EvaluateKnownBot(r) = IF r.botNet = "foreign"
                            THEN Verdict("Challenge", "fake_bot", "", ChallengeAt)
                            ELSE Verdict("Allow", "bot_match", "", 0)
  BY <1>1, <1>4 DEF EvaluateKnownBot
<1>6. /\ Verdict("Challenge", "fake_bot", "", ChallengeAt).decision = "Challenge"
      /\ Verdict("Allow", "bot_match", "", 0).decision = "Allow"
  BY DEF Verdict
<1>7. v = EvaluateKnownBot(r)
  BY <1>3 DEF r
<1>8. QED
  BY <1>5, <1>6, <1>7 DEF r

\* Of the rules that name a bot with a name of its own, that bot gets the networks.
LEMMA OwnNetworks ==
  ASSUME NEW rules, NEW k \in DOMAIN rules, DOMAIN rules \subseteq Int,
         rules[k].action = "known_bot", rules[k].asns # {},
         \A i \in DOMAIN rules : NameOf(rules[i]) = NameOf(rules[k]) => i = k
  PROVE  NetworksOf(rules, NameOf(rules[k])) = rules[k].asns
<1> DEFINE known == {i \in DOMAIN rules : rules[i].action = "known_bot" /\ rules[i].asns # {}}
           named(n) == {i \in known : NameOf(rules[i]) = n}
           names == {NameOf(rules[i]) : i \in known}
<1>1. k \in known /\ NameOf(rules[k]) \in names
  OBVIOUS
<1>2. named(NameOf(rules[k])) = {k}
  OBVIOUS
<1>3. Max({k}) = k
  <2>1. IsFiniteSet({k})
    BY FS_Singleton
  <2>2. QED
    BY <2>1, MaxIsLargest
<1>4. CustomASN(rules) = [n \in names |-> rules[Max(named(n))].asns]
  BY DEF CustomASN
<1> HIDE DEF named, names
<1>5. /\ NameOf(rules[k]) \in DOMAIN CustomASN(rules)
      /\ CustomASN(rules)[NameOf(rules[k])] = rules[k].asns
  BY <1>1, <1>2, <1>3, <1>4
<1>6. QED
  BY <1>5 DEF NetworksOf

\* The first matching rule decides, as the table of actions says, and a known
\* bot's networks are those of its rule (matchRules, kindOf, NewConfig).
THEOREM RuleDecidesHolds == Spec => []RuleDecides
<1>1. Asked => RuleDecides
  <2> DEFINE r == FirstRule(claim)
             class == ClassifyUA(claim.rules, claim.mode, claim.ua)
  <2>1. SUFFICES ASSUME Asked, Judged, Matching(claim.rules, claim.ua) # {}
                 PROVE  CASE r.action \in {"allow", "score"} -> verdict.decision = "Allow"
                          [] r.action = "block"     -> verdict.decision = "Block"
                          [] r.action = "challenge" -> verdict.decision = "Challenge"
                          [] r.action = "known_bot" ->
                               r.asns # {} /\ claim.asn # NoASN
                               /\ (\A i, j \in DOMAIN claim.rules :
                                     NameOf(claim.rules[i]) = NameOf(claim.rules[j]) => i = j) =>
                                 verdict.decision = IF claim.asn \in r.asns THEN "Allow"
                                                                            ELSE "Challenge"
    BY DEF RuleDecides
  <2>2. claim \in AllClaims /\ req = RequestBy(claim) /\ verdict \in Evaluate(req)
    BY <2>1, InputAssumption DEF Asked, Judged, AllClaims
  <2>3. r.action \in {"allow", "block", "challenge", "score", "known_bot"}
    BY <2>1, <2>2, FirstMatch DEF RuleActions
  <2>4. /\ req.kind = class.kind /\ req.botNet = BotNet(claim.rules, class, claim.asn)
        /\ req.fails = 0 /\ req.asn = "none"
    BY <2>2, ClaimRequest
  <2>5. ~UsedUp(req)
    BY <2>4 DEF UsedUp
  <2>6. class = KindOf(r)
    BY <2>1 DEF ClassifyUA, FirstRule, Judged
  <2> HIDE DEF r, class
  <2>7. CASE r.action = "allow"
    <3>1. req.kind = "unknown_bot"
      BY <2>4, <2>6, <2>7 DEF KindOf, Class
    <3>2. verdict = Verdict("Allow", "unknown_bot_allow", "", 0)
      BY <2>2, <2>4, <2>5, <3>1 DEF Evaluate, Counted
    <3>3. verdict.decision = "Allow"
      BY <3>2 DEF Verdict
    <3>4. QED
      BY <2>7, <3>3
  <2>8. CASE r.action = "block"
    <3>1. req.kind = "bad_bot"
      BY <2>4, <2>6, <2>8 DEF KindOf, Class
    <3>2. verdict = Verdict("Block", "seo_blacklist", "", RefusalScore)
      BY <2>2, <2>4, <2>5, <3>1 DEF Evaluate, Counted
    <3>3. verdict.decision = "Block"
      BY <3>2 DEF Verdict
    <3>4. QED
      BY <2>8, <3>3
  <2>9. CASE r.action = "challenge"
    <3>1. req.kind = "tool_agent"
      BY <2>4, <2>6, <2>9 DEF KindOf, Class
    <3>2. verdict = Verdict("Challenge", "tool_agent", "", ChallengeAt)
      BY <2>2, <2>4, <2>5, <3>1 DEF Evaluate, Counted
    <3>3. verdict.decision = "Challenge"
      BY <3>2 DEF Verdict
    <3>4. QED
      BY <2>9, <3>3
  <2>10. CASE r.action = "score"
    <3>1. req.kind = "browser"
      BY <2>4, <2>6, <2>10 DEF KindOf, Class
    <3>2. verdict = Verdict("Allow", "ok", "", 0)
      <4>1. Evaluate(req) = {Verdict("Allow", "ok", "", 0)}
        BY <2>2, <2>5, <3>1, QuietPasses
      <4>2. QED
        BY <2>2, <4>1
    <3>3. verdict.decision = "Allow"
      BY <3>2 DEF Verdict
    <3>4. QED
      BY <2>10, <3>3
  <2>11. CASE r.action = "known_bot"
    <3>1. SUFFICES ASSUME r.asns # {}, claim.asn # NoASN,
                          \A i, j \in DOMAIN claim.rules :
                             NameOf(claim.rules[i]) = NameOf(claim.rules[j]) => i = j
                   PROVE  verdict.decision = IF claim.asn \in r.asns THEN "Allow"
                                                                      ELSE "Challenge"
      BY <2>11
    <3>2. class.kind = "known_bot" /\ class.name = NameOf(r)
      BY <2>6, <2>11 DEF KindOf, Class
    <3> DEFINE k == Min(Matching(claim.rules, claim.ua))
    <3>3. k \in DOMAIN claim.rules
      BY <2>1, <2>2, FirstMatch
    <3>4. DOMAIN claim.rules \subseteq Int
      <4>1. claim.rules \in Seq(RulesOf(STRING, STRING, STRING, Nat))
        BY <2>2 DEF AllClaims
      <4>2. QED
        BY <4>1
    <3>5. r = claim.rules[k]
      BY DEF r, FirstRule
    <3> HIDE DEF k
    <3>6. NetworksOf(claim.rules, NameOf(r)) = r.asns
      BY <2>11, <3>1, <3>3, <3>4, <3>5, OwnNetworks
    <3>7. req.botNet = IF claim.asn \in r.asns THEN "own" ELSE "foreign"
      BY <2>4, <3>1, <3>2, <3>6 DEF BotNet
    <3>8. verdict.decision = IF req.botNet = "foreign" THEN "Challenge" ELSE "Allow"
      BY <2>2, <2>4, <2>5, <3>2, BotJudged
    <3>9. QED
      BY <3>7, <3>8
  <2>12. QED
    BY <2>3, <2>7, <2>8, <2>9, <2>10, <2>11
<1>2. QED
  BY <1>1, AskedAlways, PTL

\* Without rules a bot has the networks of the built-in list.
LEMMA BuiltInNetworks ==
  ASSUME NEW rules, NEW name,
         \A i \in DOMAIN rules : NameOf(rules[i]) # name
  PROVE  NetworksOf(rules, name) = IF name \in DOMAIN BotASN THEN BotASN[name] ELSE {}
<1> DEFINE known == {i \in DOMAIN rules : rules[i].action = "known_bot" /\ rules[i].asns # {}}
           nets(n) == rules[Max({i \in known : NameOf(rules[i]) = n})].asns
           names == {NameOf(rules[i]) : i \in known}
<1>1. name \notin names
  OBVIOUS
<1>2. CustomASN(rules) = [n \in names |-> nets(n)]
  BY DEF CustomASN
<1> HIDE DEF names, nets
<1>3. name \notin DOMAIN CustomASN(rules)
  BY <1>1, <1>2
<1>4. QED
  BY <1>3 DEF NetworksOf

\* Without a matching rule the built-in lists name the client, unless the rules
\* are all there is.
LEMMA Unmatched ==
  ASSUME NEW c \in AllClaims, ~c.ua.empty, Matching(c.rules, c.ua) = {}
  PROVE  ClassifyUA(c.rules, c.mode, c.ua) = IF c.mode = "override" THEN Class("browser", "")
                                             ELSE BuiltIn(c.ua)
BY DEF ClassifyUA

\* A crawler from its own network is let through: by name or by the one mark it
\* bears, ahead of the lists that come after.
THEOREM CrawlersPassHolds == Spec => []CrawlersPass
<1>1. Asked => CrawlersPass
  <2> DEFINE ua == claim.ua
             class == ClassifyUA(claim.rules, claim.mode, claim.ua)
             byName == ua.name \in DOMAIN BotASN /\ claim.asn \in BotASN[ua.name]
             byMark == /\ ua.name \notin DOMAIN BotASN
                       /\ \E m \in ua.marks \cap DOMAIN KnownMark :
                             claim.asn \in BotASN[KnownMark[m]]
  <2>1. SUFFICES ASSUME Asked, Judged, Matching(claim.rules, claim.ua) = {},
                        claim.rules = <<>>, byName \/ byMark
                 PROVE  verdict.decision = "Allow"
    BY DEF CrawlersPass
  <2>2. /\ claim \in Claim /\ claim \in AllClaims
        /\ req = RequestBy(claim) /\ verdict \in Evaluate(req)
    BY <2>1, InputAssumption DEF Asked, Judged, AllClaims
  <2>3. req.kind = class.kind /\ req.botNet = BotNet(claim.rules, class, claim.asn)
    BY <2>2, ClaimRequest
  <2>4. class = IF claim.mode = "override" THEN Class("browser", "") ELSE BuiltIn(ua)
    BY <2>1, <2>2, Unmatched DEF Judged
  <2>5. ASSUME class.kind \in {"browser", "behavioral"} PROVE verdict.decision = "Allow"
    <3>1. Evaluate(req) = {Verdict("Allow", "ok", "", 0)}
      BY <2>2, <2>3, <2>5, QuietPasses
    <3>2. verdict = Verdict("Allow", "ok", "", 0)
      BY <2>2, <3>1
    <3>3. QED
      BY <3>2 DEF Verdict
  <2>6. ASSUME NEW name \in DOMAIN BotASN, class = Class("known_bot", name),
               claim.asn \in BotASN[name]
        PROVE  verdict.decision = "Allow"
    <3>1. class.kind = "known_bot" /\ class.name = name
      BY <2>6 DEF Class
    <3>2. NetworksOf(claim.rules, name) = BotASN[name]
      <4>1. \A i \in DOMAIN claim.rules : NameOf(claim.rules[i]) # name
        BY <2>1
      <4>2. QED
        BY <2>6, <4>1, BuiltInNetworks
    <3>3. req.botNet # "foreign"
      BY <2>3, <2>6, <3>1, <3>2 DEF BotNet
    <3>4. QED
      BY <2>2, <2>3, <3>1, <3>3, BotJudged
  <2>8. ASSUME byMark
        PROVE  /\ MarkedAs(ua) \in DOMAIN BotASN /\ MarkedAs(ua) # ""
               /\ claim.asn \in BotASN[MarkedAs(ua)]
    <3>1. PICK m \in ua.marks \cap DOMAIN KnownMark : claim.asn \in BotASN[KnownMark[m]]
      BY <2>8
    <3>2. \A n \in ua.marks \cap DOMAIN KnownMark : n = m
      BY <2>2, <3>1, InputAssumption
    <3>3. MarkedAs(ua) = KnownMark[m]
      BY <3>1, <3>2 DEF MarkedAs
    <3>4. KnownMark[m] \in DOMAIN BotASN /\ "" \notin DOMAIN BotASN
      BY <3>1, ListsAssumption
    <3>5. QED
      BY <3>1, <3>3, <3>4
  <2>9. CASE claim.mode = "override"
    <3>1. class.kind = "browser"
      <4>1. class = Class("browser", "")
        BY <2>4, <2>9
      <4>2. Class("browser", "").kind = "browser"
        BY DEF Class
      <4>3. QED
        BY <4>1, <4>2, Zenon
    <3>2. QED
      BY <2>5, <3>1
  <2>10. CASE claim.mode # "override"
    <3>1. class = BuiltIn(ua)
      BY <2>4, <2>10
    <3>2. /\ Class("browser", "").kind = "browser"
          /\ Class("behavioral", ua.name).kind = "behavioral"
      BY DEF Class
    <3> HIDE DEF class
    <3>3. CASE class = Class("browser", "") \/ class = Class("behavioral", ua.name)
      BY <2>5, <3>2, <3>3
    <3>4. CASE ua.name \in DOMAIN BotASN /\ class = Class("known_bot", ua.name)
      BY <2>1, <2>6, <3>4
    <3>5. CASE ua.name \notin DOMAIN BotASN /\ class = Class("known_bot", MarkedAs(ua))
      BY <2>1, <2>6, <2>8, <3>5
    <3>6. CASE ua.name \notin DOMAIN BotASN /\ MarkedAs(ua) = ""
      BY <2>1, <2>8, <3>6
    <3>7. QED
      <4>1. \/ class = Class("browser", "") \/ class = Class("behavioral", ua.name)
            \/ ua.name \in DOMAIN BotASN /\ class = Class("known_bot", ua.name)
            \/ ua.name \notin DOMAIN BotASN /\ class = Class("known_bot", MarkedAs(ua))
            \/ ua.name \notin DOMAIN BotASN /\ MarkedAs(ua) = ""
        BY <3>1, BuiltInFirst, Zenon
      <4>2. QED
        BY <3>3, <3>4, <3>5, <3>6, <4>1, Zenon
  <2>11. QED
    BY <2>9, <2>10
<1>2. QED
  BY <1>1, AskedAlways, PTL

\* Rules say nothing about the clients they do not match: these are judged as
\* without rules, and in override mode by the rates alone.
THEOREM RulesAreLocalHolds == Spec => []RulesAreLocal
<1>1. Asked => RulesAreLocal
  <2> DEFINE bare == [claim EXCEPT !.rules = <<>>]
             class == ClassifyUA(claim.rules, claim.mode, claim.ua)
  <2>1. SUFFICES ASSUME Asked, Judged, Matching(claim.rules, claim.ua) = {}
                 PROVE  IF claim.mode = "override" THEN verdict.class = "ok"
                        ELSE (\A i \in DOMAIN claim.rules :
                                NameOf(claim.rules[i]) \notin DOMAIN BotASN) =>
                               verdict \in Evaluate(RequestBy(bare))
    BY DEF RulesAreLocal
  <2>2. claim \in AllClaims /\ req = RequestBy(claim) /\ verdict \in Evaluate(req)
    BY <2>1, InputAssumption DEF Asked, Judged, AllClaims
  <2>3. req.kind = class.kind /\ req.botNet = BotNet(claim.rules, class, claim.asn)
    BY <2>2, ClaimRequest
  <2>4. class = IF claim.mode = "override" THEN Class("browser", "") ELSE BuiltIn(claim.ua)
    BY <2>1, <2>2, Unmatched DEF Judged
  <2>5. CASE claim.mode = "override"
    <3>1. class.kind = "browser"
      <4>1. class = Class("browser", "")
        BY <2>4, <2>5
      <4>2. Class("browser", "").kind = "browser"
        BY DEF Class
      <4>3. QED
        BY <4>1, <4>2, Zenon
    <3>2. Evaluate(req) = {Verdict("Allow", "ok", "", 0)}
      BY <2>2, <2>3, <3>1, QuietPasses
    <3>3. verdict = Verdict("Allow", "ok", "", 0)
      BY <2>2, <3>2
    <3>4. verdict.class = "ok"
      BY <3>3 DEF Verdict
    <3>5. QED
      BY <2>5, <3>4
  <2>6. CASE claim.mode # "override"
    <3>1. SUFFICES ASSUME \A i \in DOMAIN claim.rules :
                            NameOf(claim.rules[i]) \notin DOMAIN BotASN
                   PROVE  verdict \in Evaluate(RequestBy(bare))
      BY <2>6
    <3>2. /\ bare \in AllClaims /\ bare.rules = <<>>
          /\ bare.ua = claim.ua /\ bare.mode = claim.mode /\ bare.asn = claim.asn
      <4> DEFINE none == <<>>
      <4>1. /\ claim.mode \in RulesModes /\ claim.ua \in Agents /\ claim.asn \in Nat
            /\ claim = [rules |-> claim.rules, mode |-> claim.mode, ua |-> claim.ua,
                        asn |-> claim.asn]
        BY <2>2 DEF AllClaims
      <4>2. none \in Seq(RulesOf(STRING, STRING, STRING, Nat))
        OBVIOUS
      <4>3. bare = [claim EXCEPT !.rules = none]
        OBVIOUS
      <4> HIDE DEF none
      <4>4. bare = [rules |-> none, mode |-> claim.mode, ua |-> claim.ua, asn |-> claim.asn]
        BY <4>1, <4>3
      <4> HIDE DEF bare
      <4>5. /\ bare \in AllClaims /\ bare.rules = none
            /\ bare.ua = claim.ua /\ bare.mode = claim.mode /\ bare.asn = claim.asn
        BY <4>1, <4>2, <4>4 DEF AllClaims
      <4>6. QED
        BY <4>5 DEF none
    <3> HIDE DEF bare
    <3>3. ClassifyUA(bare.rules, bare.mode, bare.ua) = class
      <4>1. Matching(bare.rules, bare.ua) = {}
        BY <3>2 DEF Matching
      <4>2. QED
        BY <2>1, <2>4, <3>2, <4>1, Unmatched DEF Judged
    <3>4. CASE class.kind = "known_bot"
      <4>1. class.name \in DOMAIN BotASN
        <5>1. BuiltIn(claim.ua) = class
          BY <2>4, <2>6
        <5>2. MarkedAs(claim.ua) # "" => MarkedAs(claim.ua) \in DOMAIN BotASN
          <6> DEFINE known == claim.ua.marks \cap DOMAIN KnownMark
          <6>1. SUFFICES ASSUME known # {} PROVE MarkedAs(claim.ua) \in DOMAIN BotASN
            BY DEF MarkedAs
          <6>2. MarkedAs(claim.ua) = KnownMark[CHOOSE m \in known : TRUE]
            BY <6>1 DEF MarkedAs
          <6>3. (CHOOSE m \in known : TRUE) \in known
            BY <6>1
          <6>4. QED
            BY <6>2, <6>3, ListsAssumption
        <5>3. /\ Class("browser", "").kind = "browser"
              /\ Class("behavioral", claim.ua.name).kind = "behavioral"
              /\ Class("known_bot", claim.ua.name).name = claim.ua.name
              /\ Class("known_bot", MarkedAs(claim.ua)).name = MarkedAs(claim.ua)
          BY DEF Class
        <5> HIDE DEF class
        <5>4. \/ class = Class("browser", "") \/ class = Class("behavioral", claim.ua.name)
              \/ claim.ua.name \in DOMAIN BotASN /\ class = Class("known_bot", claim.ua.name)
              \/ MarkedAs(claim.ua) # "" /\ class = Class("known_bot", MarkedAs(claim.ua))
              \/ class.kind \in {"bad_bot", "ai_bot", "tool_agent", "unknown_bot", "browser"}
          BY <5>1, BuiltInFirst, Zenon
        <5>5. QED
          BY <3>4, <5>2, <5>3, <5>4
      <4>2. /\ \A i \in DOMAIN claim.rules : NameOf(claim.rules[i]) # class.name
            /\ \A i \in DOMAIN bare.rules : NameOf(bare.rules[i]) # class.name
        BY <3>1, <3>2, <4>1
      <4>3. NetworksOf(claim.rules, class.name) = NetworksOf(bare.rules, class.name)
        <5> HIDE DEF class
        <5>1. QED
          BY <4>1, <4>2, BuiltInNetworks
      <4>4. BotNet(claim.rules, class, claim.asn) = BotNet(bare.rules, class, bare.asn)
        BY <3>2, <4>3 DEF BotNet
      <4>5. RequestBy(bare) = RequestBy(claim)
        BY <3>3, <4>4 DEF RequestBy
      <4>6. QED
        BY <2>2, <4>5
    <3>5. CASE class.kind # "known_bot"
      <4>1. RequestBy(bare).kind = req.kind /\ req.kind # "known_bot"
        BY <2>3, <3>2, <3>3, <3>5, ClaimRequest
      <4>2. CASE req.kind \in {"browser", "behavioral"}
        <5>1. /\ Evaluate(req) = {Verdict("Allow", "ok", "", 0)}
              /\ Evaluate(RequestBy(bare)) = {Verdict("Allow", "ok", "", 0)}
          BY <2>2, <3>2, <4>1, <4>2, QuietPasses
        <5>2. QED
          BY <2>2, <5>1
      <4>3. CASE req.kind \in {"bad_bot", "ai_bot", "tool_agent", "unknown_bot"}
        <5>1. /\ req.asn = "none" /\ req.fails = 0
              /\ RequestBy(bare).asn = "none" /\ RequestBy(bare).fails = 0
          BY <2>2, <3>2, ClaimRequest
        <5>2. Evaluate(req) = Evaluate(RequestBy(bare))
          BY <4>1, <4>3, <5>1 DEF Evaluate, Counted, UsedUp
        <5>3. QED
          BY <2>2, <5>2
      <4>4. req.kind # "empty"
        <5>1. BuiltIn(claim.ua) = class
          BY <2>4, <2>6
        <5>2. /\ Class("browser", "").kind = "browser"
              /\ Class("behavioral", claim.ua.name).kind = "behavioral"
              /\ Class("known_bot", claim.ua.name).kind = "known_bot"
              /\ Class("known_bot", MarkedAs(claim.ua)).kind = "known_bot"
          BY DEF Class
        <5> HIDE DEF class
        <5>3. \/ class = Class("browser", "") \/ class = Class("behavioral", claim.ua.name)
              \/ class = Class("known_bot", claim.ua.name)
              \/ class = Class("known_bot", MarkedAs(claim.ua))
              \/ class.kind \in {"bad_bot", "ai_bot", "tool_agent", "unknown_bot", "browser"}
          BY <5>1, BuiltInFirst, Zenon
        <5>4. QED
          BY <2>3, <5>2, <5>3
      <4>5. req.kind \in Kinds
        BY <2>2, ClassKind, ClaimRequest
      <4>6. QED
        BY <4>1, <4>2, <4>3, <4>4, <4>5 DEF Kinds
    <3>6. QED
      BY <3>4, <3>5
  <2>7. QED
    BY <2>5, <2>6
<1>2. QED
  BY <1>1, AskedAlways, PTL

------------------------------------------------------------------------------
(* More traffic *)

Decisions == {"Allow", "Challenge", "TooMany", "Block"}

\* Every request gets a verdict, and every verdict decides.
LEMMA VerdictsExist ==
  ASSUME NEW r \in AllRequests
  PROVE  Evaluate(r) # {} /\ \A v \in Evaluate(r) : v.decision \in Decisions
<1> DEFINE late == AtLeast(Score(r), ChallengeAt)
<1>1. r.kind \in Kinds
  BY DEF AllRequests, Requests
<1>2. /\ Verdict("Block", "blocked_asn", "", RefusalScore).decision = "Block"
      /\ Verdict("Block", "challenge_failures", "", RefusalScore).decision = "Block"
      /\ Verdict("Allow", "store_error", "", 0).decision = "Allow"
      /\ Verdict("TooMany", "store_error", "", 0).decision = "TooMany"
      /\ Verdict("Challenge", "asn_always_challenge", "", late).decision = "Challenge"
      /\ Verdict("Challenge", "hosting_browser", "", late).decision = "Challenge"
  BY DEF Verdict
<1>3. /\ Verdict("TooMany", "bot_flood", "", 0).decision = "TooMany"
      /\ Verdict("Block", "seo_blacklist", "", RefusalScore).decision = "Block"
      /\ Verdict("Challenge", "tool_agent", "", ChallengeAt).decision = "Challenge"
      /\ Verdict("Allow", "ai_crawler_allow", "", 0).decision = "Allow"
      /\ Verdict("Allow", "unknown_bot_allow", "", 0).decision = "Allow"
  BY DEF Verdict
<1> HIDE DEF late
<1>4. CASE r.asn = "blocked" \/ UsedUp(r)
  <2>1. Evaluate(r) = {Verdict("Block", "blocked_asn", "", RefusalScore)}
        \/ Evaluate(r) = {Verdict("Block", "challenge_failures", "", RefusalScore)}
    BY <1>4 DEF Evaluate
  <2>2. QED
    BY <1>2, <2>1 DEF Decisions
<1>5. CASE ~(r.asn = "blocked" \/ UsedUp(r)) /\ r.kind \in Counted
  <2>1. Evaluate(r) = EvaluateCounted(r)
    BY <1>5 DEF Evaluate, Counted
  <2>2. \/ EvaluateCounted(r) = {Verdict("Allow", "store_error", "", 0)}
        \/ EvaluateCounted(r) = {Verdict("TooMany", "store_error", "", 0)}
        \/ EvaluateCounted(r) = {Verdict("Challenge", "asn_always_challenge", "", late)}
        \/ EvaluateCounted(r) = {Verdict("Challenge", "hosting_browser", "", late)}
        \/ EvaluateCounted(r) = {Threshold(r, worst) : worst \in Worsts(r)}
    BY DEF EvaluateCounted, late
  <2>3. \A worst : Threshold(r, worst).decision \in Decisions
    BY ThresholdFields DEF Decisions
  <2>4. Worsts(r) # {}
    BY DEF Worsts
  <2>5. CASE EvaluateCounted(r) = {Threshold(r, worst) : worst \in Worsts(r)}
    BY <2>1, <2>3, <2>4, <2>5
  <2>6. CASE EvaluateCounted(r) # {Threshold(r, worst) : worst \in Worsts(r)}
    BY <1>2, <2>1, <2>2, <2>6 DEF Decisions
  <2>7. QED
    BY <2>5, <2>6
<1>6. CASE ~(r.asn = "blocked" \/ UsedUp(r)) /\ r.kind \notin Counted
  <2>1. r.kind \in {"known_bot", "bad_bot", "tool_agent", "ai_bot", "unknown_bot"}
    BY <1>1, <1>6 DEF Kinds, Counted
  <2>2. EvaluateKnownBot(r).decision \in Decisions
    <3> DEFINE foreign == ActionToDecision(IF r.onMismatch = "allow" THEN "challenge"
                                           ELSE r.onMismatch)
               match == ActionToDecision(r.onMatch)
    <3>1. foreign \in Decisions /\ match \in Decisions
      BY DEF ActionToDecision, Decisions
    <3> HIDE DEF foreign, match
    <3>2. /\ Verdict(foreign, "fake_bot", "", ChallengeAt).decision = foreign
          /\ Verdict(match, "bot_match", "", 0).decision = match
      BY DEF Verdict
    <3>3. \/ EvaluateKnownBot(r) = Verdict(foreign, "fake_bot", "", ChallengeAt)
          \/ EvaluateKnownBot(r) = Verdict("TooMany", "bot_flood", "", 0)
          \/ EvaluateKnownBot(r) = Verdict(match, "bot_match", "", 0)
      BY DEF EvaluateKnownBot, foreign, match
    <3>4. QED
      BY <1>3, <3>1, <3>2, <3>3 DEF Decisions
  <2>3. \/ Evaluate(r) = {EvaluateKnownBot(r)}
        \/ Evaluate(r) = {Verdict("Block", "seo_blacklist", "", RefusalScore)}
        \/ Evaluate(r) = {Verdict("Challenge", "tool_agent", "", ChallengeAt)}
        \/ Evaluate(r) = {Verdict("Allow", "ai_crawler_allow", "", 0)}
        \/ Evaluate(r) = {Verdict("Allow", "unknown_bot_allow", "", 0)}
    BY <1>6, <2>1 DEF Evaluate, Counted
  <2>4. QED
    BY <1>3, <2>2, <2>3 DEF Decisions
<1>7. QED
  BY <1>4, <1>5, <1>6

\* What the severities are.
LEMMA SeverityOf ==
  /\ \A v : v.decision = "Allow" => Severity(v) = 0
  /\ \A v : v.decision = "Challenge" => Severity(v) = 1
  /\ \A v : v.decision = "TooMany" => Severity(v) = 2
  /\ \A v : v.decision = "Block" => Severity(v) = 3
BY DEF Severity

\* The mildest answer is one of the answers and no other is milder.
LEMMA MildestIsLeast ==
  ASSUME NEW r \in AllRequests
  PROVE  /\ Mildest(r) \in Nat
         /\ \E v \in Evaluate(r) : Mildest(r) = Severity(v)
         /\ \A v \in Evaluate(r) : Mildest(r) =< Severity(v)
<1> DEFINE S == {Severity(v) : v \in Evaluate(r)}
<1>1. \A v \in Evaluate(r) : Severity(v) \in 0 .. 3
  BY VerdictsExist, SeverityOf DEF Decisions
<1>2. S \subseteq 0 .. 3 /\ S # {}
  BY <1>1, VerdictsExist
<1>3. IsFiniteSet(S)
  <2>1. 0 \in Int /\ 3 \in Int
    OBVIOUS
  <2>2. IsFiniteSet(0 .. 3)
    BY <2>1, FS_Interval
  <2> HIDE DEF S
  <2>3. QED
    BY <1>2, <2>2, FS_Subset
<1>4. Min(S) \in S /\ \A y \in S : Min(S) =< y
  <2> HIDE DEF S
  <2>1. S \in SUBSET Int
    BY <1>2
  <2>2. QED
    BY <1>2, <1>3, <2>1, MinIsSmallest
<1>5. Mildest(r) = Min(S)
  BY DEF Mildest
<1>6. \A v \in Evaluate(r) : Severity(v) \in S
  OBVIOUS
<1>7. \A y \in S : y \in Nat /\ \E v \in Evaluate(r) : y = Severity(v)
  BY <1>1
<1> HIDE DEF S
<1>8. QED
  BY <1>4, <1>5, <1>6, <1>7

\* More of one of the visitor's own rates: the request stays what it was but for
\* that rate.
LEMMA Busier ==
  ASSUME NEW r \in AllRequests, NEW d \in Dimension, NEW x \in Nat
  PROVE  LET more == [r EXCEPT !.ratio[d] = x]
         IN  /\ more \in AllRequests
             /\ more.ratio = [r.ratio EXCEPT ![d] = x]
             /\ more.kind = r.kind /\ more.asn = r.asn /\ more.fails = r.fails
             /\ more.cleared = r.cleared /\ more.hosting = r.hosting
             /\ more.storeOK = r.storeOK /\ more.behavior = r.behavior
             /\ more.badPair = r.badPair /\ more.botNet = r.botNet
             /\ more.onMatch = r.onMatch /\ more.onMismatch = r.onMismatch
             /\ more.flood = r.flood
<1> DEFINE more == [r EXCEPT !.ratio[d] = x]
           rates == [r.ratio EXCEPT ![d] = x]
<1>1. r.ratio \in [Dimension -> Nat]
  BY RequestFields
<1>2. rates \in [Dimension -> Nat]
  BY <1>1
<1>3. more = [r EXCEPT !.ratio = rates]
  BY DEF AllRequests, Requests
<1> HIDE DEF more, rates
<1>4. more \in AllRequests /\ more.ratio = rates
  BY <1>2, <1>3 DEF AllRequests, Requests
<1>5. /\ more.kind = r.kind /\ more.asn = r.asn /\ more.fails = r.fails
      /\ more.behavior = r.behavior /\ more.botNet = r.botNet
      /\ more.onMatch = r.onMatch /\ more.onMismatch = r.onMismatch
  BY <1>3 DEF AllRequests, Requests
<1>6. /\ more.cleared = r.cleared /\ more.hosting = r.hosting /\ more.storeOK = r.storeOK
      /\ more.badPair = r.badPair /\ more.flood = r.flood
  BY <1>3 DEF AllRequests, Requests
<1>7. QED
  BY <1>4, <1>5, <1>6 DEF more, rates

\* More of one's own traffic scores no less, and a shared dimension that is
\* still the worst was it before: to every answer there was one as mild.
LEMMA MoreIsNoMilder ==
  ASSUME NEW r \in AllRequests, NEW d \in Dimension \ SharedDim, NEW x \in Nat,
         x > r.ratio[d], NEW w \in Evaluate([r EXCEPT !.ratio[d] = x])
  PROVE  \E v \in Evaluate(r) : Severity(v) =< Severity(w)
<1> DEFINE more == [r EXCEPT !.ratio[d] = x]
<1>1. /\ more \in AllRequests
      /\ more.ratio = [r.ratio EXCEPT ![d] = x]
      /\ more.kind = r.kind /\ more.asn = r.asn /\ more.fails = r.fails
      /\ more.cleared = r.cleared /\ more.hosting = r.hosting
      /\ more.storeOK = r.storeOK /\ more.behavior = r.behavior
      /\ more.badPair = r.badPair /\ more.botNet = r.botNet
      /\ more.onMatch = r.onMatch /\ more.onMismatch = r.onMismatch
      /\ more.flood = r.flood
  BY Busier
<1>2. w \in Evaluate(more)
  OBVIOUS
<1> HIDE DEF more
<1>3. Severity(w) \in Nat
  BY <1>1, <1>2, VerdictsExist, SeverityOf DEF Decisions
<1>4. r.ratio \in [Dimension -> Nat] /\ more.ratio \in [Dimension -> Nat]
  BY <1>1, RequestFields
<1>5. \A e \in Dimension : r.ratio[e] =< more.ratio[e]
  BY <1>1, <1>4
<1>6. /\ Score(r) \in Nat /\ Score(more) \in Nat
      /\ Score(r) =< Score(more)
  <2>1. Mult(more) = Mult(r) /\ Mult(r) \in Nat
    BY <1>1, RequestFields DEF Mult
  <2>2. \A e \in Dimension : RateScore(r, e) =< RateScore(more, e)
    <3>1. ASSUME NEW e \in Dimension PROVE RateScore(r, e) =< RateScore(more, e)
      <4>1. r.ratio[e] * Mult(r) =< more.ratio[e] * Mult(r)
        BY <1>4, <1>5, <2>1, TimesKeepsOrder
      <4>2. RateScore(r, e) = r.ratio[e] * Mult(r)
        BY RequestFields
      <4>3. RateScore(more, e) = more.ratio[e] * Mult(more)
        BY <1>1, RequestFields
      <4>4. QED
        BY <2>1, <4>1, <4>2, <4>3
    <3>2. QED
      BY <3>1
  <2>3. Top(r, Dimension) \in Nat /\ Top(more, Dimension) \in Nat
        /\ Top(r, Dimension) =< Top(more, Dimension)
    <3>1. /\ Top(r, Dimension) \in Nat /\ Top(more, Dimension) \in Nat
          /\ Top(r, Dimension) = 0 \/ \E e \in Dimension : Top(r, Dimension) = RateScore(r, e)
          /\ \A e \in Dimension : RateScore(r, e) \in Nat
          /\ \A e \in Dimension : /\ RateScore(more, e) \in Nat
                                  /\ RateScore(more, e) =< Top(more, Dimension)
      BY <1>1, TopIsWorst
    <3>2. QED
      BY <2>2, <3>1
  <2>4. Extra(more) = Extra(r) /\ Extra(r) \in Nat
    <3>1. EmptyUA(more) = EmptyUA(r) /\ Mismatch(more) = Mismatch(r)
      BY <1>1 DEF EmptyUA, Mismatch
    <3>2. QED
      BY <1>1, <3>1, RequestFields DEF Extra
  <2>5. Score(r) = Top(r, Dimension) + Extra(r) /\ Score(more) = Top(more, Dimension) + Extra(more)
    BY <1>1, PersonalBelowScore
  <2>6. QED
    BY <2>3, <2>4, <2>5
<1>7. CASE Evaluate(more) = Evaluate(r)
  BY <1>2, <1>3, <1>7
<1>8. CASE r.asn = "blocked" \/ UsedUp(r)
  BY <1>1, <1>7, <1>8 DEF Evaluate, UsedUp
<1>9. CASE ~(r.asn = "blocked" \/ UsedUp(r)) /\ r.kind \notin Counted
  <2>1. EvaluateKnownBot(more) = EvaluateKnownBot(r)
    BY <1>1 DEF EvaluateKnownBot
  <2>2. r.kind \in {"known_bot", "bad_bot", "tool_agent", "ai_bot", "unknown_bot"}
    BY <1>9 DEF Kinds, Counted, AllRequests, Requests
  <2>3. Evaluate(more) = Evaluate(r)
    BY <1>1, <1>9, <2>1, <2>2 DEF Evaluate, Counted, UsedUp
  <2>4. QED
    BY <1>7, <2>3
<1>10. CASE ~(r.asn = "blocked" \/ UsedUp(r)) /\ r.kind \in Counted
  <2> DEFINE own == AtLeast(Score(r), ChallengeAt)
             owner == AtLeast(Score(more), ChallengeAt)
  <2>1. Evaluate(r) = EvaluateCounted(r) /\ Evaluate(more) = EvaluateCounted(more)
    BY <1>1, <1>10 DEF Evaluate, Counted, UsedUp
  <2>2. /\ Verdict("Challenge", "asn_always_challenge", "", own).decision = "Challenge"
        /\ Verdict("Challenge", "asn_always_challenge", "", owner).decision = "Challenge"
        /\ Verdict("Challenge", "hosting_browser", "", own).decision = "Challenge"
        /\ Verdict("Challenge", "hosting_browser", "", owner).decision = "Challenge"
    BY DEF Verdict
  <2> HIDE DEF own, owner
  <2>3. CASE ~r.storeOK
    <3>1. EvaluateCounted(more) = EvaluateCounted(r)
      BY <1>1, <2>3 DEF EvaluateCounted
    <3>2. QED
      BY <1>7, <2>1, <3>1
  <2>4. CASE r.storeOK /\ r.asn = "challenged" /\ ~r.cleared
    <3>1. /\ EvaluateCounted(r) = {Verdict("Challenge", "asn_always_challenge", "", own)}
          /\ EvaluateCounted(more) = {Verdict("Challenge", "asn_always_challenge", "", owner)}
      BY <1>1, <2>4 DEF EvaluateCounted, own, owner
    <3>2. Severity(w) = 1
      BY <1>2, <2>1, <2>2, <3>1, SeverityOf
    <3> DEFINE v == Verdict("Challenge", "asn_always_challenge", "", own)
    <3>3. v \in Evaluate(r) /\ Severity(v) = 1
      BY <2>1, <2>2, <3>1, SeverityOf
    <3> HIDE DEF v
    <3>4. QED
      BY <3>2, <3>3
  <2>5. CASE /\ r.storeOK /\ ~(r.asn = "challenged" /\ ~r.cleared)
             /\ ChallengeHosting /\ r.hosting /\ r.kind = "browser" /\ ~r.cleared
    <3>1. /\ EvaluateCounted(r) = {Verdict("Challenge", "hosting_browser", "", own)}
          /\ EvaluateCounted(more) = {Verdict("Challenge", "hosting_browser", "", owner)}
      BY <1>1, <2>5 DEF EvaluateCounted, own, owner
    <3>2. Severity(w) = 1
      BY <1>2, <2>1, <2>2, <3>1, SeverityOf
    <3> DEFINE v == Verdict("Challenge", "hosting_browser", "", own)
    <3>3. v \in Evaluate(r) /\ Severity(v) = 1
      BY <2>1, <2>2, <3>1, SeverityOf
    <3> HIDE DEF v
    <3>4. QED
      BY <3>2, <3>3
  <2>6. CASE /\ r.storeOK /\ ~(r.asn = "challenged" /\ ~r.cleared)
             /\ ~(ChallengeHosting /\ r.hosting /\ r.kind = "browser" /\ ~r.cleared)
    <3>1. /\ EvaluateCounted(r) = {Threshold(r, worst) : worst \in Worsts(r)}
          /\ EvaluateCounted(more) = {Threshold(more, worst) : worst \in Worsts(more)}
      BY <1>1, <2>6 DEF EvaluateCounted
    <3>2. PICK busiest \in Worsts(more) : w = Threshold(more, busiest)
      BY <1>2, <2>1, <3>1
    <3>3. PICK worst \in Worsts(r) : busiest \in SharedDim => worst \in SharedDim
      <4>1. CASE busiest \notin SharedDim
        <5>1. Worsts(r) # {}
          BY DEF Worsts
        <5>2. QED
          BY <4>1, <5>1
      <4>2. CASE busiest \in SharedDim
        <5>1. more.ratio[d] = x /\ x # 0
          BY <1>1, <1>4
        <5>2. WorstDimensions(more) # {}
          BY <1>1, <5>1, NoWorstNoRate
        <5>3. /\ busiest \in Dimension
              /\ \A e \in Dimension : more.ratio[e] =< more.ratio[busiest]
          BY <3>2, <5>2 DEF Worsts, WorstDimensions
        <5>4. more.ratio[busiest] = r.ratio[busiest]
          BY <1>1, <1>4, <4>2, <5>3
        <5>5. \A e \in Dimension : r.ratio[e] =< r.ratio[busiest]
          BY <1>4, <1>5, <5>3, <5>4
        <5>6. r.ratio[busiest] > 0
          BY <1>4, <5>1, <5>3, <5>4
        <5>7. busiest \in WorstDimensions(r)
          BY <5>3, <5>5, <5>6 DEF WorstDimensions
        <5>8. busiest \in Worsts(r)
          BY <5>7 DEF Worsts
        <5>9. QED
          BY <4>2, <5>8
      <4>3. QED
        BY <4>1, <4>2
    <3> DEFINE v == Threshold(r, worst)
    <3>4. v \in Evaluate(r)
      BY <2>1, <3>1
    <3>5. Severity(v) =< Severity(w)
      <4>1. BlockAt \in Nat /\ ChallengeAt \in Nat /\ AbuseAt \in Nat /\ ChallengeAt < BlockAt
        BY ScoreAssumption
      <4>2. \/ /\ Score(r) >= BlockAt /\ worst \notin SharedDim /\ Severity(v) = 3
            \/ /\ ~r.cleared /\ Score(r) >= ChallengeAt
               /\ Score(r) >= BlockAt => worst \in SharedDim
               /\ Severity(v) = 1
            \/ /\ r.cleared /\ worst \notin SharedDim /\ Score(r) >= AbuseAt
               /\ Severity(v) = 1
            \/ Severity(v) = 0
        BY ThresholdFields, SeverityOf
      <4>3. \/ Severity(w) = 3
            \/ /\ ~more.cleared /\ Score(more) >= ChallengeAt
               /\ Score(more) >= BlockAt => busiest \in SharedDim
               /\ Severity(w) = 1
            \/ /\ more.cleared /\ busiest \notin SharedDim /\ Score(more) >= AbuseAt
               /\ ~(Score(more) >= BlockAt)
               /\ Severity(w) = 1
            \/ /\ Score(more) >= BlockAt => busiest \in SharedDim
               /\ more.cleared \/ ~(Score(more) >= ChallengeAt)
               /\ more.cleared /\ busiest \notin SharedDim => ~(Score(more) >= AbuseAt)
               /\ Severity(w) = 0
        BY <3>2, <4>1, ThresholdFields, SeverityOf
      <4> HIDE DEF v
      <4>4. QED
        BY <1>1, <1>6, <3>3, <4>1, <4>2, <4>3
    <3>6. QED
      BY <3>4, <3>5
  <2>7. QED
    BY <2>3, <2>4, <2>5, <2>6
<1>11. QED
  BY <1>8, <1>9, <1>10

\* More traffic of one's own never gets a milder answer, whatever dimension the
\* map order makes the worst.
THEOREM PersonalMonotoneHolds == Spec => []PersonalMonotone
<1>1. Asked => PersonalMonotone
  <2>1. SUFFICES ASSUME Asked, NEW d \in Dimension \ SharedDim, NEW x \in TriedRatios,
                        x > req.ratio[d]
                 PROVE  Mildest(req) =< Mildest([req EXCEPT !.ratio[d] = x])
    BY DEF PersonalMonotone
  <2>2. req \in AllRequests
    BY <2>1 DEF Asked
  <2>3. x \in Nat
    <3>1. \A r \in Request : r \in AllRequests
      BY InputAssumption DEF AllRequests
    <3>2. PICK r \in Request, e \in Dimension : x = r.ratio[e]
      BY DEF TriedRatios
    <3>3. r.ratio \in [Dimension -> Nat]
      BY <3>1, RequestFields
    <3>4. QED
      BY <3>2, <3>3
  <2> DEFINE more == [req EXCEPT !.ratio[d] = x]
  <2>4. more \in AllRequests
    BY <2>2, <2>3, Busier
  <2>5. \A w \in Evaluate(more) : \E v \in Evaluate(req) : Severity(v) =< Severity(w)
    BY <2>1, <2>2, <2>3, MoreIsNoMilder
  <2> HIDE DEF more
  <2>6. PICK w \in Evaluate(more) : Mildest(more) = Severity(w)
    BY <2>4, MildestIsLeast
  <2>7. PICK v \in Evaluate(req) : Severity(v) =< Severity(w)
    BY <2>5
  <2>8. /\ Mildest(req) =< Severity(v) /\ Mildest(req) \in Nat /\ Mildest(more) \in Nat
        /\ Severity(v) \in Nat
    BY <2>2, <2>4, MildestIsLeast, VerdictsExist, SeverityOf DEF Decisions
  <2>9. Mildest(req) =< Mildest(more)
    BY <2>6, <2>7, <2>8
  <2>10. QED
    BY <2>9 DEF more
<1>2. QED
  BY <1>1, AskedAlways, PTL
==============================================================================
