----------------------------- MODULE RateLimits -----------------------------
(***************************************************************************)
(* From the counters to the decision: Counters counts the requests of      *)
(* several clients, this module turns what the last of them was told into  *)
(* the request Engine decides about, as measure, limitFactor and           *)
(* behaviorScore do.  It adds no state to Counters.                        *)
(*                                                                         *)
(* What the reverse proxy says of the network, and whether the client      *)
(* holds a clearance, changes no counter: the properties look at all of    *)
(* them for each request.                                                  *)
(***************************************************************************)
EXTENDS Counters, Engine

CONSTANTS
  Limit,              \* Dimension.Limit, by name, requests per Window
  Networks,           \* what X-ASN-Type and connection_type may say
  HostingTypes,       \* the NetworkPolicy: types of datacenters,
  Factors,            \*   factors by type,
  AggregateOnly,      \*   types that relax aggregate dimensions only,
  ConnFactors,        \*   the same for connection types,
  ConnAggregateOnly,
  DefaultFactor,
  FactorOne,          \* the factor 1.0
  CrawlWeight, HammerWeight, RhythmWeight

\* dimensionsB: dimensions about many people, and the one that ignores the
\* network.
Aggregates == {"ip", "subnet", "ip@host", "subnet@host", "fp@host", "fp",
               "asn_fp@host", "asn"}
NoFactors == {"fp"}

ASSUME LimitAssumption ==
  /\ Dimension = Counting /\ Counting \subseteq {d.name : d \in Dimensions}
  /\ Limit \in [Counting -> Nat \ {0}]
  /\ {FactorOne, DefaultFactor} \subseteq Nat \ {0}
  /\ \A t \in DOMAIN Factors : Factors[t] \in Nat \ {0}
  /\ \A t \in DOMAIN ConnFactors : ConnFactors[t] \in Nat \ {0}
  /\ {CrawlWeight, HammerWeight, RhythmWeight} \subseteq Nat

\* What DefaultConfig sets: a challenge at 1.0, the limit, anything worse only
\* beyond it, and allowances for aggregate dimensions only.
ASSUME DefaultsAssumption ==
  /\ ChallengeAt =< One /\ One < BlockAt /\ One < AbuseAt
  /\ \A t \in DOMAIN Factors : Factors[t] > DefaultFactor => t \in AggregateOnly
  /\ \A t \in DOMAIN ConnFactors :
       ConnFactors[t] > DefaultFactor => t \in ConnAggregateOnly

\* MUTANT of LimitFactor: an office relaxes every dimension.
LimitFactorForAll(d, n) ==
  IF d.name \in NoFactors THEN DefaultFactor
  ELSE IF n.usage \in DOMAIN Factors THEN Factors[n.usage]
  ELSE IF n.conn \in DOMAIN ConnFactors THEN ConnFactors[n.conn]
  ELSE DefaultFactor

\* limitFactor: the type of the network first, then that of the connection.
LimitFactor(d, n) ==
  LET relaxed(t, only, f) == IF t \in only /\ d.name \notin Aggregates
                             THEN DefaultFactor ELSE f[t]
  IN  IF d.name \in NoFactors THEN DefaultFactor
      ELSE IF n.usage \in DOMAIN Factors
      THEN relaxed(n.usage, AggregateOnly, Factors)
      ELSE IF n.conn \in DOMAIN ConnFactors
      THEN relaxed(n.conn, ConnAggregateOnly, ConnFactors)
      ELSE DefaultFactor

\* The limit measure reports, in the unit of the rates times FactorOne.
LimitOf(d, n) == Limit[d.name] * LimitFactor(d, n) * Window

\* No comparison depends on how a ratio is rounded.
ASSUME ExactAssumption ==
  \A d \in {x \in Dimensions : x.name \in Counting}, n \in Networks :
     (One * FactorOne) % (LimitOf(d, n) * ClearanceMult) = 0

\* The score of a rate for a cleared client.
Ratio(d, rate, n) == (rate * One * FactorOne) \div (LimitOf(d, n) * ClearanceMult)

Weight(hit) == CASE hit = "crawl_pattern"   -> CrawlWeight
                 [] hit = "single_endpoint" -> HammerWeight
                 [] hit = "machine_rhythm"  -> RhythmWeight

\* Entry e of the log as a browser's request from network n.
Request(e, n, cleared) ==
  LET named(name) == {d \in ActiveDimensions(e.sig) : d.name = name}
      score(d) == Ratio(d, e.rates[KeyOf(d, e.sig)], n)
  IN  [kind |-> "browser", cleared |-> cleared, asn |-> "none",
       hosting |-> n.usage \in HostingTypes, fails |-> 0,
       storeOK |-> e.rates # NoRates,
       ratio |-> [name \in Dimension |->
                    IF e.rates = NoRates \/ named(name) = {} THEN 0
                    ELSE score(CHOOSE d \in named(name) : TRUE)],
       behavior |-> SumFunction([hit \in e.hits |-> Weight(hit)]),
       badPair |-> FALSE, botNet |-> "unknown", onMatch |-> "allow",
       onMismatch |-> "allow", flood |-> FALSE]

\* The networks that agree with what activeDimensions made of the request.
NetworksOf(s) == {n \in Networks : s.hosting = (n.usage \in HostingTypes)}

------------------------------------------------------------------------------
(* Properties *)

\* The sliding estimate, at the time of entry e, over the requests in the log
\* that share its key for dimension d; and the most that clocks which differ
\* can take away from it.
Asked(d, e) ==
  LET k == KeyOf(d, e.sig)
      b == BucketOf(e.now)
  IN  Estimate(Requested(k, b), Requested(k, b - 1), e.now)

Forgotten(d, e) ==
  Requested(KeyOf(d, e.sig), BucketOf(e.now) - 1) * (MaxSkew + MaxLag)

Verdicts(e, n, cleared) == {v.decision : v \in Evaluate(Request(e, n, cleared))}

\* A visitor answers for nobody else's traffic: as long as the requests with
\* his own keys stay within the limits and show no machine, what others do who
\* share his fingerprint never blocks him, nor costs him his clearance.
OwnTrafficOnly ==
  Told /\ Last(log).hits = {} =>
    LET e == Last(log)
        personal == {d \in ActiveDimensions(e.sig) : d.name \notin SharedDim}
        within(n, mult) == \A d \in personal :
                             Asked(d, e) * FactorOne =< LimitOf(d, n) * mult
    IN  \A n \in NetworksOf(e.sig) :
          /\ within(n, 1) => "Block" \notin Verdicts(e, n, FALSE)
          /\ within(n, ClearanceMult) => Verdicts(e, n, TRUE) = {"Allow"}

\* "One person stays one person behind a NAT": whatever the network is said to
\* be, a client without a clearance is not let through once the requests of
\* one address and User-Agent, or of one fingerprint over all hosts, reach the
\* limit for which no network makes an exception.
OnePersonStaysOne ==
  Told =>
    LET e == Last(log)
        strict == {d \in ActiveDimensions(e.sig) :
                     d.name \in NoFactors \/ d.name \notin Aggregates}
        over(d) == (Asked(d, e) - Forgotten(d, e)) * FactorOne
                     >= Limit[d.name] * DefaultFactor * Window
    IN  (\E d \in strict : over(d)) =>
          \A n \in NetworksOf(e.sig) : "Allow" \notin Verdicts(e, n, FALSE)
=============================================================================
