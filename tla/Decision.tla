------------------------------ MODULE Decision ------------------------------
(***************************************************************************)
(* What makes the decisions of Engine right, stated about one request and  *)
(* its verdict.  A request either comes from a client that was classified  *)
(* already, or makes a claim that Classify judges by the project's rules.  *)
(***************************************************************************)
EXTENDS Engine, Classify

CONSTANTS Request,  \* BOUND: the classified requests that are tried
          Claim     \* BOUND: the claims that are tried

\* Rates, weights and counters are never negative.  (BOUND: at most one mark of
\* knownUASubstr is tried in a User-Agent.)
ASSUME InputAssumption ==
  /\ Request \subseteq Requests(Nat, Nat, Nat)
  /\ Claim \subseteq [rules : Seq(RulesOf(STRING, STRING, STRING, Nat)),
                      mode : RulesModes, ua : Agents, asn : Nat]
  /\ \A c \in Claim : \A m, n \in c.ua.marks \cap DOMAIN KnownMark : m = n

VARIABLES claim,   \* the User-Agent, its network and the rules, or NoClaim
          req,     \* the request
          verdict  \* its verdict, NoVerdict while Evaluate runs

evars == <<claim, req, verdict>>

NoClaim == [rules |-> <<>>, mode |-> "none"]

\* The request of a quiet client that makes claim c.  The bots ClassifyUA names
\* have no actions and no limit of their own.
RequestBy(c) ==
  LET class == ClassifyUA(c.rules, c.mode, c.ua)
  IN  [kind |-> class.kind, cleared |-> FALSE, asn |-> "none", hosting |-> FALSE,
       fails |-> 0, storeOK |-> TRUE, ratio |-> [d \in Dimension |-> 0],
       behavior |-> 0, badPair |-> FALSE, botNet |-> BotNet(c.rules, class, c.asn),
       onMatch |-> "allow", onMismatch |-> "allow", flood |-> FALSE]

NoVerdict == Verdict("None", "", "", 0)

Init == /\ \/ claim = NoClaim /\ req \in Request
           \/ claim \in Claim /\ req = RequestBy(claim)
        /\ verdict = NoVerdict

Decide == /\ verdict = NoVerdict
          /\ verdict' \in Evaluate(req)
          /\ UNCHANGED <<claim, req>>

Spec == Init /\ [][Decide]_evars

-----------------------------------------------------------------------------
(* Properties *)

\* "A shared dimension ... never blocks or revokes a clearance on its own":
\* a refusal by score and a revoked pass are always backed by dimensions of
\* the visitor's own, whatever a botnet with the same fingerprint does, and
\* whichever of two equal dimensions the random map order makes the worst.
SharedAloneNeverHarms ==
  /\ verdict.decision = "Block" /\ verdict.class = "score"
       => PersonalScore(req) >= BlockAt
  /\ Revokes(req, verdict) => PersonalScore(req) >= AbuseAt

\* A pass is worth something: a visitor who solved a challenge and does not
\* misbehave is let through, however high the shared dimensions stand and
\* although the network alone would be challenged (no challenge loop behind a
\* VPN).
ClearanceHolds ==
  /\ verdict # NoVerdict
  /\ req.cleared /\ req.kind \in Counted /\ req.storeOK
  /\ req.asn # "blocked" /\ ~UsedUp(req)
  /\ PersonalScore(req) < AbuseAt /\ PersonalScore(req) < BlockAt
  => verdict.decision = "Allow"

Severity(v) == CASE v.decision = "Allow"     -> 0
                 [] v.decision = "Challenge" -> 1
                 [] v.decision = "TooMany"   -> 2
                 [] v.decision = "Block"     -> 3

Mildest(r) == Min({Severity(v) : v \in Evaluate(r)})

TriedRatios == {r.ratio[d] : r \in Request, d \in Dimension}

\* More traffic of one's own never gets a milder answer.
PersonalMonotone ==
  \A d \in Dimension \ SharedDim, x \in TriedRatios :
     x > req.ratio[d] =>
       Mildest(req) =< Mildest([req EXCEPT !.ratio[d] = x])

\* The stages in the order of what they ask of the visitor.
Effort(stage) == CASE stage = "pow"      -> 0
                   [] stage = "checkbox" -> 1
                   [] stage = "captcha"  -> 2

\* Shared dimensions "never raise the proof-of-work difficulty or the
\* challenge stage" (SharedScoreDims): when a score led to the challenge, stage
\* and difficulty are at most what the visitor's own score asks for.  (A challenge for
\* the network, hosting_browser or asn_always_challenge, keeps the raw score.)
SharedScoreNeverEscalates ==
  LET own == AtLeast(PersonalScore(req), ChallengeAt)
      byOwnScore == Verdict("Challenge", "score", "", own)
  IN  verdict.decision = "Challenge" /\ verdict.class = "score" /\ ~IsHardReason(verdict) =>
        /\ Difficulty(EffChallengeScore(verdict)) =< Difficulty(own)
        /\ Effort(Stage(verdict)) =< Effort(Stage(byOwnScore))

\* The rule that counts for claim c.
FirstRule(c) == c.rules[Min(Matching(c.rules, c.ua))]

Judged == claim # NoClaim /\ verdict # NoVerdict /\ ~claim.ua.empty

\* "The first matching rule wins", and does what the table of actions says: a
\* known bot passes from the networks of its rule and is an impostor
\* elsewhere.  NewConfig keeps the networks apart from the rules, under the
\* name kindOf gives the client, so rules that share a name are excepted.
RuleDecides ==
  Judged /\ Matching(claim.rules, claim.ua) # {} =>
    LET r == FirstRule(claim)
    IN  CASE r.action \in {"allow", "score"} -> verdict.decision = "Allow"
          [] r.action = "block"     -> verdict.decision = "Block"
          [] r.action = "challenge" -> verdict.decision = "Challenge"
          [] r.action = "known_bot" ->
               r.asns # {} /\ claim.asn # NoASN
               /\ (\A i, j \in DOMAIN claim.rules :
                     NameOf(claim.rules[i]) = NameOf(claim.rules[j]) => i = j) =>
                 verdict.decision = IF claim.asn \in r.asns THEN "Allow"
                                                            ELSE "Challenge"

\* Rules say nothing about clients they do not match: those are judged by the
\* built-in lists, or by rates only in override mode.  A rule that bears the
\* name of a built-in bot does redefine its networks.
RulesAreLocal ==
  Judged /\ Matching(claim.rules, claim.ua) = {} =>
    IF claim.mode = "override" THEN verdict.class = "ok"
    ELSE (\A i \in DOMAIN claim.rules : NameOf(claim.rules[i]) \notin DOMAIN BotASN) =>
           verdict \in Evaluate(RequestBy([claim EXCEPT !.rules = <<>>]))

\* A search engine's crawler from its own network is let through, whatever else
\* its User-Agent looks like to the lists that come after (crawlerdetect takes
\* some of them for tools).
CrawlersPass ==
  /\ Judged /\ Matching(claim.rules, claim.ua) = {} /\ claim.rules = <<>>
  /\ \/ claim.ua.name \in DOMAIN BotASN /\ claim.asn \in BotASN[claim.ua.name]
     \/ /\ claim.ua.name \notin DOMAIN BotASN
        /\ \E m \in claim.ua.marks \cap DOMAIN KnownMark :
              claim.asn \in BotASN[KnownMark[m]]
  => verdict.decision = "Allow"
=============================================================================
