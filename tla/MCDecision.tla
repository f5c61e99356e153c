----------------------------- MODULE MCDecision -----------------------------
(***************************************************************************)
(* Decision for TLC: one personal and two shared dimensions, scores in     *)
(* quarters (One = 4, ClearanceMult = 2).  The ratios are chosen so that   *)
(* every threshold is met exactly, just missed and exceeded, with and      *)
(* without a clearance, by the personal dimension, by a shared one and by  *)
(* both.                                                                   *)
(***************************************************************************)
EXTENDS Decision, TLC

MCDimension == {"ip", "fp@host", "asn"}
MCShared == {"fp@host", "asn"}
MCHard == {[class |-> "score", about |-> "fp@host"]}

\* A browser request with nothing special about it.
Plain == [kind |-> "browser", cleared |-> FALSE, asn |-> "none",
          hosting |-> FALSE, fails |-> 0, storeOK |-> TRUE,
          ratio |-> [d \in MCDimension |-> 1], behavior |-> 0,
          badPair |-> FALSE, botNet |-> "unknown", onMatch |-> "allow",
          onMismatch |-> "allow", flood |-> FALSE]

\* Every combination the counters and the store can produce.
MCCounted ==
  {[Plain EXCEPT !.kind = k, !.cleared = c, !.behavior = b, !.badPair = p,
                 !.ratio = ("ip" :> x) @@ ("fp@host" :> y) @@ ("asn" :> z)] :
     k \in Counted, c \in BOOLEAN, b \in {0, 6}, p \in BOOLEAN,
     x \in {0, 1, 2, 6, 8, 16, 32}, y \in {0, 1, 8, 16, 34}, z \in {0, 32}}

\* The networks that are challenged or refused as such, Redis failures, and
\* addresses with a used-up failure budget.
MCNetworks ==
  {[r EXCEPT !.asn = a, !.hosting = h, !.fails = f, !.storeOK = ok] :
     r \in {q \in MCCounted : /\ ~q.badPair
                              /\ q.ratio["asn"] = 0
                              /\ q.ratio["ip"] \in {1, 16}
                              /\ q.ratio["fp@host"] \in {1, 34}},
     a \in {"none", "blocked", "challenged"}, h \in BOOLEAN, f \in {0, 3},
     ok \in BOOLEAN}

\* Declared bots and tools.
MCBots ==
  {[Plain EXCEPT !.kind = k, !.cleared = c, !.botNet = n, !.onMatch = m,
                 !.onMismatch = mm, !.flood = fl, !.storeOK = ok] :
     k \in Kinds \ Counted, c \in BOOLEAN, n \in {"own", "foreign", "unknown"},
     m \in Actions, mm \in Actions, fl \in BOOLEAN, ok \in BOOLEAN}

\* User-Agents as the parser, the lists and the detectors see them.
UA(name, marks, crawler, bot) ==
  [name |-> name, marks |-> marks, crawler |-> crawler, bot |-> bot,
   empty |-> FALSE]

MCAgents ==
  {UA("Googlebot", {"googlebot"}, TRUE, TRUE),
   UA("", {"baiduspider"}, TRUE, FALSE),          \* known by its mark only
   UA("Partner", {"partner"}, FALSE, TRUE),
   UA("", {"partner", "curl/"}, TRUE, FALSE),
   UA("GPTBot", {}, TRUE, TRUE),
   UA("", {"ahrefsbot"}, TRUE, TRUE),
   UA("Slackbot", {}, TRUE, TRUE),
   UA("Chrome", {"yabrowser"}, TRUE, FALSE),
   UA("Chrome", {}, FALSE, FALSE),
   [UA("", {}, FALSE, FALSE) EXCEPT !.empty = TRUE]}

MCBotASN == ("Googlebot" :> {1}) @@ ("Baiduspider" :> {2})
MCKnownMark == ("googlebot" :> "Googlebot") @@ ("baiduspider" :> "Baiduspider")

\* Up to two rules: for a parser's name or a mark, with and without a name of
\* their own and networks.
MCRules ==
  RulesOf({"", "Partner", "Googlebot"}, {"", "partner"}, {"", "Baiduspider"}, {3})

MCClaims ==
  [rules : {<<>>} \cup {<<r>> : r \in MCRules}
             \cup {<<r, q>> : r \in MCRules, q \in {x \in MCRules : x.action = "known_bot"}},
   mode : RulesModes, ua : MCAgents, asn : {NoASN, 1, 2, 3}]

MCNoClaims == {}

MCAll == MCCounted \cup MCNetworks \cup MCBots
=============================================================================
