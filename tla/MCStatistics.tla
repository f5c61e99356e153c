---------------------------- MODULE MCStatistics ----------------------------
(***************************************************************************)
(* Statistics for TLC: one request for each kind of line, scores in        *)
(* quarters as in MCDecision.                                              *)
(***************************************************************************)
EXTENDS Statistics, TLC

MCDimension == {"ip", "fp@host"}
MCShared == {"fp@host"}
MCHard == {[class |-> "hosting_browser", about |-> ""]}

Plain == [kind |-> "browser", cleared |-> FALSE, asn |-> "none",
          hosting |-> FALSE, fails |-> 0, storeOK |-> TRUE,
          ratio |-> [d \in MCDimension |-> 0], behavior |-> 0,
          badPair |-> FALSE, botNet |-> "unknown", onMatch |-> "allow",
          onMismatch |-> "allow", flood |-> FALSE]

Rated(d, n) == [Plain EXCEPT !.ratio[d] = n]

\* A visitor who is let through, a proof of work for a rate, and a datacenter
\* browser with a low and with a high score: checkbox and captcha.
MCPages == {Plain, Rated("ip", 2), [Plain EXCEPT !.hosting = TRUE],
            [Rated("ip", 12) EXCEPT !.hosting = TRUE]}

\* These, and an API request that is challenged.
MCTraffic == {[q |-> q, api |-> FALSE] : q \in MCPages}
               \cup {[q |-> Rated("ip", 2), api |-> TRUE]}
==============================================================================
