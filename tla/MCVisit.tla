------------------------------- MODULE MCVisit -------------------------------
(* Small instances of Visit for TLC; scores as in MCDecision. *)
EXTENDS Visit, TLC

CONSTANTS t1, t2,             \* tabs
          search, none, own,  \* referrers
          app                 \* one that is no URL of a page

MCDimension == {"ip", "fp@host"}
MCShared == {"fp@host"}
MCHard == {[class |-> "score", about |-> "fp@host"]}

Ratio(ip, fp) == ("ip" :> ip) @@ ("fp@host" :> fp)

\* The visitor's own traffic and that of the neighbours are low.
Calm == [kind |-> "browser", cleared |-> FALSE, asn |-> "none",
         hosting |-> FALSE, fails |-> 0, storeOK |-> TRUE,
         ratio |-> Ratio(1, 1), behavior |-> 0, badPair |-> FALSE,
         botNet |-> "unknown", onMatch |-> "allow", onMismatch |-> "allow",
         flood |-> FALSE]

Hosted == [Calm EXCEPT !.hosting = TRUE]             \* behind a VPN
Botnet == [Calm EXCEPT !.ratio = Ratio(1, 34)]       \* a botnet has our JA4
Busy == [Calm EXCEPT !.ratio = Ratio(3, 1)]          \* over our own limit
Abusive == [Calm EXCEPT !.ratio = Ratio(14, 1)]      \* even with a clearance
NoStore == [Calm EXCEPT !.storeOK = FALSE]           \* Redis fails

MCOrdinary == {Calm, Hosted, Botnet, Busy, NoStore}
Banned == [Calm EXCEPT !.asn = "blocked"]            \* from a blocked network

MCAnything == {Calm, Hosted, Abusive, Banned}
==============================================================================
