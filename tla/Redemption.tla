----------------------------- MODULE Redemption -----------------------------
(***************************************************************************)
(* What the answer endpoints promise about a single-use challenge token,   *)
(* with neither clocks nor Redis nor handler steps: a token that was       *)
(* handed out is redeemed by at most one request, and a clearance is given *)
(* only to the request that redeemed the token.  A lenient guard           *)
(* (Config.FailOpen) may in addition clear a request although it could not *)
(* learn whether the token was redeemed before.                            *)
(***************************************************************************)
CONSTANTS Token,      \* the single-use tokens
          Request,    \* the requests that present them
          Lenient     \* Config.FailOpen, a Boolean

VARIABLES issued,     \* the tokens on some challenge page
          redeemed,   \* <<t, r>>: request r redeemed token t
          cleared     \* <<t, r>>: request r was given a clearance for t

rvars == <<issued, redeemed, cleared>>

Init == /\ issued = {}
        /\ redeemed = {}
        /\ cleared = {}

\* A challenge page carries token t.
Issue(t) == /\ t \notin issued
            /\ issued' = issued \cup {t}
            /\ UNCHANGED <<redeemed, cleared>>

\* Request r redeems token t, which nobody redeemed before.
Redeem(t, r) == /\ t \in issued
                /\ \A q \in Request : <<t, q>> \notin redeemed
                /\ redeemed' = redeemed \cup {<<t, r>>}
                /\ UNCHANGED <<issued, cleared>>

\* Request r is given its clearance.
Clear(t, r) == /\ t \in issued
               /\ <<t, r>> \in redeemed \/ Lenient
               /\ cleared' = cleared \cup {<<t, r>>}
               /\ UNCHANGED <<issued, redeemed>>

Next == \E t \in Token :
           \/ Issue(t)
           \/ \E r \in Request : Redeem(t, r) \/ Clear(t, r)

Spec == Init /\ [][Next]_rvars
=============================================================================
