-------------------------------- MODULE Visit --------------------------------
(***************************************************************************)
(* A visitor's browser against the guard: several tabs share one cookie    *)
(* jar, every page request goes through HTTPMiddleware in enforce mode     *)
(* (the decision is Engine's), a challenge page is answered and reloads.   *)
(* A page request takes three steps - the browser sends it with the        *)
(* cookies it then has, the guard decides, the browser takes the response  *)
(* and its cookies - so requests of different tabs overlap.                *)
(*                                                                         *)
(* The POST of an answer is one step here; VerifyEndpoints has its steps.  *)
(***************************************************************************)
EXTENDS Engine

CONSTANTS
  Tab,
  Source,        \* referrers a visit may really come from
  Direct,        \* in Source: a visit without a referrer
  Foreign,       \* of Source: referrers that are no absolute http(s) URL
  Own,           \* not in Source: the page itself, what a reload sends
  Conditions,    \* what Evaluate may find besides the cookies and the failures
  RefererMode,   \* "off", "inject", "param" or "both"
  MayErr,        \* does the visitor give wrong answers
  TokenTTL, ClearanceTTL, FailTTL,
  MaxClock       \* BOUND: the clock stops here

ASSUME RefererAssumption ==
  /\ Direct \in Source
  /\ Foreign \subseteq Source \ {Direct}
  /\ Own \notin Source
  /\ RefererMode \in {"off", "inject", "param", "both"}

ASSUME TTLAssumption ==
  /\ {TokenTTL, ClearanceTTL, FailTTL} \subseteq Nat \ {0}
  /\ MaxClock \in Nat

\* Rates and weights are never negative.
ASSUME ConditionAssumption == Conditions \subseteq Requests(Nat, Nat, Nat)

Referer == Source \cup {Own}

VARIABLES
  clock,
  jar,    \* the browser's cookies
  fails,  \* cf:<ip> in Redis
  tab     \* the tabs

vvars == <<clock, jar, fails, tab>>

\* The jar: when the clearance ends (0: there is none), and the stashed
\* referrer with the end of its cookie (until = 0: there is none).
NoStash == [ref |-> Direct, until |-> 0]
Jars == [pass : Nat, stash : [ref : Referer, until : Nat]]

\* What a response does to the jar and to the tab.
\*   set     "keep", "save" (a stash of ref) or "clear" the stash
\*   revoke  ClearCookie()
\*   shim    the page carries the document.referrer shim
Responses == [page : {"challenge", "captcha", "denied", "redirect", "app"},
              set : {"keep", "save", "clear"}, revoke : BOOLEAN,
              seen : Referer, shim : BOOLEAN]

NoResponse == [page |-> "denied", set |-> "keep", revoke |-> FALSE,
               seen |-> Direct, shim |-> FALSE]

Never == -1

Tabs ==
  [pc      : {"closed", "sent", "reply", "challenge", "captcha", "failed",
              "denied", "landed"},
   src     : Referer,    \* where this visit really comes from
   ref     : Referer,    \* the Referer header of its request
   param   : BOOLEAN,    \* the URL carries the source parameter
   sent    : Jars,       \* the cookies of the request under way
   resp    : Responses,  \* the response under way
   issued  : Nat,        \* when the token on the page was made
   retried : BOOLEAN,    \* bg_retried in sessionStorage
   since   : Nat \cup {Never},  \* when this visit was first challenged
   seen    : Referer,    \* the referrer the application saw
   shim    : BOOLEAN]    \* what document.referrer says

Closed == [pc |-> "closed", src |-> Direct, ref |-> Direct, param |-> FALSE,
           sent |-> [pass |-> 0, stash |-> NoStash], resp |-> NoResponse,
           issued |-> 0, retried |-> FALSE, since |-> Never, seen |-> Direct,
           shim |-> FALSE]

TypeOK ==
  /\ clock \in Nat
  /\ jar \in Jars
  /\ fails \in [n : Nat, until : Nat]
  /\ tab \in [Tab -> Tabs]

Init ==
  /\ clock = 0
  /\ jar = [pass |-> 0, stash |-> NoStash]
  /\ fails = [n |-> 0, until |-> 0]
  /\ tab = [t \in Tab |-> Closed]

------------------------------------------------------------------------------
Tick == /\ clock < MaxClock
        /\ clock' = clock + 1
        /\ UNCHANGED <<jar, fails, tab>>

\* The cookies the browser sends: those that have not expired.
Live(cookies) ==
  [pass  |-> IF clock < cookies.pass THEN cookies.pass ELSE 0,
   stash |-> IF clock < cookies.stash.until THEN cookies.stash ELSE NoStash]

HasStash(cookies) == cookies.stash.until # 0

\* Tab t in state r requests its page with the given referrer.
Request(t, r, ref, cookies) ==
  tab' = [tab EXCEPT ![t] = [r EXCEPT !.pc = "sent", !.ref = ref,
                                      !.sent = cookies]]

\* A visit from elsewhere starts.
Open(t, src) ==
  /\ tab[t].pc = "closed"
  /\ Request(t, [Closed EXCEPT !.src = src], src, Live(jar))
  /\ UNCHANGED <<clock, jar, fails>>

\* The visitor follows a link to another page of the site.
Browse(t) ==
  /\ tab[t].pc = "landed"
  /\ Request(t, [Closed EXCEPT !.src = Own, !.retried = tab[t].retried],
             Own, Live(jar))
  /\ UNCHANGED <<clock, jar, fails>>

\* What Evaluate finds for the request of tab t under condition c.
Seen(t, c) ==
  [c EXCEPT !.cleared = tab[t].sent.pass > clock,
            !.fails = IF clock < fails.until THEN fails.n ELSE 0]

\* MUTANT of Challenged: every challenge round stashes the referrer anew.
ChallengedOverwrites(t, r, v) ==
  [page   |-> IF Stage(v) = "captcha" THEN "captcha" ELSE "challenge",
   set    |-> "save", revoke |-> Revokes(r, v), seen |-> tab[t].ref,
   shim   |-> FALSE]

\* MUTANT of Challenged: the response to any challenge clears the clearance.
ChallengedRevokes(t, r, v) ==
  [page   |-> IF Stage(v) = "captcha" THEN "captcha" ELSE "challenge",
   set    |-> IF HasStash(tab[t].sent) THEN "keep" ELSE "save",
   revoke |-> TRUE, seen |-> tab[t].ref, shim |-> FALSE]

\* The response to a challenge verdict: saveOrigReferer keeps a stash the
\* request already has.
Challenged(t, r, v) ==
  [page   |-> IF Stage(v) = "captcha" THEN "captcha" ELSE "challenge",
   set    |-> IF HasStash(tab[t].sent) THEN "keep" ELSE "save",
   revoke |-> Revokes(r, v),
   seen   |-> tab[t].ref, shim |-> FALSE]

\* validRefererValue refuses what is no absolute http(s) URL; a direct visit is
\* stashed under a mark of its own and does not go through it.
Restorable(t) == HasStash(tab[t].sent) /\ tab[t].sent.stash.ref \notin Foreign

\* MUTANT of AddsParam: whether the URL has the parameter is not looked at.
AddsParamAgain(t) == /\ RefererMode \in {"param", "both"}
                     /\ Restorable(t)
                     /\ tab[t].sent.stash.ref # Direct

\* The parameter is added once, and only for a source that is a valid URL.
AddsParam(t) ==
  /\ RefererMode \in {"param", "both"}
  /\ Restorable(t)
  /\ tab[t].sent.stash.ref # Direct
  /\ ~tab[t].param

\* The response of the application, behind restoreOrigReferer: a stash is used
\* up; the application sees its referrer if that can be restored, the request's
\* own if not.
Passed(t) ==
  [page   |-> "app",
   set    |-> IF HasStash(tab[t].sent) THEN "clear" ELSE "keep",
   revoke |-> FALSE,
   seen   |-> IF Restorable(t) THEN tab[t].sent.stash.ref ELSE tab[t].ref,
   shim   |-> Restorable(t) /\ RefererMode \in {"inject", "both"}]

\* What HTTPMiddleware does with verdict v on request r of tab t.
Response(t, r, v) ==
  CASE v.decision = "Challenge"              -> Challenged(t, r, v)
    [] v.decision \in {"Block", "TooMany"}   -> NoResponse
    [] v.decision = "Allow" /\ AddsParam(t)  -> [NoResponse EXCEPT !.page = "redirect"]
    [] v.decision = "Allow" /\ ~AddsParam(t) -> Passed(t)

\* HTTPMiddleware serves the request of tab t.
Serve(t) ==
  /\ tab[t].pc = "sent"
  /\ \E c \in Conditions : \E v \in Evaluate(Seen(t, c)) :
       tab' = [tab EXCEPT
         ![t].pc = "reply",
         ![t].issued = clock,
         ![t].since = IF v.decision = "Challenge" /\ @ = Never THEN clock ELSE @,
         ![t].resp = Response(t, Seen(t, c), v)]
  /\ UNCHANGED <<clock, jar, fails>>

\* The jar after the cookies of a response (stashes live as long as tokens).
Stored(resp) ==
  [pass  |-> IF resp.revoke THEN 0 ELSE jar.pass,
   stash |-> CASE resp.set = "keep"  -> jar.stash
               [] resp.set = "save"  -> [ref |-> resp.seen, until |-> clock + TokenTTL]
               [] resp.set = "clear" -> NoStash]

\* The browser takes the response; it follows a redirect with the referrer of
\* the request that was redirected.
Receive(t) ==
  /\ tab[t].pc = "reply"
  /\ LET resp == tab[t].resp
     IN  /\ jar' = Stored(resp)
         /\ IF resp.page = "redirect"
            THEN Request(t, [tab[t] EXCEPT !.param = TRUE], tab[t].ref,
                         Live(Stored(resp)))
            ELSE tab' = [tab EXCEPT
                   ![t].pc = IF resp.page = "app" THEN "landed" ELSE resp.page,
                   ![t].seen = resp.seen,
                   ![t].shim = resp.shim]
  /\ UNCHANGED <<clock, fails>>

Reload(t, r) == Request(t, r, Own, Live(jar))

TokenExpired(t) == clock - tab[t].issued > TokenTTL

\* The right answer in time: the failures are forgotten, the clearance is set
\* and the page reloads (a captcha redirects back to it).
Solve(t) ==
  /\ tab[t].pc \in {"challenge", "captcha"}
  /\ ~TokenExpired(t)
  /\ jar' = [jar EXCEPT !.pass = clock + ClearanceTTL]
  /\ fails' = [n |-> 0, until |-> 0]
  /\ tab' = [tab EXCEPT ![t].pc = "sent", ![t].retried = FALSE, ![t].ref = Own,
                        ![t].sent = Live(jar')]
  /\ UNCHANGED clock

\* A page whose answer was refused reloads by itself once, then shows a link.
Refused(t) ==
  IF tab[t].retried THEN tab' = [tab EXCEPT ![t].pc = "failed"]
                    ELSE Reload(t, [tab[t] EXCEPT !.retried = TRUE])

\* An answer that comes too late is refused, but is no failure; a captcha page
\* is replaced by a new one.
AnswerLate(t) ==
  /\ TokenExpired(t)
  /\ \/ tab[t].pc = "challenge" /\ Refused(t)
     \/ tab[t].pc = "captcha" /\ tab' = [tab EXCEPT ![t].issued = clock]
  /\ UNCHANGED <<clock, jar, fails>>

\* noteChallengeFail (BOUND: counted up to one beyond FailBudget, where Evaluate
\* blocks).
CountFail ==
  fails' = [n |-> IF clock < fails.until THEN Min({fails.n + 1, FailBudget + 1}) ELSE 1,
            until |-> clock + FailTTL]

\* A wrong answer.
AnswerWrong(t) ==
  /\ MayErr
  /\ ~TokenExpired(t)
  /\ \/ tab[t].pc = "challenge" /\ Refused(t)
     \/ tab[t].pc = "captcha" /\ tab' = [tab EXCEPT ![t].issued = clock]
  /\ CountFail
  /\ UNCHANGED <<clock, jar>>

\* "Try again", or a reload of the refusal page.  A visit that was refused before
\* any challenge is over: what comes now comes from the page itself, and nothing
\* has kept where the first request came from.
TryAgain(t) ==
  /\ tab[t].pc \in {"failed", "denied"}
  /\ Reload(t, [tab[t] EXCEPT !.retried = FALSE,
                              !.src = IF tab[t].since = Never THEN Own ELSE @])
  /\ UNCHANGED <<clock, jar, fails>>

Next == \/ Tick
        \/ \E t \in Tab : \/ \E src \in Source : Open(t, src)
                          \/ Browse(t)
                          \/ Serve(t)
                          \/ Receive(t)
                          \/ Solve(t)
                          \/ AnswerLate(t)
                          \/ AnswerWrong(t)
                          \/ TryAgain(t)

Spec == Init /\ [][Next]_vvars

\* Requests are served and responses taken; a page that is shown is answered
\* sooner or later (its script runs by itself), and the visitor does not give
\* up.  Nobody has to open a tab or to browse on.
Fairness == \A t \in Tab : WF_vvars(\/ Serve(t) \/ Receive(t) \/ Solve(t)
                                    \/ AnswerLate(t) \/ TryAgain(t))

FairSpec == Spec /\ Fairness

------------------------------------------------------------------------------
(* Properties *)

\* What the application may learn of a visit that was challenged: a source that
\* is no absolute http(s) URL is stashed but not handed back, and the
\* application sees the reload that followed the challenge.
Learnt(r) == IF r.since # Never /\ r.src \in Foreign THEN Own ELSE r.src

\* A visit that gets through within TokenTTL of its first challenge reaches
\* the application with the referrer it really came with, however many
\* challenge rounds and redirects lie between (except as Learnt says).
SourceSurvives ==
  \A t \in Tab : /\ tab[t].pc = "landed"
                 /\ tab[t].since # Never => clock < tab[t].since + TokenTTL
                 => tab[t].seen = Learnt(tab[t])

\* A visitor who keeps answering gets to the page.
EveryVisitLands == \A t \in Tab : tab[t].pc = "sent" ~> tab[t].pc = "landed"

\* The visitor's own traffic stays below what costs a clearance.
OwnTrafficLow ==
  \A c \in Conditions : PersonalScore([c EXCEPT !.cleared = TRUE]) < AbuseAt

\* No step of the browser or the guard takes a pass away from a visitor whose
\* own traffic stays below the abuse threshold: not a late answer in another
\* tab, not a neighbour's traffic, not a challenge for another reason.
PassIsKept == [][OwnTrafficLow => jar'.pass >= jar.pass]_vvars
==============================================================================
