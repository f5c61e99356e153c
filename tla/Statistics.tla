----------------------------- MODULE Statistics -----------------------------
(***************************************************************************)
(* The statistics page: a log with a line per verdict and per answer, and  *)
(* the counters of the fingerprint table.  Visits are judged by Engine,    *)
(* logged and counted; answers are counted and logged; the page reads the  *)
(* end of the log line by line; the reset clears the log, then the         *)
(* counters.  All of that runs at the same time, on goroutines of its own. *)
(*                                                                         *)
(* What lies between recordFP and the table (see FingerprintStore) is a    *)
(* bag of events here, some of which are lost.                             *)
(***************************************************************************)
EXTENDS Engine, Sequences

CONSTANTS
  Traffic,        \* the requests: a set of [q: of Engine's Requests, api: BOOLEAN]
  Counter,        \* the counters that are followed, a subset of Counters
  Enforce,        \* Config.Mode: ModeEnforce or ModeMonitor
  LogAllowed,     \* Config.LogAllowed
  SampleStep,     \* uint64(1 / SampleRate); 1 when the rate is 1
  StatsMaxBytes,  \* what the page reads of the log at most
  LineSize,       \* of a line of the log, in the same unit
  MaxVisits,      \* BOUND: requests that are judged
  MaxAnswers,     \* BOUND: answers to challenge pages
  MaxLost,        \* BOUND: events that never reach the table
  MaxResets,      \* BOUND: resets
  MaxPages,       \* BOUND: requests for the page
  MaxWork         \* BOUND: all of these together

Counters == {"hits", "challenged", "solved", "failed", "allowed"}

ASSUME StatisticsAssumption ==
  /\ {"challenged", "solved"} \subseteq Counter /\ Counter \subseteq Counters
  /\ {Enforce, LogAllowed} \subseteq BOOLEAN
  /\ {SampleStep, StatsMaxBytes, LineSize} \subseteq Nat \ {0}
  /\ {MaxVisits, MaxAnswers, MaxLost, MaxResets, MaxPages, MaxWork} \subseteq Nat

ASSUME TrafficAssumption ==
  Traffic \subseteq [q : Requests(Nat, Nat, Nat), api : BOOLEAN]

VARIABLES
  file,     \* the verdict log
  sampleN,  \* Guard.sampleN, as far as sample looks at it
  showing,  \* challenge pages that are out, their event not pushed yet
  forms,    \* challenge pages whose form can be sent, by stage and use
  pending,  \* events on their way to the table
  table,    \* the sums over its rows
  reset,    \* where StatsResetHTTP is, and what it answered last
  page,     \* where StatsHTTP is, or what it answered last
  history   \* what the bounds and the properties count: see Init

svars == <<file, sampleN, showing, forms, pending, table, reset, page, history>>

None == [c \in Counter |-> 0]
Stages == {"pow", "checkbox", "captcha"}

\* A form nobody has sent with success, one that was cleared without its token
\* being marked, and one whose token is marked.
Uses == {"open", "cleared", "spent"}

\* Of a page:
\*   cut      st.Truncated: the log was too large
\*   base     lines that were cleared before it was asked for
\*   asked    lines that had been logged by then (lines are numbered from 1
\*            on, those that are cleared included)
\*   older    the last line before the period it covers
\*   from     lines of the log that Seek passed over
\*   pos      lines of the log that are behind its position
\*   seen     the lines it counts
\*   cleared  was the log cleared while the page was on its way
\*   end      "ok", "error" (there is no page), or "broken" (Scan met a read
\*            error or a line that is too long)
Page0 == [pc |-> "done", cut |-> FALSE, base |-> 0, asked |-> 0, older |-> 0,
          from |-> 0, pos |-> 0, seen |-> {}, cleared |-> FALSE, end |-> "ok"]

\*   visits, answers, resets, pages, gone    how many there were; gone are
\*             lost events
\*   hits      requests whose hit was recorded
\*   cleared   lines that were cleared from the log
\*   stale     lines of the log from before the last reset began
\*   since     events since the last reset began, and those pending then
\*   credit    answers to come for pages that were out at the last zeroing
\*   lost      pages since then whose event was lost
\*   repeats   answers since then whose form had been used before
Init ==
  /\ file = <<>>
  /\ sampleN = 0
  /\ showing = 0
  /\ forms = [k \in Stages \X Uses |-> 0]
  /\ pending = None
  /\ table = None
  /\ reset = [pc |-> "idle", answer |-> "none"]
  /\ page = Page0
  /\ history = [visits |-> 0, answers |-> 0, resets |-> 0, pages |-> 0, gone |-> 0,
                hits |-> 0, cleared |-> 0, stale |-> 0, since |-> None, credit |-> 0,
                lost |-> 0, repeats |-> 0]

\* BOUND: there is room for one more visit, answer, loss, reset or page.
Room == history.visits + history.answers + history.gone + history.resets
          + history.pages < MaxWork

------------------------------------------------------------------------------
(* Log lines and events *)

\* A record of the log.  The field shown is not in it: the stage that was
\* served, or that judged the answer.
Record(decision, class, about, score, shown) ==
  [decision |-> decision, class |-> class, about |-> about, score |-> score,
   shown |-> shown]

\* logVerdict
LogVerdict(v, shown) ==
  IF v.decision = "Allow" /\ ~LogAllowed THEN file
  ELSE Append(file, Record(v.decision, v.class, v.about, v.score, shown))

\* logChallengeResult
LogResult(ok, reason, stage) ==
  Append(file, Record(IF ok THEN "challenge_solved" ELSE "challenge_failed",
                      reason.class, reason.about, 0, stage))

\* sample, at its k-th call from now on
Sample(k) == SampleStep = 1 \/ (sampleN + k) % SampleStep = 0

\* How many of the calls recordFP(calls[1]), recordFP(calls[2]), ... leave an
\* event for counter c.
Kept(calls, c) == Cardinality({k \in DOMAIN calls : calls[k] = c /\ Sample(k)})

\* The calls one after the other.  Events of the answer endpoints are pushed
\* without them.
RecordFP(calls) ==
  /\ sampleN' = (sampleN + Len(calls)) % SampleStep
  /\ pending' = [c \in Counter |-> pending[c] + Kept(calls, c)]

Push(c) ==
  /\ pending' = [pending EXCEPT ![c] = @ + 1]
  /\ UNCHANGED sampleN

\* n more forms of stage s and use u.
Add(o, s, u, n) == [o EXCEPT ![<<s, u>>] = @ + n]

\* The counting that goes with an event, next to EXCEPT clauses of its own.
Since(h) == [h EXCEPT !.since = [c \in Counter |-> @[c] + pending'[c] - pending[c]]]

------------------------------------------------------------------------------
(* Visits and answers *)

\* HTTPMiddleware.  The hit is recorded by a deferred call of Evaluate, before
\* the verdict is logged.  In monitor mode and for API requests no page is shown.
Visit(t) ==
  /\ Room /\ history.visits < MaxVisits
  /\ \E v \in Evaluate(t.q) :
       LET stage == IF v.decision = "Challenge" /\ Enforce /\ ~t.api THEN Stage(v)
                                                                     ELSE "none"
           calls == IF v.decision = "Allow" THEN <<"hits", "allowed">> ELSE <<"hits">>
       IN  /\ file' = LogVerdict(v, stage)
           /\ RecordFP(calls)
           /\ history' = Since([history EXCEPT !.visits = @ + 1,
                                               !.hits = @ + Kept(calls, "hits")])
           /\ IF stage = "none" THEN UNCHANGED <<showing, forms>>
              ELSE /\ showing' = showing + 1
                   /\ forms' = Add(forms, stage, "open", 1)
  /\ UNCHANGED <<table, reset, page>>

\* renderChallenge, renderCheckbox and renderCaptcha count a page after they
\* have written it: its form may come back first.
CountShown ==
  /\ showing > 0
  /\ showing' = showing - 1
  /\ RecordFP(<<"challenged">>)
  /\ history' = Since(history)
  /\ UNCHANGED <<file, forms, table, reset, page>>

\* The forms whose token an endpoint can parse, whatever page they come from
\* (see Decodes in VerifyEndpoints).  An endpoint has the name of its stage.
Parses(e) == CASE e = "pow"      -> {"pow", "checkbox"}
               [] e = "checkbox" -> Stages
               [] e = "captcha"  -> {"checkbox", "captcha"}

\* VerifyHTTP marks the token of a right proof, CheckboxHTTP every one.
Marks(e, ok) == e = "checkbox" \/ (e = "pow" /\ ok)

\* What the form of stage f becomes when endpoint e judges its answer: its token
\* gets marked, or Redis fails and FailOpen lets it pass as it is.  The tokens of
\* captchas have one nonce between them, whose marker tells nothing about a form.
UsesAfter(e, f, u, ok) ==
  LET unmarked == IF ok /\ u = "open" THEN "cleared" ELSE u
  IN  IF Marks(e, ok) /\ f # "captcha"
      THEN {to \in {"spent", unmarked} : \/ to = "spent" /\ u # "spent"
                                         \/ to = unmarked /\ RedisFailOpen}
      ELSE {unmarked}

\* Endpoint e judges a form of stage f and use u, counts the answer and logs it
\* under the given reason.  more is how many new captchas it shows.
Answer(e, f, u, ok, reason, more) ==
  /\ Room /\ history.answers < MaxAnswers
  /\ forms[<<f, u>>] > 0
  /\ \E to \in UsesAfter(e, f, u, ok) :
       forms' = Add(Add(Add(forms, f, u, -1), f, to, 1), "captcha", "open", more)
  /\ showing' = showing + more
  /\ Push(IF ok THEN "solved" ELSE "failed")
  /\ file' = LogResult(ok, reason, e)
  /\ history' = Since([history EXCEPT !.answers = @ + 1,
                        !.repeats = @ + (IF ok /\ u # "open" THEN 1 ELSE 0)])
  /\ UNCHANGED <<table, reset, page>>

\* VerifyHTTP; a wrong proof leaves the token as it is.
VerifyHTTP(f, u, ok) ==
  /\ f \in Parses("pow")
  /\ Answer("pow", f, u, ok, [class |-> IF ok THEN "solved" ELSE "bad proof",
                              about |-> ""], 0)

\* CheckboxHTTP; one token, one check.
CheckboxHTTP(f, u, ok) ==
  /\ f \in Parses("checkbox")
  /\ Answer("checkbox", f, u, ok, [class |-> "checkbox",
                                   about |-> IF ok THEN "solved" ELSE "webdriver"], 0)

\* CaptchaHTTP; a wrong answer is followed by a new captcha.
CaptchaHTTP(f, u, ok) ==
  /\ f \in Parses("captcha")
  /\ Answer("captcha", f, u, ok, [class |-> "captcha",
                                  about |-> IF ok THEN "solved" ELSE "wrong"],
            IF ok THEN 0 ELSE 1)

\* So is one that comes too late, which is neither counted nor logged ...
CaptchaExpired(f, u) ==
  /\ f \in Parses("captcha") /\ forms[<<f, u>>] > 0
  /\ Room /\ history.answers < MaxAnswers
  /\ showing' = showing + 1
  /\ forms' = Add(Add(forms, f, u, -1), "captcha", "open", 1)
  /\ history' = [history EXCEPT !.answers = @ + 1]
  /\ UNCHANGED <<file, sampleN, pending, table, reset, page>>

\* ... and one that has no token CaptchaHTTP can parse.
CaptchaUnparsed ==
  /\ Room /\ history.answers < MaxAnswers
  /\ showing' = showing + 1
  /\ forms' = Add(forms, "captcha", "open", 1)
  /\ history' = [history EXCEPT !.answers = @ + 1]
  /\ UNCHANGED <<file, sampleN, pending, table, reset, page>>

\* The worker of the store writes an event, or it is lost with its batch or
\* for want of room.
Land(c) ==
  /\ pending[c] > 0
  /\ pending' = [pending EXCEPT ![c] = @ - 1]
  /\ table' = [table EXCEPT ![c] = @ + 1]
  /\ UNCHANGED <<file, sampleN, showing, forms, reset, page, history>>

Lose(c) ==
  /\ pending[c] > 0
  /\ Room /\ history.gone < MaxLost
  /\ pending' = [pending EXCEPT ![c] = @ - 1]
  /\ history' = [history EXCEPT !.gone = @ + 1,
                                !.lost = @ + (IF c = "challenged" THEN 1 ELSE 0)]
  /\ UNCHANGED <<file, sampleN, showing, forms, table, reset, page>>

------------------------------------------------------------------------------
(* StatsResetHTTP *)

\* os.Truncate; whoever has the log open keeps the position.
Truncate ==
  /\ reset.pc = "idle"
  /\ Room /\ history.resets < MaxResets
  /\ file' = <<>>
  /\ reset' = [pc |-> "truncated", answer |-> "none"]
  /\ page' = [page EXCEPT !.cleared = @ \/ page.pc # "done"]
  /\ history' = [history EXCEPT !.resets = @ + 1, !.cleared = @ + Len(file),
                                !.stale = 0, !.since = pending]
  /\ UNCHANGED <<sampleN, showing, forms, pending, table>>

\* It fails: nothing is cleared.
TruncateFails ==
  /\ reset.pc = "idle"
  /\ Room /\ history.resets < MaxResets
  /\ reset' = [pc |-> "idle", answer |-> "could not clear the log"]
  /\ history' = [history EXCEPT !.resets = @ + 1, !.stale = Len(file), !.since = pending]
  /\ UNCHANGED <<file, sampleN, showing, forms, pending, table, page>>

\* The answers that may still come for pages counted before now.
Credit == pending["solved"] + forms[<<"pow", "open">>] + forms[<<"checkbox", "open">>]
            + forms[<<"captcha", "open">>]

\* MUTANT of Zero: the answers stay.
ZeroKeepsSolved ==
  /\ reset.pc = "truncated"
  /\ table' = [table EXCEPT !["hits"] = 0, !["challenged"] = 0, !["allowed"] = 0]
  /\ file' = Append(file, Record("-", "log cleared", "", 0, "none"))
  /\ reset' = [pc |-> "idle", answer |-> "done"]
  /\ history' = [history EXCEPT !.credit = Credit, !.lost = 0, !.repeats = 0]
  /\ UNCHANGED <<sampleN, showing, forms, pending, page>>

\* UPDATE ... SET hits = 0, ..., then noteStatsReset
Zero ==
  /\ reset.pc = "truncated"
  /\ table' = None
  /\ file' = Append(file, Record("-", "log cleared", "", 0, "none"))
  /\ reset' = [pc |-> "idle", answer |-> "done"]
  /\ history' = [history EXCEPT !.credit = Credit, !.lost = 0, !.repeats = 0]
  /\ UNCHANGED <<sampleN, showing, forms, pending, page>>

\* MUTANT of ZeroFails: the error is not looked at.
ZeroFailsSilently ==
  /\ reset.pc = "truncated"
  /\ file' = Append(file, Record("-", "log cleared", "", 0, "none"))
  /\ reset' = [pc |-> "idle", answer |-> "done"]
  /\ UNCHANGED <<sampleN, showing, forms, pending, table, page, history>>

ZeroFails ==
  /\ reset.pc = "truncated"
  /\ reset' = [pc |-> "idle", answer |-> "log cleared, but counters not"]
  /\ UNCHANGED <<file, sampleN, showing, forms, pending, table, page, history>>

------------------------------------------------------------------------------
(* StatsHTTP: collectBGStats *)

Size == Len(file) * LineSize

\* As many lines as StatsMaxBytes hold.
TailLines == StatsMaxBytes \div LineSize

\* Lines that were ever logged.
Logged == history.cleared + Len(file)

\* It opens the log and looks at its size.
PageOpen ==
  /\ page.pc = "done"
  /\ Room /\ history.pages < MaxPages
  /\ page' = [Page0 EXCEPT !.pc = "opened", !.cut = Size > StatsMaxBytes,
                           !.base = history.cleared, !.asked = Logged]
  /\ history' = [history EXCEPT !.pages = @ + 1]
  /\ UNCHANGED <<file, sampleN, showing, forms, pending, table, reset>>

\* MUTANT of PageSeek: whether the log is too large is looked up again.
PageSeekLooksAgain ==
  /\ page.pc = "opened"
  /\ \E older \in history.cleared .. Logged :
       LET from == IF Size > StatsMaxBytes THEN Len(file) - TailLines ELSE 0
       IN  page' = [page EXCEPT !.pc = "reading", !.older = older,
                                !.from = from, !.pos = from]
  /\ UNCHANGED <<file, sampleN, showing, forms, pending, table, reset, history>>

\* It seeks from the end of a log that was too large, and computes where the
\* period begins.  The line that Seek lands in does not start with a brace.
PageSeek ==
  /\ page.pc = "opened"
  /\ page.cut => Size >= StatsMaxBytes
  /\ \E older \in history.cleared .. Logged :
       LET from == IF page.cut THEN Len(file) - TailLines ELSE 0
       IN  page' = [page EXCEPT !.pc = "reading", !.older = older,
                                !.from = from, !.pos = from]
  /\ UNCHANGED <<file, sampleN, showing, forms, pending, table, reset, history>>

\* Seek refuses a position before the start.
PageSeekFails ==
  /\ page.pc = "opened"
  /\ page.cut /\ Size < StatsMaxBytes
  /\ page' = [page EXCEPT !.pc = "done", !.end = "error"]
  /\ UNCHANGED <<file, sampleN, showing, forms, pending, table, reset, history>>

\* Scan takes the next line, wherever the log is by now.  (Lines have one size:
\* in a log that was cleared and has grown again it may land inside a line.)
PageRead ==
  /\ page.pc = "reading"
  /\ page.pos < Len(file)
  /\ LET line == history.cleared + page.pos + 1
     IN  page' = [page EXCEPT !.pos = @ + 1,
                              !.seen = IF line > page.older THEN @ \cup {line} ELSE @]
  /\ UNCHANGED <<file, sampleN, showing, forms, pending, table, reset, history>>

\* It is at the end of the file.
PageEnd ==
  /\ page.pc = "reading"
  /\ page.pos >= Len(file)
  /\ page' = [page EXCEPT !.pc = "done"]
  /\ UNCHANGED <<file, sampleN, showing, forms, pending, table, reset, history>>

\* Scan cannot go on; the page does not look at its error.
PageBreaks ==
  /\ page.pc = "reading"
  /\ page' = [page EXCEPT !.pc = "done", !.end = "broken"]
  /\ UNCHANGED <<file, sampleN, showing, forms, pending, table, reset, history>>

Next ==
  \/ \E t \in Traffic : Visit(t)
  \/ CountShown
  \/ \E f \in Stages, u \in Uses :
       \/ \E ok \in BOOLEAN : \/ VerifyHTTP(f, u, ok)
                            \/ CheckboxHTTP(f, u, ok)
                            \/ CaptchaHTTP(f, u, ok)
       \/ CaptchaExpired(f, u)
  \/ CaptchaUnparsed
  \/ \E c \in Counter : Land(c) \/ Lose(c)
  \/ Truncate \/ TruncateFails \/ Zero \/ ZeroFails
  \/ PageOpen \/ PageSeek \/ PageSeekFails \/ PageRead \/ PageEnd \/ PageBreaks

Spec == Init /\ [][Next]_svars

------------------------------------------------------------------------------
(* What the page says about a record *)

\* stageOf: the stages of the answers write reasons of their own.
StageOf(r) == IF r.class \in {"captcha", "checkbox"} THEN r.class ELSE "pow"

\* MUTANT of StageShownFor: the hard reasons come first.
StageShownForHardFirst(r) ==
  IF IsHardReason(r) THEN "checkbox"
  ELSE IF CaptchaAt > 0 /\ r.score >= CaptchaAt THEN "captcha"
  ELSE IF CheckboxAt > 0 /\ r.score >= CheckboxAt THEN "checkbox"
  ELSE "pow"

\* stageShownFor, with the thresholds and hard reasons InitStats was given.
StageShownFor(r) ==
  IF CaptchaAt > 0 /\ r.score >= CaptchaAt THEN "captcha"
  ELSE IF CheckboxAt > 0 /\ r.score >= CheckboxAt THEN "checkbox"
  ELSE IF IsHardReason(r) THEN "checkbox"
  ELSE "pow"

\* challengeStats
ChallengeStats == [c \in Counter \ {"hits"} |-> table[c]]

------------------------------------------------------------------------------
(* Properties *)

\* The page computes the stages anew from the log, and comes to what was
\* served and judged at the time.  It cannot for challenges over a shared
\* dimension, whose log line has the score that effChallengeScore ignores, for
\* those of a monitor or of an API request, where no page was shown, and for
\* hard reasons when CheckboxAt switches the stage off.
StagesTrue ==
  \A n \in DOMAIN file :
    LET r == file[n] IN
    /\ r.decision \in {"challenge_solved", "challenge_failed"} => StageOf(r) = r.shown
    /\ r.decision = "Challenge" /\ r.shown # "none"
         => \/ StageShownFor(r) = r.shown
            \/ r.class = "score" /\ r.about \in SharedDim
            \/ CheckboxAt = 0 /\ IsHardReason(r)

\* However visits, resets and the page overlap, a page has no line that was
\* cleared before it was asked for, and comes out at all unless the log is cleared
\* under its hands.  If that does not happen either and Scan does not break off,
\* the page leaves no gap, and has every line of its period that was logged when
\* it was asked for; or it says that it was truncated and has as many lines as
\* StatsMaxBytes hold.
PageComplete ==
  page.pc = "done" =>
    /\ \A n \in page.seen : n > page.base
    /\ page.end = "error" => page.cleared
    /\ page.end = "ok" /\ ~page.cleared =>
         /\ \A n, m \in page.seen : n .. m \subseteq page.seen
         /\ \A n \in page.older + 1 .. page.asked :
              n \in page.seen \/ (page.cut /\ Cardinality(page.seen) >= TailLines)

\* The answer of a reset says what it did, whatever is logged and counted in
\* between: after "done" no line and no count is left from before, save events
\* that were on their way; after "counters not" no line is.
ResetTold ==
  reset.pc = "idle" =>
    /\ reset.answer \in {"done", "log cleared, but counters not"}
         => history.stale = 0
    /\ reset.answer = "done"
         => \A c \in DOMAIN ChallengeStats : ChallengeStats[c] =< history.since[c]

\* The pass rate counts no more answers than pages, except for pages that were
\* out or answered when the counters were zeroed, pages whose own event is
\* late or lost, and forms that are solved again: at CaptchaHTTP, which marks no
\* token, with a captcha, or while Redis fails and FailOpen lets marked tokens
\* pass.  (Pages are sampled and answers are not: with a SampleRate below 1
\* nothing holds.)
PassRateBacked ==
  SampleStep = 1 => ChallengeStats["solved"] + pending["solved"] =<
    ChallengeStats["challenged"] + pending["challenged"] + showing
      + history.lost + history.credit + history.repeats

\* SampleRate is the "share of requests that reach the statistics", and sample
\* keeps "every 1/SampleRate-th request".
SampledShare == history.hits >= history.visits \div SampleStep

==============================================================================
