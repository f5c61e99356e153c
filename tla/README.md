# botguard: TLA+ models

botguard is a Go library that sits in front of a web application. It judges
every request by who the client says it is, how often it and its neighbours
call, and what the fingerprint store knows about it, and lets the request
through, serves a challenge page (proof of work, checkbox, captcha) or refuses
it. This directory holds a model of that decision, of the endpoints that take
the answers, of the visitor's journey between the two, and of the background
parts, with the TLC configurations that check them and proofs of every property but
the liveness ones.

    tlc -workers 2 -config MCDecision.cfg MCDecision
    tlapm VerifyEndpoints_proofs.tla

`PROJECT.json` lists the runs, what each definition translates, the mutants
(every property fails when the definition it guards is changed the way a
plausible bug would change it), the hazards and the findings. In the modules a
mutated form stands before its original and is marked `MUTANT`.

## The system and its parts

| Part | Code | State | Operations | Modules |
|---|---|---|---|---|
| Decision engine | `Guard.Evaluate`, `evaluateKnownBot`, the stage and difficulty in `httpcore.go` | none of its own; it reads the counters, the failure budget, the cookies, the bad pairs | one verdict per request | `Engine`, `Decision` |
| Classification | `classifyUAlib`, `rules.go`, `NewConfig` | lists and rules, fixed at start | kind and name of a client | `Classify` (partly) |
| Counters and limits | `rateLua`, `behaviorLua`, `activeDimensions`, `limitFactor`, `behaviorScore` | keys in Redis with an expiry | count and read in one script; rate over limit | `Counters`, `RateLimits` |
| Answer endpoints | `VerifyHTTP`, `CheckboxHTTP`, `CaptchaHTTP`, `markTokenUsed`, `noteChallengeFail` | `used:<nonce>` and `cf:<ip>` in Redis | take an answer, give a clearance | `VerifyEndpoints`, `Redemption` |
| Middleware and journey | `HTTPMiddleware`, clearance and referrer cookies, the scripts of the pages | the browser's cookie jar and tabs | challenge, retry, redirect, restore, revoke | `Visit` |
| Fingerprint store | `push`, `run`, `flush`, `reloadBad`, `close` | channel, batch, table, set of bad pairs | aggregate, write, reload, drain | `FingerprintStore` |
| `document.referrer` shim | `refInjector` | undecided, inject or pass, and a held-back 200 | `WriteHeader`, `Write`, `Flush` | `RefInjector` |
| Table creation | `ensureTable`, `ensureColumn` | the schema, the connections of the pool | probe, create, alter | `TableMigration` |
| Statistics page, verdict log | `stats.go`, `logger.go`, `StatsHTTP`, `StatsResetHTTP`, `sample` | the log file, the counters of the table, the sampling counter | log, count, collect, reset | `Statistics` (partly) |
| Adapters, configuration | `echo/`, `gin/`, `fiber/`, `shim.go`, `DefaultParams` | none | wrap | not modelled |

How they interact: the middleware calls the engine, which classifies the
client, runs the two Lua scripts and asks for the store's bad pairs. A challenge
page carries a signed token; its script posts the answer to an endpoint, which
asks Redis whether the token was used and sets the clearance cookie the engine
looks at next time. Engine and endpoints push events into the store's channel;
its worker writes them, an external job labels rows, and the reloader brings
the labels back to the engine. After a challenge the middleware restores the
referrer the visitor came with and may put a shim into the page.

What is hard about it: several processes share Redis and disagree about the
time; handlers interleave between their Redis calls, and a call may take effect
although its caller sees an error; a browser has several tabs, one cookie jar,
and responses that arrive late; batches, labels, resets and `Close` overlap in
the store; an application calls its `ResponseWriter` in any order;
several processes create or alter one table at the same time, and may die in
between; the log is cleared while it is being written and read.

What makes each part right:

- engine: more traffic of one's own never helps, the traffic of others alone
  never leads to a refusal, a solved challenge is worth something;
- classification: the first rule decides and does what its action says, rules
  change nothing for clients they do not match, crawlers from their own
  network pass;
- counters: rates are the requests that were made, and a steady client shows;
- endpoints: a token is used once, by whoever's clock; failures are counted for
  the right address and forgotten; every request is answered;
- journey: who keeps answering gets to the page, with the source he came from,
  and keeps his clearance;
- store: nothing is counted twice or lost silently, labels take effect, `Close`
  returns with everything written;
- limits: nobody answers for the traffic of others, and an allowance for many
  people behind one address is not one person's;
- table creation: a store that is enabled can write, and every start ends;
- statistics: what the page says was served was served, a page and a reset say
  what they left out, and no answer is counted without its page;
- shim: the response stays the application's.

## Modules

**VerifyEndpoints.** One clock (that of Redis); instance `i` reads
`clock + Offset[i]`. `ts[t]` is the timestamp in token `t`, `used[t]` the
expiry of its marker, `cf[a]` the failure counter of an address, `sub[s]` the
request `s` with its place in the handler. A handler is cut at its Redis calls:
`Arrive` (the context of two seconds starts, before the body is read),
`VerifyHTTP`/`CheckboxHTTP`/`CaptchaHTTP` (everything up to the first call),
`MarkAnswered`/`MarkFailed` (`markTokenUsed`; a failed call may have set the
marker), `NoteFail` or `IssueClearance`. Signatures, proofs of work and the
environment report are classes of answers (`Answers`): what the checks return
matters, not how they compute it. The clearance cookie itself belongs to
`Visit`.

The tokens of the three pages are signed with one key and name no kind, so a
request has a `route` of its own besides its token, and each endpoint takes
every token it can decode (`Decodes`). A checkbox token has no `Diff`, so any
proof meets it, and no `Code`, so at `CaptchaHTTP` the empty text is right. The
`d` of a proof-of-work token is a number and that of a captcha token a string:
neither decodes as the other. A captcha token has no nonce: at `CheckboxHTTP` all
of them share the marker `used:` of the empty one (`Nonce`). A clearance cookie, signed
with the same key, has no timestamp where a token has it, and is refused as
expired everywhere; it is left out.

**Redemption** is what these endpoints promise, without clocks and steps: a
token is redeemed by at most one request, and a clearance goes to the request
that redeemed it (a guard that fails open may also clear one it could not
check). `ImplementsRedemption` is the refinement of what `VerifyHTTP` and
`CheckboxHTTP` do with the tokens of all pages; what `CaptchaHTTP` clears, where
nothing is marked, is outside it.

**Engine** has `Evaluate` as an operator from a request to the set of verdicts
it may get. It is a set because Go walks the `rates` map in random order and
keeps the first of equal scores. Scores are integers, `One` of them making 1.0.
**Classify** has `classifyUAlib`: a User-Agent is the parser's name for it, the
list entries it contains and what two detectors say. **Decision** runs both on
one request per behaviour and states their properties.

**Counters** has the two scripts as functions on the keys in Redis. A script is
atomic, but its time was read by an instance that may be ahead by `MaxSkew`, up
to `MaxLag` before it runs. Rates are in units of `1 / Window`, so that no
fractions are needed. The log of requests is what the properties compare with.
The set of paths stands for the HyperLogLog.

**RateLimits** puts `Counters` and `Engine` together without state of its own:
`Request` makes of an entry of the log, of a network and of a clearance the
request `Evaluate` decides about, with the limits as `limitFactor` sets them and
the weights of `behaviorScore`. The properties judge the latest request from every
network that fits it, since neither network nor clearance changes a counter.

**Visit** is the browser and the middleware in enforce mode. A page request is
sent (with the cookies of that moment), served (`Serve`: the engine's verdict
and the response) and received (`Receive`: its cookies are stored), so
requests of two tabs overlap. `Solve`, `AnswerWrong` and `AnswerLate` are the
answers, one step each here. What the engine finds apart from cookies and
failures is chosen from `Conditions` at every request. `Foreign` are the sources
that are no absolute http(s) URL (the referrer an app sends): the middleware
stashes them like others, and `validRefererValue` refuses them when they are to
be restored (`Restorable`).

**FingerprintStore** has the request goroutines (`Push`), the worker
(`Aggregate` ... `WriteFailed`), the reloader, `Close`, the labelling job (not
under `src/`) and `StatsReset`. Writes and reloads are two steps each.

**TableMigration** is `ensureTable` and `ensureColumn`, one step per statement, by
several processes that start, crash and start again. A process has a pool; a
probe keeps its connection until the deferred `cancel`, because its rows are
never closed. A statement fails because the database cannot do it, because the
ten seconds are over, or for a reason of its own, and then it may have worked all
the same. `inst[i].faults` remembers at which statements that happened, so that
the properties can tell a fault from a race.

**Statistics** has the requests (`Visit`, judged by `Engine`), the pages that are
out, whose event is still to come (`showing`) and whose form can be sent
(`forms`), the answers, the log, the bag of events on their way to the table
(`FingerprintStore` is the detail of it), and a reset cut between the log and the
table. A form goes to any endpoint that can parse its token (`Parses`), and is
counted by what became of it (`Uses`): sent or not, its token marked or not. Where
Redis fails and `FailOpen` lets the request pass, a form stays as it was
and can be solved again (`UsesAfter`). A page opens the log and takes its size,
seeks, and reads a line at a time (`PageOpen`, `PageSeek`, `PageRead`) until the end
of the file, an error of Seek, or one of Scan (`PageBreaks`); lines are logged and
cleared in between. `StageOf` and `StageShownFor` are what it makes of a line.

**RefInjector** has the injector against net/http's `ResponseWriter` and next to
it the response the same calls would have produced without it. net/http finds
out the type of a response that has none (and no `Content-Encoding`) from the
first chunk that is written, unless a flush has sent the headers (`Sniffed`).

`MC*.tla` give the constants values; a `.cfg` picks the instance of a run.
`*_proofs.tla` hold the theorems about the module they are named for;
`RateLimits_proofs` also those about `Counters`.

## Runs

| Run | What it shows | Bounds and why they are enough |
|---|---|---|
| `VerifySafety` | at most one request per token is confirmed by Redis (`AtMostOnce`, and its strengthening `IndInv`); a wrong proof leaves the token usable; a suspicious page stays refused where tokens are marked; with `FailOpen` a replay is only reported when the nonce was used | a proof-of-work and a checkbox token to any endpoint, wrong, suspicious and right answers, two requests, two instances one tick apart; two requests make every race for a marker, and `MaxClock = 2` is the last moment at which the slow instance accepts a token the fast one issued at the start: the fast one has refused it before, and a marker that lacks its margin is gone (later moments are the proof's) |
| `VerifyLive` | every request is answered; the failure counter is that of its address and ends in time; `VerifyHTTP` and `CheckboxHTTP` implement `Redemption`, with `FailOpen` off | a proof-of-work and a captcha token to any endpoint, two addresses, two requests, answers that are malformed or right; a token at an endpoint that cannot decode it is refused and counted like an unsigned token or a wrong proof |
| `VerifyCaptcha` | finding: a captcha form sent twice clears twice | two requests |
| `Decision` | the engine and classification properties | every combination of one personal and two shared dimensions at, just below and above every threshold; all kinds, networks, bot actions; ten User-Agents against none, one or two rules out of all of `MCRules` |
| `VisitSource` | the application sees the true source within `TokenTTL` of the first challenge, or the page itself if that source is no absolute http(s) URL (`Learnt`) | one tab; a search page, an app's referrer and none; a blocked network among the conditions, wrong and late answers, failures up to the budget, a clock of five with tokens of two and clearances of three ticks, so everything expires at least once |
| `VisitLands` | who keeps answering gets through; no step takes a clearance away from a visitor below the abuse threshold | two tabs on one jar, five conditions including a busy client, a botnet with his fingerprint, a VPN, Redis down |
| `Store` | counts are conserved; `Close` writes and returns; labels take effect | two pairs, one counter, buffer of one (so it overflows), batch of two, three events, three labels or resets: a label is set, taken back or changed for the other pair, and met by a reset, between any two steps |
| `Injector` | status, body and shim are right in every order of calls but two, which the properties name | three chunks (with and without a head, HTML by its looks or not), two statuses, all header combinations changed at any time |
| `Counters` | rates, gaps and paths are those of the requests made (`RatesAreCounts`, `RhythmIsReal`), a steady client shows; traffic of others behind one fingerprint never blocks nor costs a clearance (`OwnTrafficOnly`); no network lets one client through beyond the limits for single clients (`OnePersonStaysOne`) | module `MCRateLimits`; three requests of two clients sharing a fingerprint, two paths, one lost answer; `Window = 2`, a skew of one, no lag (an instance that is behind is one the others are ahead of) and a clock of seven, so that a bucket serves as current and previous and a bucket made by an instance that is ahead expires while it is still read; `TTL = 4`, `MaxGap = 3`, so that gaps count, do not count, and end the statistics; limits of one to three requests; no network, an office, a carrier. The dimensions for datacenters are in the module, not in this instance |
| `Migration` | a store that is enabled can write; without faults only a pool of one or the race for the column disables it; indexes are missing only after a broken creation; every start ends | two processes (the races are between two), pools of one and two connections, two faults anywhere, crashes at any step and as often as one likes, MySQL and PostgreSQL, an absent, an old and a complete table |
| `Statistics` | the page names the stages that were served and judged; it shows its period or says that it is cut; a reset reports what it cleared; no answer counts without a page, but for the ones named | up to four of visits (a proof of work, a checkbox, a captcha, a challenge of an API request and a visitor who is let through), answers (every form at every endpoint that can parse it, Redis failing or not), lost events, resets and pages in any mixture and order (`MaxWork`; of each no more than two, three, one, two and two): a form solved again, an answer counted across a reset, a lost page, a page cut, cleared under its hands or refused by Seek take at most that many; lines of two units and a page of three, so that from two lines on it is cut inside a line |
| `StatisticsSample` | finding: with `SampleRate` 0.5 the hits of such visitors are never recorded | two visits |

`TypeOK` is the one type invariant of a module; those of `VerifyEndpoints` and
`FingerprintStore` are checked by `VerifySafety` and `Store`. Deadlock is checked
in `Migration` and the two `Visit` runs, and not where the system really may stop: the bounded clock has
run out and all requests are done, a response has ended, a store has been
closed, a decision was made, all visits and answers are used up.

Symmetry is used for requests and captcha tokens (`VerifySafety`, `VerifyCaptcha`) and for the two client
addresses and the two paths (`Counters`): nothing distinguishes them, and those runs check
invariants only.

## Fairness

- `VerifyEndpoints`: weak fairness of each handler. net/http runs it in a
  goroutine and no Redis call outlives the context. Nothing makes visitors post.
- `Visit`: weak fairness of serving, receiving and answering for each tab: the
  pages' scripts answer by themselves, and a visitor who clicks "Try again".
  Nobody has to open a tab, and wrong answers are not forced.
- `FingerprintStore`: weak fairness of the worker, the reloader and of `Close`
  receiving from `done`: goroutines whose database calls end with
  `WriteTimeout`. Strong fairness of `ReloadInstall`: a database that is asked
  again and again answers now and then; without it no label could be promised.
  The drain loop of `Close` ends because the number of events is bounded;
  requests that pushed for ever faster than it takes would keep it busy.
- `TableMigration`: weak fairness of each process's next call. `ensureTable`
  runs on the goroutine that calls `New`, and `database/sql` returns with a
  connection or when the context ends. A process that is killed does not have to
  come back, and faults do not have to happen.

## Proofs

Eight modules hold proofs, each next to the module it is about. Where nothing
else is said a theorem is about every value of the constants that the named
assumptions of the modules allow, and the bounds of the runs (requests, faults,
visits ...) are any numbers. Each invariant is proved the usual way: it holds
at the start, every action keeps it (a lemma per action, or per group of actions
that do the same to it), and the property follows from it. What a paragraph
names first is what is proved; the runs check the same properties.

**`VerifyEndpoints_proofs`**: first `TypeOK`, `IndInv`, `AtMostOnce`. `AtMostOnce` is
not inductive: nothing in it says that the marker is still there when the
second request asks. `IndInv` adds the chain of times that does. A token's
timestamp is at most `MaxSkew` ahead (`IssuedByNow`). A request that waits for
`markTokenUsed` was checked while its token was fresh, so its context ends by
`ts + TokenTTL + ReqTimeout` (`MarksInTime`). A marker, once set, lasts until at
least `ts - MaxSkew + TokenTTL + Margin` (`MarkerOutlivesToken`).
`MarginAssumption`, `MaxSkew + ReqTimeout < Margin`, closes the gap
(`MarkerIsSeen`). In the code `Margin` is the minute `markTokenUsed` adds and
`ReqTimeout` two seconds, so the property holds while the clocks of two
instances differ by less than 58 seconds.

Then, in the same module, `WrongProofKeepsToken`, `ReplayOnlyAfterUse`,
`FailCountBacked`, `SuspiciousIsFinal`, and the refinement
`ImplementsRedemption`. The invariant `HInv` adds to `IndInv` what a request must have
gone through to be where it is (`Sound`): past `markTokenUsed` only after its
checks, cleared only when past its last one. `SuspiciousIsFinal` is then a case
of `AtMostOnce`: both requests would have passed the same marker. For the
refinement the lemmas `HandlerSeen` and `EnvironmentSeen` map every step to a
step of `Redemption` or to a stutter. All of this is about the tokens of every
page at every endpoint. `SolvedOnceWhereMarked` delimits the finding below: what
`VerifyHTTP` and `CheckboxHTTP` clear has a token of its own, whatever page that is
from, so single use fails only by way of `CaptchaHTTP`.

**`Decision_proofs`**: `SharedAloneNeverHarms`, `ClearanceHolds`,
`PersonalMonotone`, `SharedScoreNeverEscalates`, `RuleDecides`, `RulesAreLocal`
and `CrawlersPass`. `Decision` takes one step, so its invariant (`Asked`) only
says that the verdict is one of those `Evaluate` gives to a well-formed request;
the work is in what is true of `Evaluate` for all dimensions, thresholds and
rates. Three facts carry it. A worst dimension that is the visitor's own scores
as much as all of them together, so what is done in its name he has earned
himself (`OwnWorstIsScore`). When the worst one is shared, the score that counts
is `ChallengeAt`. And scores, difficulties and severities keep the order of the
rates (`RateOrder`, `DifficultyKeepsOrder`, `MoreIsNoMilder`). The last three
properties rest on which rule is the first to match (`FirstMatch`) and which of
the built-in lists the first to apply (`BuiltInFirst`). The proofs made the
properties more precise, see "Engine and journey" under Findings.

**`FingerprintStore_proofs`**: `TypeOK`, `Conserved`, `ClosedMeansWritten`. The
invariant `Kept` adds that a counter of the batch belongs to a pair of the
batch (or a flush would lose it), that what `Close` remembers was accepted, that
the worker stops only after `Close` was called and `Close` returns only after
that, and that, once the channel was seen empty, what was accepted
before is in the last batch or has left the worker.

**`RefInjector_proofs`**: `SameResponse`, `ShimWhenHTML`, `LengthHonest`. None of
them says where a response stands in the middle. `IInv` does: a status that
net/http would have sent and the injector did not is a held-back 200, the
injector is undecided only before the first chunk, and it has announced the
injection only with headers without a length.

**`TableMigration_proofs`**: `TypeOK`, `StoreCanWrite`, `LosesOnlyRace`,
`IndexesFollow`, for any number of processes. What a process has found out about
the table stays true whatever the others do, because statements only ever add to
the table (`Advance`, `KnowsTable`); so one process moves at a time and the
others need no look. `OnItsWay` counts the connections a process keeps, which is
why the deadline, without faults, ends only a wait in a pool of one.

**`Statistics_proofs`**: `StagesTrue`, `PageComplete`, `ResetTold`,
`PassRateBacked`. The invariant `Books` says that every line of the log is a
true one; that while a reset is under way what is on its way to the table was
pushed since it began, and once it is done so was what is counted; and, for
the pass rate, that the answers counted, those on their way and the forms nobody
has sent with success are no more than the pages counted, those whose event is to
come, and the exceptions. The open forms are what makes it inductive: an answer
is paid for with one of them, or is one of `repeats`. `TrafficAssumption` names the
requests the model takes, any well-formed ones. `PageComplete` has an
invariant of its own (`Pages`): a page that is reading has exactly the lines of its
period between where it began and where it is; its beginning leaves out no more
than it says; and as long as the log was not cleared it stays within what was
logged. A line that is logged, a reset and every step of the page keep it.

**`Visit_proofs`**: `TypeOK`, `PassIsKept`, `SourceSurvives`. For `PassIsKept`
(an action property) the invariant `PassInv` says that the clearance in the jar
ends no later than one issued now would, so an answer never shortens it; and
that, with the visitor's own traffic below the abuse threshold, no response
under way revokes: a verdict that does is about that traffic
(`RevokedForOwnTraffic`). It holds for any number of tabs. `SourceSurvives` is
proved for one tab (the theorem's hypothesis, and the instance of the run: two
tabs share the stash, see Findings). `Journey` says for each place a visit can be
at what it has and what the jar has: before the first challenge the visit's own
referrer and no stash; from then on, while `TokenTTL` is not over, the stash or
the request and response under way keep the source (`Kept`, `Sent`, `Reply`);
and once it has landed no stash is left for the next visit (`Gone`), that of a
source which could not be restored included.

**`RateLimits_proofs`**, about `Counters` and `RateLimits`: `TypeOK`,
`RatesAreCounts`, `RhythmIsReal`, `SteadyClientShows`, `OwnTrafficOnly`,
`OnePersonStaysOne`.

- Rates. For each key and bucket (`BucketTrue`) either the bucket exists,
  counts the requests of its key and its time and lives until two windows after
  its time, less `MaxSkew`; or there was no such request; or that moment has
  passed. `TimeAssumption`, `MaxSkew + MaxLag < Window`, says that a request whose
  script runs later belongs to a later bucket, so no bucket is ever counted anew;
  and what is left of the weight of an expired one is at most `MaxSkew + MaxLag`,
  the slack of the property.
- Rhythm. `RhythmInv` says of every client that its statistics are those of the
  requests they cover and expire `TTL` after the last of them (`RhythmTrue`), and
  of the latest request that its rules are those the statistics meet. A request
  more adds itself and at most one gap (`CoveredMore`, `GapsMore`), however early
  or late its time is; a tick ends all of them together or none.
- Sums. The property compares with a fold over a set. What a fold gives is the
  value at the top of a function on the subsets (`IsSum`, `SumIs`), and two such
  functions agree because of those subsets where they differ there would be one
  without a smaller one (`Smallest`, from the library's theorem that the
  subsets of a finite set are well-founded). This takes the place of
  induction, which the prover cannot do over data. From it follow the sum
  of a set with one element more (`SumAdd`) and of equal numbers
  (`SumConstant`), so a steady client's variance is 0 (`NoSpread`), and that
  finite sets have a maximum (`HasMax`).
- Limits. What measure makes of the rates (`Measured`): a dimension within its
  limit scores at most `One` (`OwnRate`), stretched by `ClearanceMult` or not,
  since rounding a ratio down never harms; a dimension without exceptions whose limit is
  reached scores at least `One` from any network (`StrictRate`), which needs
  the exact ratios of `ExactAssumption` and that no two dimensions share a name
  (`NamesAreUnique`). A verdict in the name of one of the visitor's own dimensions,
  or of none, then has a score within `One` (`OwnScore`), and `DefaultsAssumption` puts
  the thresholds of a refusal and of an abused clearance above that.

Only model-checked: `EveryVisitLands`, `Answered`, `CloseEnds`, `LabelTakesEffect`,
`StartEnds`, liveness under fairness, which the prover cannot treat. The two
properties of the findings are violated by their runs.

## Findings

Two runs show a statement of the repository that is not what the code does
(`findings` in `PROJECT.json` quotes them):

1. Tokens rely on "single use", but `CaptchaHTTP` marks none (`VerifyCaptcha`).
2. `SampleRate` is the "share of requests that reach the statistics", but `sample`
   counts its calls, of which a request makes two: with an even step the hit of
   every visitor who is let through or challenged falls on the call that is not
   kept (`StatisticsSample`). A rate between 0.5 and 1 keeps everything, since
   the step is rounded down to one.

Disagreements and limits that were met and that no run covers, because the
properties except them or the model leaves them out:

Endpoints

- `CaptchaHTTP` decodes checkbox tokens and marks none, so a checkbox page that
  was judged suspicious is cleared there with an empty text, any number of times.
  `SuspiciousIsFinal` and `ImplementsRedemption` except what `CaptchaHTTP` clears.
- `CheckboxHTTP` decodes the tokens of all pages and marks them before it looks at
  anything: it uses up a proof-of-work token and clears it without a proof. Of the
  captcha tokens, which share the empty nonce, it takes one in the life of the
  marker. `WrongProofKeepsToken` and `ReplayOnlyAfterUse` say so.

Engine and journey

- Shared dimensions "never raise the proof-of-work difficulty or the challenge
  stage", but `effChallengeScore` looks at `score:` reasons only, so
  `hosting_browser` and `asn_always_challenge` keep the raw score;
  `SharedScoreNeverEscalates` is about the others.
- `ClearedAbuseRatio` is a "fraction of BlockAt", which `Config.validate` does not
  check: with a ratio above 1 a cleared visitor reaches `BlockAt` first and is
  refused. `ClearanceHolds` therefore asks for a personal score below both.
- The inputs of `Decision` bear the mark of at most one known bot (a bound of
  the model, `InputAssumption`); in the code the first of the list that matches
  names the client.
- One dimension names a verdict. A shared dimension with a higher score hides a
  personal one beyond `BlockAt`: the visitor is challenged instead of refused.
  A dimension below its limit can be the hard reason.
- The referrer stash ends with `TokenTTL`; a later round stashes the page
  itself. It is one cookie per browser, so two tabs that are challenged
  together share it, and a background request of a tab that has landed uses it
  up (`restoreOrigReferer` runs for API requests too). A visitor who is refused
  before any challenge and loads the page again comes, for the code, from
  his own page: nothing is stashed on a refusal.
- A source that is no absolute http(s) URL is stashed and used up, but not handed
  on: the application sees the reload that followed the challenge (`Learnt`).
- A browser classified as a tool is challenged again after every solve.
- A `known_bot` rule with an empty list skips the network check, as `Rule.ASNs`
  says, unless its name is that of a built-in bot, whose networks then count;
  of two rules with one name the networks of the later count for both.

Injector

- The shim goes into "the first HTML page after a pass", but `decide` looks for a
  `Content-Type` the application has set. A page without one passes through, and
  net/http then finds out that it is HTML and sends it as such, without the shim.
  `ShimWhenHTML` is about pages that are declared.
- `Content-Length` is deleted because "the body is about to grow", but a `Flush`
  before anything else has sent it by then; the injector also decides by
  headers that may have changed since. The properties except responses that
  were flushed first (`odd`).
- A second `WriteHeader` while a 200 is held back replaces it (net/http keeps
  the first). `SameResponse` excepts it.

Store and its table

- "The descriptive columns take the latest value": an event of an answer
  endpoint has none, and its batch blanks the row (`Upsert` does so).
- `Close` must be called once.
- A pool of one connection always ends without a store when the table exists:
  the first probe keeps the connection the next one waits for.
- Two processes that find the column missing: the one whose `ALTER` comes second
  runs without its store until it is started again. `LosesOnlyRace` excepts it.
- A first probe that fails for a passing reason on an old table leads to
  `CREATE TABLE IF NOT EXISTS` and past `ensureColumn`: the store is enabled on a
  table without the column. `StoreCanWrite` excepts it.
- A crash between `CREATE TABLE` and `CREATE INDEX` leaves a table whose indexes
  nothing adds later, as `IndexesFollow` says.

Statistics

- `stageShownFor` takes the raw score, so challenges over a shared dimension
  are listed under a higher stage than was served. It counts challenges of
  monitor mode and of API requests, which got no page, and lists hard reasons
  as checkboxes where `CheckboxAt` is 0. `StagesTrue` excepts these.
- After a reset answers to older pages and events that were on their way come
  back into the counters; a form that `CaptchaHTTP` takes twice counts twice, and so
  does one that passes `markTokenUsed` again because Redis fails and the guard fails
  open. The pass rate can exceed one; `PassRateBacked` says by how much.
- A reset while a page is being read can make it fail (the seek goes before the
  start of the file) or leave out what was logged since. `PageComplete` excepts pages
  during which the log was cleared.
- The page does not look at `sc.Err`: after a read error or a line of more than a
  megabyte it shows what it has and does not say so. `PageComplete` excepts it
  (`PageBreaks`).
- `solved` and `failed` are not thinned by `SampleRate`, the rest is: with a rate
  below 1 the pass rate has nothing to do with the pages, and `PassRateBacked`
  speaks of `SampleStep = 1` only.
- The rules and the configuration of the page are package variables: of two
  guards in a process the later one's count for both.

## Not modelled

Monitor and disabled mode of the middleware, skipped paths and API requests in
`Visit` (no state of a visit; `Statistics` has what they log), 1xx codes,
timestamps of rows, header parsing (address, subnet, fingerprint), matching of
strings, rendering, and the parser of the log (lines a custom logger writes in
another form are skipped). In `Statistics` lines have one size, one page is
read at a time (pages change nothing, so any number of them would be alike), and a
log that cannot be opened gives no page. Sampling is in
`Statistics` only. `bgStoreDB` is taken to be set. In `TableMigration` column types
and the locks of the database are left out, and `CREATE TABLE IF NOT EXISTS` by
two processes at once succeeds for both. `evaluateToolAgent` is not called by
anything.

The adapters keep no state: echo and gin hand the request and the writer on;
fiber runs the middleware against a recorder, copies a refusal or a challenge
from it, and puts the shim into the finished body, so nothing is held back there.
`DefaultParams`, `NewConfig` and `InitStats` set, once, what the models take as
constants.

## Plan

Done, in this order, most important first: `VerifyEndpoints` with `Redemption`
and proofs; `Engine` with `Decision`; `Visit` on top of `Engine`;
`FingerprintStore`; `RefInjector`; `Counters`; `Classify`; `TableMigration`;
`Statistics`; `RateLimits`, which feeds the engine with counters. Then proofs,
in the order of the section above.

`RateLimits_proofs` and `Visit_proofs` came last. What could follow: the second tab
in `Visit` needs a stash per tab in the code before its source can be promised;
API requests and monitor mode in `Visit`; a bag of events in `Statistics` that
`FingerprintStore` is shown to implement.
