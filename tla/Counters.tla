------------------------------ MODULE Counters ------------------------------
(***************************************************************************)
(* The counters in Redis behind Evaluate: rateLua, a sliding window over   *)
(* two buckets for every active dimension of a request, and behaviorLua,   *)
(* the rhythm and the paths of one client.  A script is atomic, but the    *)
(* time it works with was read by the instance that sent it: that instance *)
(* may be ahead of Redis by MaxSkew, and the script may run MaxLag after   *)
(* its time was read.  Time is counted in ticks of the clock of Redis.     *)
(*                                                                         *)
(* One Evaluate calls both scripts; they share no keys, so one step runs   *)
(* both, and both see the requests in the same order.                      *)
(***************************************************************************)
EXTENDS Integers, SequencesExt

CONSTANTS
  Signal,      \* BOUND: the clients that are tried, see Signals
  Counting,    \* Config.Dimensions, the names of the dimensions in use
  Window,      \* Config.Window
  TTL,         \* BehaviorConfig.TTL
  MaxGap,      \* BehaviorConfig.MaxGap
  CrawlMinReq, HammerMinReq, RhythmMinN,  \* BehaviorConfig, how many it takes
  CrawlAbove, HammerBelow, RhythmCV,      \* its other bounds, in percent
  MaxSkew, MaxLag,
  MaxRequests, \* BOUND: requests that are counted
  MaxFailures, \* BOUND: those of them for which a script fails
  MaxClock     \* BOUND: the clock stops here

\* A script runs soon after its time was read, compared to the window.
ASSUME TimeAssumption ==
  /\ {Window, TTL, MaxGap} \subseteq Nat \ {0}
  /\ {MaxSkew, MaxLag, MaxRequests, MaxFailures, MaxClock} \subseteq Nat
  /\ {CrawlMinReq, HammerMinReq, RhythmMinN, CrawlAbove, HammerBelow, RhythmCV}
        \subseteq Nat
  /\ MaxSkew + MaxLag < Window

VARIABLES
  clock,
  bucket,  \* the keys r:<dimension>:<key>:<n> that exist: value and expiry
  hash,    \* the keys b:<identity> and p:<identity> that exist
  log      \* the requests so far, and what each was told

cvars == <<clock, bucket, hash, log>>

------------------------------------------------------------------------------
(* Dimensions *)

NoASN == 0
NoFP == ""

\* dimensionsB: what a key is made of, and when it is left out.
Dimensions ==
  [name : {"ip_ua"},       of : {{"ip", "ua"}},          hosting : {FALSE}, fp : {FALSE}] \cup
  [name : {"ip"},          of : {{"ip"}},                hosting : {FALSE}, fp : {FALSE}] \cup
  [name : {"subnet"},      of : {{"subnet"}},            hosting : {FALSE}, fp : {FALSE}] \cup
  [name : {"ip_ua@host"},  of : {{"host", "ip", "ua"}},  hosting : {FALSE}, fp : {FALSE}] \cup
  [name : {"ip@host"},     of : {{"host", "ip"}},        hosting : {FALSE}, fp : {FALSE}] \cup
  [name : {"subnet@host"}, of : {{"host", "subnet"}},    hosting : {FALSE}, fp : {FALSE}] \cup
  [name : {"fp@host"},     of : {{"host", "fprint"}},    hosting : {FALSE}, fp : {TRUE}]  \cup
  [name : {"fp"},          of : {{"fprint"}},            hosting : {FALSE}, fp : {TRUE}]  \cup
  [name : {"asn_fp@host"}, of : {{"host", "asn", "fprint"}}, hosting : {TRUE}, fp : {TRUE}] \cup
  [name : {"asn"},         of : {{"asn"}},               hosting : {TRUE},  fp : {FALSE}]

\* What extract takes from a request.
IsSignal(s) ==
  /\ DOMAIN s = {"ip", "subnet", "ua", "host", "fprint", "asn", "hosting", "path"}
  /\ s.hosting \in BOOLEAN

\* activeDimensions
ActiveDimensions(s) ==
  {d \in Dimensions : /\ d.name \in Counting
                      /\ d.hosting => s.hosting
                      /\ d.fp => s.fprint # NoFP
                      /\ "asn" \in d.of => s.asn # NoASN}

KeyOf(d, s) == <<d.name, [f \in d.of |-> s[f]]>>

KeysBy == [s \in Signal |-> {KeyOf(d, s) : d \in ActiveDimensions(s)}]
Keys(s) == KeysBy[s]

\* The identity behaviorLua counts: address and User-Agent.
Identity(s) == <<s.ip, s.ua>>

------------------------------------------------------------------------------
(* rateLua *)

BucketOf(now) == now \div Window

CountIn(k, b) == IF <<k, b>> \in DOMAIN bucket THEN bucket[<<k, b>>].n ELSE 0

\* The sliding estimate for c requests in the current bucket and p in the one
\* before, in units of 1 / Window.
Estimate(c, p, now) == c * Window + p * (Window - (now % Window))

\* MUTANT of Increment: the bucket lives for its own window only.
IncrementOneWindow(k, b) ==
  IF <<k, b>> \in DOMAIN bucket THEN [bucket[<<k, b>>] EXCEPT !.n = @ + 1]
                                ELSE [n |-> 1, exp |-> clock + Window]

\* INCR, and PEXPIRE when the key is new.
Increment(k, b) ==
  IF <<k, b>> \in DOMAIN bucket THEN [bucket[<<k, b>>] EXCEPT !.n = @ + 1]
                                ELSE [n |-> 1, exp |-> clock + 2 * Window]

\* The script for signals s and the time now: the buckets it leaves.
Buckets(s, now) ==
  LET touched == {<<k, BucketOf(now)>> : k \in Keys(s)}
  IN  [x \in DOMAIN bucket \cup touched |->
         IF x \in touched THEN Increment(x[1], x[2]) ELSE bucket[x]]

\* What it returns for key k, the increment included.
Rate(k, now) == Estimate(CountIn(k, BucketOf(now)) + 1,
                         CountIn(k, BucketOf(now) - 1), now)

------------------------------------------------------------------------------
(* behaviorLua *)

NoStats == [n |-> 0, last |-> 0, dn |-> 0, dsum |-> 0, dsq |-> 0, paths |-> {},
            exp |-> 0]

StatsOf(id) == IF id \in DOMAIN hash THEN hash[id] ELSE NoStats

\* MUTANT of Observed: the time of the last request moves only with an
\* interval that counts.
ObservedKeepsLast(s, now) ==
  LET h == StatsOf(Identity(s))
      d == now - h.last
      counts == h.last > 0 /\ d > 0 /\ d < MaxGap
  IN  [n     |-> h.n + 1,
       last  |-> IF counts \/ h.last = 0 THEN now ELSE h.last,
       dn    |-> IF counts THEN h.dn + 1 ELSE h.dn,
       dsum  |-> IF counts THEN h.dsum + d ELSE h.dsum,
       dsq   |-> IF counts THEN h.dsq + d * d ELSE h.dsq,
       paths |-> h.paths \cup {s.path},
       exp   |-> clock + TTL]

\* The script: an interval counts when it is positive and below MaxGap, the
\* time of the request is kept in any case, and both keys live on for TTL.
Observed(s, now) ==
  LET h == StatsOf(Identity(s))
      d == now - h.last
      counts == h.last > 0 /\ d > 0 /\ d < MaxGap
  IN  [n     |-> h.n + 1,
       last  |-> now,
       dn    |-> IF counts THEN h.dn + 1 ELSE h.dn,
       dsum  |-> IF counts THEN h.dsum + d ELSE h.dsum,
       dsq   |-> IF counts THEN h.dsq + d * d ELSE h.dsq,
       paths |-> h.paths \cup {s.path},
       exp   |-> clock + TTL]

\* IntervalCV below percent: sqrt(dsq/dn - mean^2) / mean, without roots and
\* fractions.  (Fewer than two intervals have none.)
CVBelow(h, percent) ==
  LET variance == Max({0, h.dn * h.dsq - h.dsum * h.dsum})  \* times dn^2
  IN  /\ h.dn >= 2 /\ h.dsum > 0
      /\ variance * 10000 < percent * percent * h.dsum * h.dsum

\* MUTANT of MachineRhythm: one gap too many is asked for.
MachineRhythmLater(h) == h.dn > RhythmMinN /\ CVBelow(h, RhythmCV)

\* behaviorScore: the three rules, all of them enabled.
MachineRhythm(h) == h.dn >= RhythmMinN /\ CVBelow(h, RhythmCV)

\* PathDiversity, in percent of the requests.
CrawlPattern(h) == h.n >= CrawlMinReq /\ Cardinality(h.paths) * 100 > CrawlAbove * h.n
SingleEndpoint(h) == h.n >= HammerMinReq /\ Cardinality(h.paths) * 100 < HammerBelow * h.n

BehaviorHits(h) == {rule \in {"crawl_pattern", "single_endpoint", "machine_rhythm"} :
                      \/ rule = "crawl_pattern" /\ CrawlPattern(h)
                      \/ rule = "single_endpoint" /\ SingleEndpoint(h)
                      \/ rule = "machine_rhythm" /\ MachineRhythm(h)}

------------------------------------------------------------------------------
(* Requests *)

\* What is remembered of a request: the time its scripts worked with and the
\* time they ran, the rates it was told (none when the answer was lost), and
\* whether behaviorLua ran and which rules its result meets.
Entry(s, now, rates, observed, hits) ==
  [sig |-> s, now |-> now, at |-> clock, rates |-> rates,
   observed |-> observed, hits |-> hits]

NoRates == [k \in {} |-> 0]

Times == clock - MaxLag .. clock + MaxSkew

Put(id, h) == [x \in DOMAIN hash \cup {id} |-> IF x = id THEN h ELSE hash[x]]

\* Both scripts answer.
Count(s, now) ==
  /\ Len(log) < MaxRequests
  /\ bucket' = Buckets(s, now)
  /\ hash' = Put(Identity(s), Observed(s, now))
  /\ log' = Append(log, Entry(s, now, [k \in Keys(s) |-> Rate(k, now)], TRUE,
                              BehaviorHits(Observed(s, now))))
  /\ UNCHANGED clock

MayFail ==
  /\ Len(log) < MaxRequests
  /\ Cardinality({i \in DOMAIN log : ~log[i].observed}) < MaxFailures

\* rateLua answers, behaviorLua fails: Evaluate goes on without it.
CountRatesOnly(s, now) ==
  /\ MayFail
  /\ bucket' = Buckets(s, now)
  /\ log' = Append(log, Entry(s, now, [k \in Keys(s) |-> Rate(k, now)], FALSE,
                              {}))
  /\ UNCHANGED <<clock, hash>>

\* rateLua ran but its answer is lost: Evaluate returns with an error.  (A call
\* that did not reach Redis changes nothing.)
CountUnanswered(s, now) ==
  /\ MayFail
  /\ bucket' = Buckets(s, now)
  /\ log' = Append(log, Entry(s, now, NoRates, FALSE, {}))
  /\ UNCHANGED <<clock, hash>>

\* Time passes, and Redis drops what has expired.
Tick ==
  /\ clock < MaxClock
  /\ clock' = clock + 1
  /\ bucket' = [x \in {y \in DOMAIN bucket : clock' < bucket[y].exp} |-> bucket[x]]
  /\ hash' = [x \in {y \in DOMAIN hash : clock' < hash[y].exp} |-> hash[x]]
  /\ UNCHANGED log

\* The clock starts early, but no instance reads a time of 0.
Init == /\ clock = MaxLag + 1
        /\ bucket = [x \in {} |-> 0]
        /\ hash = [x \in {} |-> NoStats]
        /\ log = <<>>

Next == \/ Tick
        \/ \E s \in Signal, now \in Times : \/ Count(s, now)
                                            \/ CountRatesOnly(s, now)
                                            \/ CountUnanswered(s, now)

Spec == Init /\ [][Next]_cvars

------------------------------------------------------------------------------
(* Properties *)

AllKeys == UNION {Keys(s) : s \in Signal}

TypeOK ==
  /\ clock \in Nat
  /\ \A x \in DOMAIN bucket : /\ x[1] \in AllKeys /\ x[2] \in Nat
                              /\ bucket[x] \in [n : Nat \ {0}, exp : Nat]
  /\ \A id \in DOMAIN hash : /\ hash[id].n \in Nat \ {0}
                             /\ hash[id].dn \in 0 .. hash[id].n - 1
                             /\ {hash[id].dsum, hash[id].dsq} \subseteq Nat
  /\ \A j \in DOMAIN log : log[j].rates \in [Keys(log[j].sig) -> Nat] \cup {NoRates}

\* The requests so far whose key is k and whose time lies in bucket b.
Requested(k, b) ==
  Cardinality({i \in DOMAIN log : /\ BucketOf(log[i].now) = b
                                  /\ k \in Keys(log[i].sig)})

\* A request has been counted just now, and its rates came back.
Told == log # <<>> /\ Last(log).at = clock /\ Last(log).rates # NoRates

\* The rate the latest request is told is the sliding estimate over all the requests
\* of its key so far, those of other clients that share the key included and
\* nobody else's.  Nothing is counted that was not requested; and what expires
\* too early, because instances and Redis disagree about the time, weighs at
\* most MaxSkew + MaxLag out of Window for each request of the last bucket.
RatesAreCounts ==
  Told =>
    LET told == Last(log)
    IN  \A k \in DOMAIN told.rates :
          LET before == Requested(k, BucketOf(told.now) - 1)
              exact == Estimate(Requested(k, BucketOf(told.now)), before, told.now)
          IN  told.rates[k] \in exact - before * (MaxSkew + MaxLag) .. exact

\* The requests of identity id that behaviorLua has seen.
Seen(id) == {i \in DOMAIN log : Identity(log[i].sig) = id /\ log[i].observed}

\* No silence of TTL lies between request i of id and the ones before it.
Fresh(id, i) ==
  \A q \in Seen(id) : q < i => \E p \in Seen(id) :
     p < i /\ p >= q /\ log[p].at + TTL > log[i].at

\* Those the statistics cover: they begin anew after a silence of TTL.
Covered(id) ==
  {i \in Seen(id) : /\ clock < log[Max(Seen(id))].at + TTL
                    /\ \A p \in Seen(id) : p > i => Fresh(id, p)}

\* The time from request i of a set of requests back to the one before it.
GapBefore(i, of) == log[i].now - log[Max({p \in of : p < i})].now

\* The gaps between neighbours among them that count, as <<request, gap>>.
Gaps(id) ==
  LET of == Covered(id)
  IN  {<<i, GapBefore(i, of)>> :
         i \in {q \in of : q # Min(of) /\ GapBefore(q, of) \in 1 .. MaxGap - 1}}

\* The statistics of a client are those of its requests in the order Redis saw
\* them: how many, to which paths, and the number, the sum and the sum of the
\* squares of the gaps between neighbours that are positive and below MaxGap.
\* A late or simultaneous request loses its own gap only, and a silence of TTL
\* ends everything together.
RhythmIsReal ==
  \A id \in {Identity(s) : s \in Signal} :
     /\ StatsOf(id).n = Cardinality(Covered(id))
     /\ StatsOf(id).paths = {log[i].sig.path : i \in Covered(id)}
     /\ StatsOf(id).dn = Cardinality(Gaps(id))
     /\ StatsOf(id).dsum = SumFunction([g \in Gaps(id) |-> g[2]])
     /\ StatsOf(id).dsq = SumFunction([g \in Gaps(id) |-> g[2] * g[2]])

\* A steady client is told apart: when RhythmMinN of its gaps count and all are
\* alike, machine_rhythm fires, however late the requests arrived and whoever
\* else called in between.  (A bound of 0 turns the rule off.)
SteadyClientShows ==
  RhythmCV > 0 /\ Told /\ Last(log).observed =>
    LET gaps == Gaps(Identity(Last(log).sig))
    IN  Cardinality(gaps) >= Max({2, RhythmMinN}) /\ Cardinality({g[2] : g \in gaps}) = 1
          => "machine_rhythm" \in Last(log).hits
=============================================================================
