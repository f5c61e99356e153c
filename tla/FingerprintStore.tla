--------------------------- MODULE FingerprintStore ---------------------------
(***************************************************************************)
(* The statistics behind the guard: request goroutines push events into a  *)
(* bounded channel, one worker goroutine (run) adds them up and writes     *)
(* batches into a database table, another (reloadLoop) reads the pairs     *)
(* labelled bad back into memory, Close stops both.  The statistics page   *)
(* resets the counters and an external job labels rows meanwhile.          *)
(*                                                                         *)
(* A write and a reload are two steps each, their start and their end, so  *)
(* that pushes, labels, resets and Close fall in between.                  *)
(***************************************************************************)
EXTENDS Integers, Sequences, FiniteSetsExt

CONSTANTS
  Key,         \* fpKey: fingerprint kind, fingerprint, User-Agent hash
  Counter,     \* the counters an event may carry, a subset of Counters
  Net,         \* what asn, cc and utype may say
  NoNet,       \* not in Net: they say nothing
  BufferSize,  \* FingerprintStoreConfig.BufferSize
  MaxBatch,    \* FingerprintStoreConfig.MaxBatch
  MaxEvents,   \* BOUND: events that are pushed
  MaxLabels    \* BOUND: changes of labels and resets

Counters == {"hits", "challenged", "solved", "failed", "allowed"}

\* Events of recordFP describe the client, those of the answer endpoints carry
\* a key and a counter only.
Describing == {"hits", "challenged", "allowed"}

ASSUME StoreAssumption ==
  /\ Counter \subseteq Counters
  /\ NoNet \notin Net
  /\ {BufferSize, MaxBatch} \subseteq Nat \ {0}
  /\ {MaxEvents, MaxLabels} \subseteq Nat

Events == [key : Key, counter : Counter, ua : BOOLEAN, net : Net \cup {NoNet}]

\* What a batch and the table say: the keys with an entry, their counters,
\* the keys whose User-Agent is known and the network seen last.
Cells == Key \X Counter
Tallies == [keys : SUBSET Key, n : [Cells -> Nat], ua : SUBSET Key,
            net : [Key -> Net \cup {NoNet}]]

Zero == [x \in Cells |-> 0]
Plus(f, g) == [x \in Cells |-> f[x] + g[x]]
Blank == [keys |-> {}, n |-> Zero, ua |-> {}, net |-> [k \in Key |-> NoNet]]

VARIABLES
  events,   \* the channel
  run,      \* where the worker is
  agg,      \* its batch
  table,    \* the rows
  verdict,  \* the rows whose verdict column says bad
  closer,   \* where Close is: "open", "closing" or "closed"
  reload,   \* where reloadLoop is, and the pairs it has read
  bad,      \* fingerprintStore.bad, what isBad answers from
  history   \* what the properties compare with: see Histories

svars == <<events, run, agg, table, verdict, closer, reload, bad, history>>

\*   accepted  events that entered the channel
\*   atClose   those that had entered it when Close was called
\*   lost      events of batches the database did not take
\*   erased    counts that a reset put back to 0
\*   dropped   fingerprintStore.dropped
\*   labels    what the labelling job wants to be bad
\*   changes   how often it or a reset acted
Histories == [accepted : [Cells -> Nat], atClose : [Cells -> Nat],
              lost : [Cells -> Nat], erased : [Cells -> Nat], dropped : Nat,
              labels : SUBSET Key, changes : Nat]

TypeOK ==
  /\ events \in Seq(Events) /\ Len(events) =< BufferSize
  /\ run \in {"select", "flush", "drain", "last", "done"}
  /\ agg \in Tallies
  /\ Cardinality(agg.keys) < MaxBatch \/ run # "select"
  /\ table \in Tallies
  /\ verdict \subseteq table.keys
  /\ closer \in {"open", "closing", "closed"}
  /\ reload \in [pc : {"wait", "read", "done"}, next : SUBSET Key]
  /\ bad \subseteq Key
  /\ history \in Histories

Init ==
  /\ events = <<>>
  /\ run = "select"
  /\ agg = Blank
  /\ table = Blank
  /\ verdict = {}
  /\ closer = "open"
  /\ reload = [pc |-> "wait", next |-> {}]
  /\ bad = {}
  /\ history = [accepted |-> Zero, atClose |-> Zero, lost |-> Zero,
                erased |-> Zero, dropped |-> 0, labels |-> {}, changes |-> 0]

------------------------------------------------------------------------------
(* The request goroutines *)

Total(n) == MapThenSumSet(LAMBDA x : n[x], Cells)

Pushed == Total(history.accepted) + history.dropped

\* push never blocks: a full channel drops the event.  It is called before,
\* during and after Close.
Push(e) ==
  /\ Pushed < MaxEvents
  /\ IF Len(events) < BufferSize
     THEN /\ events' = Append(events, e)
          /\ history' = [history EXCEPT !.accepted[<<e.key, e.counter>>] = @ + 1]
     ELSE /\ history' = [history EXCEPT !.dropped = @ + 1]
          /\ UNCHANGED events
  /\ UNCHANGED <<run, agg, table, verdict, closer, reload, bad>>

\* The event that recordFP or an answer endpoint makes.
Event(k, c, net) ==
  [key |-> k, counter |-> c, ua |-> c \in Describing,
   net |-> IF c \in Describing THEN net ELSE NoNet]

------------------------------------------------------------------------------
(* The worker *)

\* Event e added to the batch; fields it leaves empty keep their value.
Added(e) ==
  [keys |-> agg.keys \cup {e.key},
   n    |-> [agg.n EXCEPT ![<<e.key, e.counter>>] = @ + 1],
   ua   |-> IF e.ua THEN agg.ua \cup {e.key} ELSE agg.ua,
   net  |-> IF e.net # NoNet THEN [agg.net EXCEPT ![e.key] = e.net] ELSE agg.net]

\* MUTANT of Aggregate: a batch may be one over.
AggregateOver ==
  /\ run = "select"
  /\ events # <<>>
  /\ events' = Tail(events)
  /\ agg' = Added(Head(events))
  /\ run' = IF Cardinality(agg'.keys) > MaxBatch THEN "flush" ELSE "select"
  /\ UNCHANGED <<table, verdict, closer, reload, bad, history>>

\* case e := <-s.events.  A full batch is written at once.
Aggregate ==
  /\ run = "select"
  /\ events # <<>>
  /\ events' = Tail(events)
  /\ agg' = Added(Head(events))
  /\ run' = IF Cardinality(agg'.keys) >= MaxBatch THEN "flush" ELSE "select"
  /\ UNCHANGED <<table, verdict, closer, reload, bad, history>>

\* case <-t.C
FlushTick ==
  /\ run = "select"
  /\ agg.keys # {}
  /\ run' = "flush"
  /\ UNCHANGED <<events, agg, table, verdict, closer, reload, bad, history>>

\* case <-s.stop
SeeStop ==
  /\ run = "select"
  /\ closer # "open"
  /\ run' = "drain"
  /\ UNCHANGED <<events, agg, table, verdict, closer, reload, bad, history>>

\* The drain loop takes what is queued; it passes over asn, cc and utype, and
\* over MaxBatch.
Drain ==
  /\ run = "drain"
  /\ events # <<>>
  /\ events' = Tail(events)
  /\ agg' = Added([Head(events) EXCEPT !.net = NoNet])
  /\ UNCHANGED <<run, table, verdict, closer, reload, bad, history>>

\* MUTANT of DrainEnd: the worker leaves with events in the channel.
DrainEndEarly ==
  /\ run = "drain"
  /\ run' = IF agg.keys # {} THEN "last" ELSE "done"
  /\ UNCHANGED <<events, agg, table, verdict, closer, reload, bad, history>>

\* MUTANT of DrainEnd: no default case, the drain loop waits for events.
DrainEndWaits ==
  /\ run = "drain"
  /\ events = <<>>
  /\ agg.keys # {}
  /\ run' = "last"
  /\ UNCHANGED <<events, agg, table, verdict, closer, reload, bad, history>>

\* The channel is empty: what is left is written, and the worker ends.
DrainEnd ==
  /\ run = "drain"
  /\ events = <<>>
  /\ run' = IF agg.keys # {} THEN "last" ELSE "done"
  /\ UNCHANGED <<events, agg, table, verdict, closer, reload, bad, history>>

AfterFlush == IF run = "last" THEN "done" ELSE "select"

\* The statement of flush: counters add up, the descriptive columns take the
\* value of the batch, the verdict is left alone.
Upsert ==
  /\ table' = [keys |-> table.keys \cup agg.keys,
               n    |-> Plus(table.n, agg.n),
               ua   |-> (table.ua \ agg.keys) \cup agg.ua,
               net  |-> [k \in Key |-> IF k \in agg.keys THEN agg.net[k]
                                                         ELSE table.net[k]]]
  /\ verdict' = verdict

\* MUTANT of Written: the batch is kept and written again.
WrittenKeepsBatch ==
  /\ run \in {"flush", "last"}
  /\ Upsert
  /\ run' = AfterFlush
  /\ UNCHANGED <<events, agg, closer, reload, bad, history>>

\* The statement was executed.  Its answer may be lost (WriteTimeout): the
\* error is reported, and the batch is dropped either way.
Written ==
  /\ run \in {"flush", "last"}
  /\ Upsert
  /\ agg' = Blank
  /\ run' = AfterFlush
  /\ UNCHANGED <<events, closer, reload, bad, history>>

\* The statement failed: the batch is dropped and the error reported.
WriteFailed ==
  /\ run \in {"flush", "last"}
  /\ agg' = Blank
  /\ run' = AfterFlush
  /\ history' = [history EXCEPT !.lost = Plus(@, agg.n)]
  /\ UNCHANGED <<events, table, verdict, closer, reload, bad>>

------------------------------------------------------------------------------
(* Close *)

\* close(s.stop), called once.
Close ==
  /\ closer = "open"
  /\ closer' = "closing"
  /\ history' = [history EXCEPT !.atClose = history.accepted]
  /\ UNCHANGED <<events, run, agg, table, verdict, reload, bad>>

\* <-s.done
CloseReturns ==
  /\ closer = "closing"
  /\ run = "done"
  /\ closer' = "closed"
  /\ UNCHANGED <<events, run, agg, table, verdict, reload, bad, history>>

------------------------------------------------------------------------------
(* Labels *)

\* reloadBad sends its query.
ReloadRead ==
  /\ reload.pc = "wait"
  /\ reload' = [pc |-> "read", next |-> verdict]
  /\ UNCHANGED <<events, run, agg, table, verdict, closer, bad, history>>

\* All rows came: the new set replaces the old one.
ReloadInstall ==
  /\ reload.pc = "read"
  /\ bad' = reload.next
  /\ reload' = [pc |-> "wait", next |-> {}]
  /\ UNCHANGED <<events, run, agg, table, verdict, closer, history>>

\* The query failed, and the old set stays; or the connection broke while rows
\* were read (rows.Err is not looked at), and those that came are installed.
ReloadFailed ==
  /\ reload.pc = "read"
  /\ \/ bad' = bad
     \/ bad' \in SUBSET reload.next
  /\ reload' = [pc |-> "wait", next |-> {}]
  /\ UNCHANGED <<events, run, agg, table, verdict, closer, history>>

\* reloadLoop sees the stop.
ReloadStop ==
  /\ reload.pc = "wait"
  /\ closer # "open"
  /\ reload' = [pc |-> "done", next |-> {}]
  /\ UNCHANGED <<events, run, agg, table, verdict, closer, bad, history>>

\* The labelling job sets or clears the verdict of a row.
Label(k) ==
  /\ history.changes < MaxLabels
  /\ k \in table.keys
  /\ LET labels == IF k \in history.labels THEN history.labels \ {k}
                                           ELSE history.labels \cup {k}
     IN  /\ verdict' = IF k \in labels THEN verdict \cup {k} ELSE verdict \ {k}
         /\ history' = [history EXCEPT !.labels = labels, !.changes = @ + 1]
  /\ UNCHANGED <<events, run, agg, table, closer, reload, bad>>

\* MUTANT of StatsReset: the rows are deleted.
StatsResetDeletes ==
  /\ history.changes < MaxLabels
  /\ table' = Blank
  /\ verdict' = {}
  /\ history' = [history EXCEPT !.erased = Plus(@, table.n), !.changes = @ + 1]
  /\ UNCHANGED <<events, run, agg, closer, reload, bad>>

\* StatsResetHTTP zeroes the counters; pairs and verdicts stay.
StatsReset ==
  /\ history.changes < MaxLabels
  /\ table' = [table EXCEPT !.n = Zero]
  /\ history' = [history EXCEPT !.erased = Plus(@, table.n), !.changes = @ + 1]
  /\ UNCHANGED <<events, run, agg, verdict, closer, reload, bad>>

Worker == \/ Aggregate \/ FlushTick \/ SeeStop \/ Drain \/ DrainEnd
          \/ Written \/ WriteFailed

Reloader == ReloadRead \/ ReloadInstall \/ ReloadFailed \/ ReloadStop

Next == \/ \E k \in Key, c \in Counter, net \in Net \cup {NoNet} :
              Push(Event(k, c, net))
        \/ Worker
        \/ Close
        \/ CloseReturns
        \/ Reloader
        \/ \E k \in Key : Label(k)
        \/ StatsReset

Spec == Init /\ [][Next]_svars

\* The two goroutines run, every database call ends (WriteTimeout), and Close
\* waits for the channel.  While the store is open the database answers a
\* reload again and again.
Fairness == /\ WF_svars(Worker)
            /\ WF_svars(CloseReturns)
            /\ WF_svars(Reloader)
            /\ SF_svars(ReloadInstall)

FairSpec == Spec /\ Fairness

------------------------------------------------------------------------------
(* Properties *)

Queued(x) == Cardinality({i \in DOMAIN events :
                            <<events[i].key, events[i].counter>> = x})

\* Every event that entered the channel is in exactly one place: in the
\* channel, in the worker's batch, in the table, in a batch whose write was
\* reported as failed, or zeroed by a reset.  None is counted twice and none
\* disappears, also not while Close drains the channel.
Conserved ==
  \A x \in Cells : history.accepted[x] =
     Queued(x) + agg.n[x] + table.n[x] + history.lost[x] + history.erased[x]

\* Close "flushes the remaining stats": once it has returned, every event that
\* was accepted before it was called has been written, reported as failed or
\* reset, although pushes go on.
ClosedMeansWritten ==
  closer = "closed" =>
    \A x \in Cells : history.atClose[x] =<
       table.n[x] + history.lost[x] + history.erased[x]

\* Close comes back, also when the database fails.
CloseEnds == closer = "closing" ~> closer = "closed"

\* "The pairs and their verdict labels stay - those are knowledge": a pair that
\* is labelled bad, and stays so, counts as bad after a while, whatever batches
\* are written and counters are reset in between; one whose label is taken back
\* stops to count.
LabelTakesEffect ==
  \A k \in Key :
    /\ k \in history.labels ~> k \in bad \/ k \notin history.labels \/ closer # "open"
    /\ k \notin history.labels ~> k \notin bad \/ k \in history.labels \/ closer # "open"
==============================================================================
