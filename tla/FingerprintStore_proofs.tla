------------------------ MODULE FingerprintStore_proofs ------------------------
(***************************************************************************)
(* Proofs about FingerprintStore, for any set of pairs and networks, any   *)
(* buffer, any batch size and any number of events: the variables keep     *)
(* their types, every accepted event is in exactly one place, and Close    *)
(* returns only when what was accepted before it has left the worker.      *)
(***************************************************************************)
EXTENDS FingerprintStore, FiniteSetTheorems, SequenceTheorems, TLAPS

\* What has left the worker: written, reported as lost or reset.
Settled(x) == table.n[x] + history.lost[x] + history.erased[x]

BatchFinite == IsFiniteSet(agg.keys)

\* A counter in the batch belongs to a pair of the batch.
BatchKnows == \A x \in Cells : agg.n[x] # 0 => x[1] \in agg.keys

\* Close remembers no more than what was accepted.
CloseSaw == \A x \in Cells : history.atClose[x] =< history.accepted[x]

\* The worker drains only after Close was called, and Close returns only after
\* the worker ended.
StopInOrder ==
  /\ run \in {"drain", "last", "done"} => closer # "open"
  /\ closer = "closed" => run = "done"
  /\ run = "done" => agg.keys = {}

\* Once the channel was seen empty, what was accepted before Close is in the
\* last batch or has left the worker.
DrainedAll ==
  run \in {"last", "done"} =>
    \A x \in Cells : history.atClose[x] =< agg.n[x] + Settled(x)

------------------------------------------------------------------------------
(* The channel *)

CellOf(e) == <<e.key, e.counter>>

\* Where cell x occurs in q, and how often.
Places(q, x) == {i \in DOMAIN q : CellOf(q[i]) = x}

\* There are finitely many places.
LEMMA PlacesFinite ==
  ASSUME NEW q \in Seq(Events), NEW x
  PROVE  IsFiniteSet(Places(q, x)) /\ Cardinality(Places(q, x)) \in Nat
<1>1. DOMAIN q = 1 .. Len(q) /\ Len(q) \in Nat
  BY LenProperties
<1>2. IsFiniteSet(1 .. Len(q))
  BY <1>1, FS_Interval
<1>3. Places(q, x) \subseteq 1 .. Len(q)
  BY <1>1 DEF Places
<1>4. QED
  BY <1>2, <1>3, FS_Subset, FS_CardinalityType

\* A send adds one occurrence of the cell of the event and no other.
LEMMA SendAddsOne ==
  ASSUME NEW q \in Seq(Events), NEW e \in Events, NEW x
  PROVE  Cardinality(Places(Append(q, e), x)) =
           Cardinality(Places(q, x)) + (IF CellOf(e) = x THEN 1 ELSE 0)
<1>1. /\ DOMAIN q = 1 .. Len(q) /\ Len(q) \in Nat
      /\ DOMAIN Append(q, e) = 1 .. (Len(q) + 1)
      /\ \A i \in 1 .. Len(q) : Append(q, e)[i] = q[i]
      /\ Append(q, e)[Len(q) + 1] = e
  BY LenProperties, AppendProperties
<1>2. Len(q) + 1 \notin Places(q, x)
  BY <1>1 DEF Places
<1>3. CASE CellOf(e) = x
  <2>1. Places(Append(q, e), x) = Places(q, x) \cup {Len(q) + 1}
    BY <1>1, <1>3 DEF Places
  <2>2. QED
    BY <1>2, <1>3, <2>1, PlacesFinite, FS_AddElement
<1>4. CASE CellOf(e) # x
  <2>1. Places(Append(q, e), x) = Places(q, x)
    BY <1>1, <1>4 DEF Places
  <2>2. QED
    BY <1>4, <2>1, PlacesFinite
<1>5. QED
  BY <1>3, <1>4

\* A receive takes one occurrence of the cell of the event and no other.
LEMMA ReceiveTakesOne ==
  ASSUME NEW q \in Seq(Events), q # <<>>, NEW x
  PROVE  /\ Head(q) \in Events /\ Tail(q) \in Seq(Events) /\ Len(Tail(q)) = Len(q) - 1
         /\ Cardinality(Places(q, x)) =
              Cardinality(Places(Tail(q), x)) + (IF CellOf(Head(q)) = x THEN 1 ELSE 0)
<1>1. /\ DOMAIN q = 1 .. Len(q) /\ Len(q) \in Nat \ {0}
      /\ Head(q) = q[1] /\ Head(q) \in Events
      /\ Tail(q) \in Seq(Events) /\ Len(Tail(q)) = Len(q) - 1
      /\ DOMAIN Tail(q) = 1 .. (Len(q) - 1)
      /\ \A i \in 1 .. (Len(q) - 1) : Tail(q)[i] = q[i + 1]
  BY LenProperties, HeadTailProperties, EmptySeq
<1> DEFINE Rest == Places(q, x) \ {1}
           Shift == [i \in Places(Tail(q), x) |-> i + 1]
<1>2. Shift \in Bijection(Places(Tail(q), x), Rest)
  <2>1. \A i \in Places(Tail(q), x) : i \in 1 .. (Len(q) - 1) /\ i + 1 \in Rest
    BY <1>1 DEF Places
  <2>2. \A j \in Rest : j - 1 \in Places(Tail(q), x) /\ (j - 1) + 1 = j
    BY <1>1 DEF Places
  <2>3. \A i, j \in Places(Tail(q), x) : i + 1 = j + 1 => i = j
    BY <2>1
  <2>4. QED
    BY <2>1, <2>2, <2>3 DEF Bijection, Injection, Surjection, IsInjective
<1>3. Cardinality(Rest) = Cardinality(Places(Tail(q), x))
  <2>1. IsFiniteSet(Places(Tail(q), x))
    BY <1>1, PlacesFinite
  <2>2. ExistsBijection(Places(Tail(q), x), Rest)
    BY <1>2 DEF ExistsBijection
  <2> HIDE DEF Rest
  <2>3. QED
    BY <2>1, <2>2, FS_Bijection
<1>4. 1 \in Places(q, x) <=> CellOf(Head(q)) = x
  BY <1>1 DEF Places
<1>5. Cardinality(Rest) = IF 1 \in Places(q, x) THEN Cardinality(Places(q, x)) - 1
                                               ELSE Cardinality(Places(q, x))
  BY PlacesFinite, FS_RemoveElement
<1>6. Cardinality(Places(q, x)) \in Nat
  BY PlacesFinite
<1>7. QED
  BY <1>1, <1>3, <1>4, <1>5, <1>6

\* Queued counts the places of a cell in the channel.
LEMMA QueuedPlaces ==
  ASSUME NEW x
  PROVE  Queued(x) = Cardinality(Places(events, x))
BY DEF Queued, Places, CellOf
------------------------------------------------------------------------------
(* Types *)

\* Sums of tallies are tallies.
LEMMA PlusType ==
  ASSUME NEW f \in [Cells -> Nat], NEW g \in [Cells -> Nat]
  PROVE  /\ Plus(f, g) \in [Cells -> Nat]
         /\ \A x \in Cells : Plus(f, g)[x] = f[x] + g[x]
<1>1. \A x \in Cells : f[x] + g[x] \in Nat
  OBVIOUS
<1>2. QED
  BY <1>1 DEF Plus

\* Nothing has been counted in Zero and Blank.
LEMMA BlankType ==
  /\ Zero \in [Cells -> Nat] /\ \A x \in Cells : Zero[x] = 0
  /\ Blank \in Tallies /\ Blank.keys = {} /\ Blank.n = Zero
<1>1. Zero \in [Cells -> Nat] /\ \A x \in Cells : Zero[x] = 0
  BY DEF Zero
<1>2. [k \in Key |-> NoNet] \in [Key -> Net \cup {NoNet}]
  OBVIOUS
<1>3. QED
  BY <1>1, <1>2 DEF Blank, Tallies

\* The event of a request is one of Events.
LEMMA EventType ==
  ASSUME NEW k \in Key, NEW c \in Counter, NEW net \in Net \cup {NoNet}
  PROVE  Event(k, c, net) \in Events /\ CellOf(Event(k, c, net)) \in Cells
<1> DEFINE b == c \in Describing
           w == IF c \in Describing THEN net ELSE NoNet
<1>1. b \in BOOLEAN /\ w \in Net \cup {NoNet}
  OBVIOUS
<1>2. Event(k, c, net) = [key |-> k, counter |-> c, ua |-> b, net |-> w]
  BY DEF Event
<1> HIDE DEF b, w
<1>3. QED
  BY <1>1, <1>2 DEF Events, CellOf, Cells

\* An event adds one to its cell of the batch, and its key.
LEMMA AddedType ==
  ASSUME agg \in Tallies, NEW e \in Events
  PROVE  /\ Added(e) \in Tallies
         /\ Added(e).keys = agg.keys \cup {e.key}
         /\ \A x \in Cells : Added(e).n[x] = agg.n[x] + (IF CellOf(e) = x THEN 1 ELSE 0)
<1>1. e.key \in Key /\ CellOf(e) \in Cells /\ e.net \in Net \cup {NoNet}
  BY DEF Events, CellOf, Cells
<1>2. /\ agg.keys \in SUBSET Key /\ agg.n \in [Cells -> Nat]
      /\ agg.ua \in SUBSET Key /\ agg.net \in [Key -> Net \cup {NoNet}]
  BY DEF Tallies
<1> DEFINE n == [agg.n EXCEPT ![CellOf(e)] = @ + 1]
           ua == IF e.ua THEN agg.ua \cup {e.key} ELSE agg.ua
           net == IF e.net # NoNet THEN [agg.net EXCEPT ![e.key] = e.net] ELSE agg.net
<1>3. n \in [Cells -> Nat] /\ \A x \in Cells : n[x] = agg.n[x] + (IF CellOf(e) = x THEN 1 ELSE 0)
  BY <1>1, <1>2
<1>4. ua \in SUBSET Key
  BY <1>1, <1>2
<1>5. net \in [Key -> Net \cup {NoNet}]
  BY <1>1, <1>2
<1>6. Added(e) = [keys |-> agg.keys \cup {e.key}, n |-> n, ua |-> ua, net |-> net]
  BY DEF Added, CellOf
<1> HIDE DEF n, ua, net
<1>7. QED
  BY <1>1, <1>2, <1>3, <1>4, <1>5, <1>6 DEF Tallies
\* The fields of the history.
LEMMA HistoryFields ==
  ASSUME history \in Histories
  PROVE  /\ history.accepted \in [Cells -> Nat] /\ history.atClose \in [Cells -> Nat]
         /\ history.lost \in [Cells -> Nat] /\ history.erased \in [Cells -> Nat]
         /\ history.dropped \in Nat /\ history.labels \subseteq Key
         /\ history.changes \in Nat
BY DEF Histories

\* What is counted is a number.
LEMMA Numbers ==
  ASSUME TypeOK, NEW x \in Cells
  PROVE  /\ Cardinality(Places(events, x)) \in Nat
         /\ agg.n[x] \in Nat /\ table.n[x] \in Nat
         /\ history.accepted[x] \in Nat /\ history.atClose[x] \in Nat
         /\ history.lost[x] \in Nat /\ history.erased[x] \in Nat
<1>1. events \in Seq(Events) /\ agg \in Tallies /\ table \in Tallies /\ history \in Histories
  BY DEF TypeOK
<1>2. agg.n \in [Cells -> Nat] /\ table.n \in [Cells -> Nat]
  BY <1>1 DEF Tallies
<1>3. QED
  BY <1>1, <1>2, PlacesFinite, HistoryFields

\* Conserved, in terms of places.
Balanced ==
  \A x \in Cells : history.accepted[x] =
     Cardinality(Places(events, x)) + agg.n[x] + Settled(x)

\* Conserved in terms of Places and Settled, which the steps are about.
LEMMA ConservedBalanced ==
  ASSUME TypeOK
  PROVE  Conserved <=> Balanced
<1>1. ASSUME NEW x \in Cells
      PROVE  Queued(x) + agg.n[x] + table.n[x] + history.lost[x] + history.erased[x]
               = Cardinality(Places(events, x)) + agg.n[x] + Settled(x)
  <2>1. /\ Cardinality(Places(events, x)) \in Nat
        /\ agg.n[x] \in Nat /\ table.n[x] \in Nat
        /\ history.lost[x] \in Nat /\ history.erased[x] \in Nat
    BY Numbers
  <2>2. QED
    BY <2>1, QueuedPlaces DEF Settled
<1>2. QED
  BY <1>1 DEF Conserved, Balanced

------------------------------------------------------------------------------
(* Steps *)

\* The invariant in the form in which the steps keep it.
Kept == /\ TypeOK
        /\ BatchFinite
        /\ BatchKnows
        /\ Balanced
        /\ CloseSaw
        /\ StopInOrder
        /\ DrainedAll

\* An event that is pushed enters the channel and is accepted, or is dropped.
LEMMA PushKeeps ==
  ASSUME Kept, NEW e \in Events, CellOf(e) \in Cells, Push(e)
  PROVE  Kept'
<1>1. /\ TypeOK /\ events \in Seq(Events) /\ Len(events) =< BufferSize
      /\ history \in Histories
  BY DEF Kept, TypeOK
<1>2. UNCHANGED <<run, agg, table, verdict, closer, reload, bad>>
  BY DEF Push
<1>3. CASE Len(events) < BufferSize
  <2>1. /\ events' = Append(events, e)
        /\ history' = [history EXCEPT !.accepted[CellOf(e)] = @ + 1]
    BY <1>3 DEF Push, CellOf
  <2>2. /\ history' \in Histories
        /\ history'.accepted = [history.accepted EXCEPT ![CellOf(e)] = @ + 1]
        /\ history'.atClose = history.atClose /\ history'.lost = history.lost
        /\ history'.erased = history.erased
    <3> DEFINE more == [history.accepted EXCEPT ![CellOf(e)] = @ + 1]
    <3>1. more \in [Cells -> Nat]
      BY <1>1, HistoryFields
    <3>2. history' = [history EXCEPT !.accepted = more]
      BY <2>1
    <3> HIDE DEF more
    <3>3. /\ history' \in Histories /\ history'.accepted = more
          /\ history'.atClose = history.atClose /\ history'.lost = history.lost
          /\ history'.erased = history.erased
      BY <1>1, <3>1, <3>2 DEF Histories
    <3>4. QED
      BY <3>3 DEF more
  <2>3. events' \in Seq(Events) /\ Len(events') =< BufferSize
    <3>1. Len(events) \in Nat /\ BufferSize \in Nat
      BY <1>1, LenProperties, StoreAssumption
    <3>2. QED
      BY <1>1, <1>3, <2>1, <3>1, AppendProperties
  <2>4. TypeOK'
    BY <1>1, <1>2, <2>2, <2>3 DEF TypeOK
  <2>5. \A x \in Cells :
           /\ history'.accepted[x] = history.accepted[x] + (IF CellOf(e) = x THEN 1 ELSE 0)
           /\ Cardinality(Places(events', x)) =
                Cardinality(Places(events, x)) + (IF CellOf(e) = x THEN 1 ELSE 0)
           /\ Settled(x)' = Settled(x)
    <3>1. history.accepted \in [Cells -> Nat]
      BY <1>1, HistoryFields
    <3>2. QED
      BY <1>1, <1>2, <2>1, <2>2, <3>1, SendAddsOne DEF Settled
  <2>6. Balanced' /\ CloseSaw'
    <3>1. SUFFICES ASSUME NEW x \in Cells
                   PROVE  /\ history'.accepted[x] =
                               Cardinality(Places(events', x)) + agg.n[x] + Settled(x)'
                          /\ history'.atClose[x] =< history'.accepted[x]
      BY <1>2 DEF Balanced, CloseSaw
    <3>2. /\ history.accepted[x] = Cardinality(Places(events, x)) + agg.n[x] + Settled(x)
          /\ history.atClose[x] =< history.accepted[x]
      BY DEF Kept, Balanced, CloseSaw
    <3>3. /\ Cardinality(Places(events, x)) \in Nat /\ agg.n[x] \in Nat /\ Settled(x) \in Nat
          /\ history.atClose[x] \in Nat /\ history.accepted[x] \in Nat
      BY <1>1, Numbers DEF Settled
    <3>4. QED
      BY <2>2, <2>5, <3>2, <3>3
  <2>7. BatchFinite' /\ BatchKnows' /\ StopInOrder'
    BY <1>2 DEF Kept, BatchFinite, BatchKnows, StopInOrder
  <2>8. DrainedAll'
    BY <1>2, <2>2, <2>5 DEF Kept, DrainedAll
  <2>9. QED
    BY <2>4, <2>6, <2>7, <2>8 DEF Kept
<1>4. CASE ~(Len(events) < BufferSize)
  <2>1. events' = events /\ history' = [history EXCEPT !.dropped = @ + 1]
    BY <1>4 DEF Push
  <2>2. /\ history' \in Histories /\ history'.accepted = history.accepted
        /\ history'.atClose = history.atClose /\ history'.lost = history.lost
        /\ history'.erased = history.erased
    <3>1. history.dropped + 1 \in Nat
      BY <1>1, HistoryFields
    <3>2. QED
      BY <1>1, <2>1, <3>1 DEF Histories
  <2>3. TypeOK'
    BY <1>1, <1>2, <2>1, <2>2 DEF TypeOK
  <2>4. QED
    BY <1>2, <2>1, <2>2, <2>3 DEF Kept, BatchFinite, BatchKnows, Balanced, CloseSaw,
       StopInOrder, DrainedAll, Settled
<1>5. QED
  BY <1>3, <1>4

\* An event that the worker takes moves from the channel to its batch.
LEMMA TakeKeeps ==
  ASSUME Kept, Aggregate \/ Drain
  PROVE  Kept'
<1> DEFINE e == IF run = "drain" THEN [Head(events) EXCEPT !.net = NoNet] ELSE Head(events)
<1>1. /\ TypeOK /\ events \in Seq(Events) /\ Len(events) =< BufferSize
      /\ agg \in Tallies /\ history \in Histories
  BY DEF Kept, TypeOK
<1>2. /\ events # <<>> /\ events' = Tail(events) /\ agg' = Added(e)
      /\ run \in {"select", "drain"}
      /\ run = "drain" => run' = "drain"
      /\ run = "select" => run' = IF Cardinality(agg'.keys) >= MaxBatch THEN "flush" ELSE "select"
      /\ UNCHANGED <<table, verdict, closer, reload, bad, history>>
  BY DEF Aggregate, Drain
<1>3. Head(events) \in Events
  BY <1>1, <1>2, ReceiveTakesOne
<1>4. e \in Events /\ CellOf(e) = CellOf(Head(events))
  BY <1>3 DEF Events, CellOf
<1>5. e.key \in Key /\ CellOf(e) \in Cells /\ CellOf(e)[1] = e.key
  BY <1>4 DEF Events, CellOf, Cells
<1> HIDE DEF e
<1>6. /\ agg' \in Tallies /\ agg'.keys = agg.keys \cup {e.key}
      /\ \A x \in Cells : agg'.n[x] = agg.n[x] + (IF CellOf(e) = x THEN 1 ELSE 0)
  BY <1>1, <1>2, <1>4, AddedType
<1>7. BatchFinite'
  BY <1>6, FS_AddElement DEF Kept, BatchFinite
<1>8. Cardinality(agg'.keys) \in Nat /\ MaxBatch \in Nat
  BY <1>7, FS_CardinalityType, StoreAssumption DEF BatchFinite
<1>9. /\ events' \in Seq(Events) /\ Len(events') = Len(events) - 1
      /\ \A x : Cardinality(Places(events, x)) =
                 Cardinality(Places(events', x)) + (IF CellOf(e) = x THEN 1 ELSE 0)
  BY <1>1, <1>2, <1>4, ReceiveTakesOne
<1>10. Len(events') =< BufferSize
  BY <1>1, <1>9, LenProperties, StoreAssumption
<1>11. TypeOK'
  BY <1>1, <1>2, <1>6, <1>8, <1>9, <1>10 DEF TypeOK
<1>12. BatchKnows'
  <2>1. SUFFICES ASSUME NEW x \in Cells, agg'.n[x] # 0
                 PROVE  x[1] \in agg.keys \cup {e.key}
    BY <1>6 DEF BatchKnows
  <2>2. CASE CellOf(e) = x
    BY <1>5, <2>2
  <2>3. CASE CellOf(e) # x
    <3>1. agg'.n[x] = agg.n[x]
      BY <1>1, <1>6, <2>3, Numbers
    <3>2. QED
      BY <2>1, <3>1 DEF Kept, BatchKnows
  <2>4. QED
    BY <2>2, <2>3
<1>13. ASSUME NEW x \in Cells
       PROVE  /\ history'.accepted[x] = Cardinality(Places(events', x)) + agg'.n[x] + Settled(x)'
              /\ agg'.n[x] >= agg.n[x] /\ Settled(x)' = Settled(x)
  <2>1. history.accepted[x] = Cardinality(Places(events, x)) + agg.n[x] + Settled(x)
    BY DEF Kept, Balanced
  <2>2. Cardinality(Places(events', x)) \in Nat /\ agg.n[x] \in Nat /\ Settled(x) \in Nat
    BY <1>1, <1>9, Numbers, PlacesFinite DEF Settled
  <2>3. Settled(x)' = Settled(x) /\ history' = history
    BY <1>2 DEF Settled
  <2> DEFINE d == IF CellOf(e) = x THEN 1 ELSE 0
  <2>4. d \in Nat
    OBVIOUS
  <2>5. /\ agg'.n[x] = agg.n[x] + d
        /\ Cardinality(Places(events, x)) = Cardinality(Places(events', x)) + d
    BY <1>6, <1>9
  <2> HIDE DEF d
  <2>6. QED
    BY <2>1, <2>2, <2>3, <2>4, <2>5
<1>14. Balanced' /\ CloseSaw'
  BY <1>2, <1>13 DEF Kept, Balanced, CloseSaw
<1>15. run' \notin {"last", "done"} /\ (run' = "drain" => run = "drain")
  BY <1>2
<1>16. StopInOrder' /\ DrainedAll'
  BY <1>2, <1>15 DEF Kept, StopInOrder, DrainedAll
<1>17. QED
  BY <1>7, <1>11, <1>12, <1>14, <1>16 DEF Kept

\* The channel was seen empty: the batch holds all that has not left the worker.
LEMMA DrainEndKeeps ==
  ASSUME Kept, DrainEnd
  PROVE  Kept'
<1>1. /\ TypeOK /\ events = <<>> /\ run = "drain"
      /\ run' = IF agg.keys # {} THEN "last" ELSE "done"
      /\ UNCHANGED <<events, agg, table, verdict, closer, reload, bad, history>>
  BY DEF Kept, DrainEnd
<1>2. TypeOK'
  BY <1>1 DEF TypeOK
<1>3. BatchFinite' /\ BatchKnows' /\ Balanced' /\ CloseSaw' /\ StopInOrder'
  BY <1>1 DEF Kept, BatchFinite, BatchKnows, Balanced, CloseSaw, StopInOrder, Settled
<1>4. DrainedAll'
  <2>1. SUFFICES ASSUME NEW x \in Cells PROVE history.atClose[x] =< agg.n[x] + Settled(x)
    BY <1>1 DEF DrainedAll, Settled
  <2>2. Places(events, x) = {}
    BY <1>1 DEF Places
  <2>3. history.accepted[x] = 0 + agg.n[x] + Settled(x) /\ history.atClose[x] =< history.accepted[x]
    BY <2>2, FS_EmptySet DEF Kept, Balanced, CloseSaw
  <2>4. agg.n[x] \in Nat /\ Settled(x) \in Nat
    BY <1>1, Numbers DEF Settled
  <2>5. QED
    BY <2>3, <2>4
<1>5. QED
  BY <1>2, <1>3, <1>4 DEF Kept

\* A batch that is written or lost leaves the worker as a whole.
LEMMA FlushKeeps ==
  ASSUME Kept, Written \/ WriteFailed
  PROVE  Kept'
<1>1. /\ TypeOK /\ agg \in Tallies /\ table \in Tallies /\ history \in Histories
      /\ verdict \subseteq table.keys
  BY DEF Kept, TypeOK
<1>2. /\ run \in {"flush", "last"} /\ agg' = Blank /\ run' = AfterFlush
      /\ UNCHANGED <<events, verdict, closer, reload, bad>>
  BY DEF Written, WriteFailed, Upsert
<1>3. /\ agg.keys \in SUBSET Key /\ agg.n \in [Cells -> Nat] /\ agg.ua \in SUBSET Key
      /\ agg.net \in [Key -> Net \cup {NoNet}]
      /\ table.keys \in SUBSET Key /\ table.n \in [Cells -> Nat] /\ table.ua \in SUBSET Key
      /\ table.net \in [Key -> Net \cup {NoNet}]
  BY <1>1 DEF Tallies
<1>4. /\ table' \in Tallies /\ verdict \subseteq table'.keys /\ history' \in Histories
      /\ history'.accepted = history.accepted /\ history'.atClose = history.atClose
      /\ \A x \in Cells : Settled(x)' = agg.n[x] + Settled(x)
  <2>1. CASE Written
    <3> DEFINE net == [k \in Key |-> IF k \in agg.keys THEN agg.net[k] ELSE table.net[k]]
    <3>1. table' = [keys |-> table.keys \cup agg.keys, n |-> Plus(table.n, agg.n),
                    ua |-> (table.ua \ agg.keys) \cup agg.ua, net |-> net]
          /\ history' = history
      BY <2>1 DEF Written, Upsert
    <3>2. net \in [Key -> Net \cup {NoNet}]
      BY <1>3
    <3> HIDE DEF net
    <3>3. /\ Plus(table.n, agg.n) \in [Cells -> Nat]
          /\ \A x \in Cells : Plus(table.n, agg.n)[x] = table.n[x] + agg.n[x]
      BY <1>3, PlusType
    <3>4. table' \in Tallies /\ verdict \subseteq table'.keys
      BY <1>1, <1>3, <3>1, <3>2, <3>3 DEF Tallies
    <3>5. ASSUME NEW x \in Cells PROVE Settled(x)' = agg.n[x] + Settled(x)
      <4>1. table'.n[x] = table.n[x] + agg.n[x]
        BY <3>1, <3>3
      <4>2. QED
        BY <1>1, <3>1, <4>1, Numbers DEF Settled
    <3>6. QED
      BY <1>1, <3>1, <3>4, <3>5
  <2>2. CASE WriteFailed
    <3>1. table' = table /\ history' = [history EXCEPT !.lost = Plus(@, agg.n)]
      BY <2>2 DEF WriteFailed
    <3>2. history.lost \in [Cells -> Nat]
      BY <1>1, HistoryFields
    <3>3. /\ Plus(history.lost, agg.n) \in [Cells -> Nat]
          /\ \A x \in Cells : Plus(history.lost, agg.n)[x] = history.lost[x] + agg.n[x]
      BY <1>3, <3>2, PlusType
    <3>4. /\ history' \in Histories /\ history'.lost = Plus(history.lost, agg.n)
          /\ history'.accepted = history.accepted /\ history'.atClose = history.atClose
          /\ history'.erased = history.erased
      BY <1>1, <3>1, <3>3, HistoryFields DEF Histories
    <3>5. ASSUME NEW x \in Cells PROVE Settled(x)' = agg.n[x] + Settled(x)
      <4>1. history'.lost[x] = history.lost[x] + agg.n[x]
        BY <3>3, <3>4
      <4>2. QED
        BY <1>1, <3>1, <3>4, <4>1, Numbers DEF Settled
    <3>6. QED
      BY <1>1, <3>1, <3>4, <3>5
  <2>3. QED
    BY <2>1, <2>2
<1>5. BatchFinite' /\ BatchKnows'
  BY <1>2, BlankType, FS_EmptySet DEF BatchFinite, BatchKnows
<1>6. Cardinality(agg'.keys) < MaxBatch
  BY <1>2, BlankType, FS_EmptySet, StoreAssumption
<1>7. run' \in {"select", "done"} /\ (run' = "done" => run = "last")
  BY <1>2 DEF AfterFlush
<1>8. TypeOK'
  BY <1>1, <1>2, <1>4, <1>6, <1>7, BlankType DEF TypeOK
<1>9. \A x \in Cells : /\ agg.n[x] + Settled(x) = agg'.n[x] + Settled(x)'
                       /\ agg.n[x] \in Nat /\ Settled(x) \in Nat
  <2>1. \A x \in Cells : agg.n[x] \in Nat /\ Settled(x) \in Nat /\ agg'.n[x] = 0
    BY <1>1, <1>2, Numbers, BlankType DEF Settled
  <2>2. QED
    BY <1>4, <2>1
<1>10. Balanced' /\ CloseSaw'
  <2>1. SUFFICES ASSUME NEW x \in Cells
                 PROVE  /\ history.accepted[x] =
                             Cardinality(Places(events, x)) + agg'.n[x] + Settled(x)'
                        /\ history.atClose[x] =< history.accepted[x]
    BY <1>2, <1>4 DEF Balanced, CloseSaw
  <2>2. history.accepted[x] = Cardinality(Places(events, x)) + agg.n[x] + Settled(x)
        /\ history.atClose[x] =< history.accepted[x]
    BY DEF Kept, Balanced, CloseSaw
  <2>3. Cardinality(Places(events, x)) \in Nat /\ agg'.n[x] \in Nat /\ Settled(x)' \in Nat
    BY <1>1, <1>2, <1>4, <1>9, Numbers, BlankType
  <2>4. /\ agg.n[x] + Settled(x) = agg'.n[x] + Settled(x)'
        /\ agg.n[x] \in Nat /\ Settled(x) \in Nat
    BY <1>9
  <2>5. QED
    BY <2>2, <2>3, <2>4
<1>11. StopInOrder'
  BY <1>2, <1>7, BlankType DEF Kept, StopInOrder
<1>12. DrainedAll'
  BY <1>4, <1>7, <1>9 DEF Kept, DrainedAll
<1>13. QED
  BY <1>5, <1>8, <1>10, <1>11, <1>12 DEF Kept

\* Close remembers what was accepted.
LEMMA CloseKeeps ==
  ASSUME Kept, Close
  PROVE  Kept'
<1>1. /\ closer = "open" /\ closer' = "closing"
      /\ history' = [history EXCEPT !.atClose = history.accepted]
      /\ UNCHANGED <<events, run, agg, table, verdict, reload, bad>>
      /\ TypeOK /\ history \in Histories
  BY DEF Kept, TypeOK, Close
<1>2. /\ history' \in Histories /\ history'.accepted = history.accepted
      /\ history'.atClose = history.accepted /\ history'.lost = history.lost
      /\ history'.erased = history.erased
  BY <1>1, HistoryFields DEF Histories
<1>3. TypeOK'
  BY <1>1, <1>2 DEF TypeOK
<1>4. run \notin {"drain", "last", "done"}
  BY <1>1 DEF Kept, StopInOrder
<1>5. CloseSaw'
  BY <1>1, <1>2, Numbers DEF CloseSaw
<1>6. QED
  BY <1>1, <1>2, <1>3, <1>4, <1>5 DEF Kept, BatchFinite, BatchKnows, Balanced,
     StopInOrder, DrainedAll, Settled

\* A reset moves the counts of the rows to what was erased.
LEMMA ResetKeeps ==
  ASSUME Kept, StatsReset
  PROVE  Kept'
<1>1. /\ table' = [table EXCEPT !.n = Zero]
      /\ history' = [history EXCEPT !.erased = Plus(@, table.n), !.changes = @ + 1]
      /\ UNCHANGED <<events, run, agg, verdict, closer, reload, bad>>
      /\ TypeOK /\ history \in Histories /\ table \in Tallies
  BY DEF Kept, TypeOK, StatsReset
<1>2. table.n \in [Cells -> Nat] /\ history.erased \in [Cells -> Nat]
  BY <1>1, HistoryFields DEF Tallies
<1>3. table' \in Tallies /\ table'.keys = table.keys /\ table'.n = Zero
  BY <1>1, BlankType DEF Tallies
<1>4. /\ Plus(history.erased, table.n) \in [Cells -> Nat]
      /\ \A x \in Cells : Plus(history.erased, table.n)[x] = history.erased[x] + table.n[x]
  BY <1>2, PlusType
<1>5. /\ history' \in Histories /\ history'.erased = Plus(history.erased, table.n)
      /\ history'.accepted = history.accepted /\ history'.atClose = history.atClose
      /\ history'.lost = history.lost
  <2>1. history.changes + 1 \in Nat
    BY <1>1, HistoryFields
  <2>2. QED
    BY <1>1, <1>4, <2>1 DEF Histories
<1>6. TypeOK'
  BY <1>1, <1>3, <1>5 DEF TypeOK
<1>7. ASSUME NEW x \in Cells PROVE Settled(x)' = Settled(x)
  <2>1. table'.n[x] = 0 /\ history'.erased[x] = history.erased[x] + table.n[x]
    BY <1>3, <1>4, <1>5, BlankType
  <2>2. QED
    BY <1>1, <1>5, <2>1, Numbers DEF Settled
<1>8. QED
  BY <1>1, <1>5, <1>6, <1>7 DEF Kept, BatchFinite, BatchKnows, Balanced, CloseSaw,
     StopInOrder, DrainedAll

\* A label changes the verdict of a row and nothing that is counted.
LEMMA LabelKeeps ==
  ASSUME Kept, NEW k \in Key, Label(k)
  PROVE  Kept'
<1> DEFINE labels == IF k \in history.labels THEN history.labels \ {k}
                                             ELSE history.labels \cup {k}
<1>1. /\ k \in table.keys
      /\ verdict' = IF k \in labels THEN verdict \cup {k} ELSE verdict \ {k}
      /\ history' = [history EXCEPT !.labels = labels, !.changes = @ + 1]
      /\ UNCHANGED <<events, run, agg, table, closer, reload, bad>>
      /\ TypeOK /\ history \in Histories
  BY DEF Kept, TypeOK, Label
<1>2. labels \subseteq Key
  BY <1>1, HistoryFields
<1> HIDE DEF labels
<1>3. /\ history' \in Histories /\ history'.accepted = history.accepted
      /\ history'.atClose = history.atClose /\ history'.lost = history.lost
      /\ history'.erased = history.erased
  <2>1. history.changes + 1 \in Nat
    BY <1>1, HistoryFields
  <2>2. QED
    BY <1>1, <1>2, <2>1 DEF Histories
<1>4. TypeOK'
  BY <1>1, <1>3 DEF TypeOK
<1>5. QED
  BY <1>1, <1>3, <1>4 DEF Kept, BatchFinite, BatchKnows, Balanced, CloseSaw,
     StopInOrder, DrainedAll, Settled

\* The other steps count nothing.
LEMMA QuietKeeps ==
  ASSUME Kept, \/ FlushTick \/ SeeStop \/ CloseReturns \/ Reloader \/ UNCHANGED svars
  PROVE  Kept'
<1>1. TypeOK
  BY DEF Kept
<1>2. UNCHANGED <<events, agg, table, verdict, history>>
  BY DEF FlushTick, SeeStop, CloseReturns, Reloader, ReloadRead, ReloadInstall,
         ReloadFailed, ReloadStop, svars
<1>3. /\ run' \in {run, "flush", "drain"} /\ closer' \in {closer, "closed"}
      /\ run' = "drain" => closer # "open"
      /\ closer' = "closed" => run = "done" /\ run' = run
      /\ run' = "select" => run = "select"
  BY DEF Kept, StopInOrder, FlushTick, SeeStop, CloseReturns, Reloader, ReloadRead, ReloadInstall,
         ReloadFailed, ReloadStop, svars
<1>4. reload' \in [pc : {"wait", "read", "done"}, next : SUBSET Key] /\ bad' \subseteq Key
  <2>1. reload.next \subseteq Key /\ bad \subseteq Key /\ verdict \subseteq Key
    BY <1>1 DEF TypeOK, Tallies
  <2>2. CASE Reloader
    BY <1>1, <2>1, <2>2 DEF TypeOK, Reloader, ReloadRead, ReloadInstall, ReloadFailed, ReloadStop
  <2>3. CASE FlushTick \/ SeeStop \/ CloseReturns \/ UNCHANGED svars
    BY <1>1, <2>3 DEF TypeOK, FlushTick, SeeStop, CloseReturns, svars
  <2>4. QED
    BY <2>2, <2>3
<1>5. TypeOK'
  BY <1>1, <1>2, <1>3, <1>4 DEF TypeOK
<1>6. StopInOrder'
  BY <1>1, <1>2, <1>3 DEF Kept, StopInOrder, TypeOK
<1>7. DrainedAll'
  BY <1>2, <1>3 DEF Kept, DrainedAll, Settled
<1>8. QED
  BY <1>2, <1>5, <1>6, <1>7 DEF Kept, BatchFinite, BatchKnows, Balanced, CloseSaw, Settled
\* Every step keeps the invariant.
LEMMA StepKeeps == Kept /\ [Next]_svars => Kept'
<1> SUFFICES ASSUME Kept, [Next]_svars PROVE Kept'
  OBVIOUS
<1>1. ASSUME NEW k \in Key, NEW c \in Counter, NEW net \in Net \cup {NoNet},
             Push(Event(k, c, net))
      PROVE  Kept'
  BY <1>1, EventType, PushKeeps
<1>2. CASE Worker
  BY <1>2, TakeKeeps, DrainEndKeeps, FlushKeeps, QuietKeeps DEF Worker
<1>3. CASE Close
  BY <1>3, CloseKeeps
<1>4. CASE CloseReturns \/ Reloader \/ UNCHANGED svars
  BY <1>4, QuietKeeps
<1>5. ASSUME NEW k \in Key, Label(k) PROVE Kept'
  BY <1>5, LabelKeeps
<1>6. CASE StatsReset
  BY <1>6, ResetKeeps
<1>7. QED
  BY <1>1, <1>2, <1>3, <1>4, <1>5, <1>6 DEF Next

\* The invariant of the fingerprint store.
THEOREM StoreInvariant == Spec => []Kept
<1>1. Init => Kept
  <2>1. SUFFICES ASSUME Init PROVE Kept
    OBVIOUS
  <2>2. /\ history = [accepted |-> Zero, atClose |-> Zero, lost |-> Zero,
                      erased |-> Zero, dropped |-> 0, labels |-> {}, changes |-> 0]
        /\ events = <<>> /\ agg = Blank /\ table = Blank
        /\ run = "select" /\ closer = "open" /\ verdict = {} /\ bad = {}
        /\ reload = [pc |-> "wait", next |-> {}]
    BY <2>1 DEF Init
  <2>3. history \in Histories
    BY <2>2, BlankType DEF Histories
  <2>4. events \in Seq(Events) /\ Len(events) = 0 /\ \A x : Places(events, x) = {}
    BY <2>2, EmptySeq DEF Places
  <2>5. Cardinality(agg.keys) = 0 /\ IsFiniteSet(agg.keys)
    BY <2>2, BlankType, FS_EmptySet
  <2>6. TypeOK
    BY <2>2, <2>3, <2>4, <2>5, BlankType, StoreAssumption DEF TypeOK
  <2>7. \A x \in Cells : /\ history.accepted[x] = 0 /\ history.atClose[x] = 0
                         /\ history.lost[x] = 0 /\ history.erased[x] = 0
                         /\ agg.n[x] = 0 /\ table.n[x] = 0
                         /\ Cardinality(Places(events, x)) = 0
    BY <2>2, <2>4, BlankType, FS_EmptySet
  <2>8. Balanced /\ CloseSaw /\ BatchKnows
    BY <2>7 DEF Balanced, CloseSaw, BatchKnows, Settled
  <2>9. QED
    BY <2>2, <2>5, <2>6, <2>8 DEF Kept, BatchFinite, StopInOrder, DrainedAll
<1>2. QED
  BY <1>1, StepKeeps, PTL DEF Spec

\* The variables of the store always have their types, and a batch that is being
\* filled is below MaxBatch.
THEOREM StoreTypeCorrect == Spec => []TypeOK
<1>1. Kept => TypeOK
  BY DEF Kept
<1>2. QED
  BY <1>1, StoreInvariant, PTL

\* Every event that entered the channel is in exactly one place, through drops,
\* failed writes, resets and Close.
THEOREM ConservedHolds == Spec => []Conserved
<1>1. Kept => Conserved
  BY ConservedBalanced DEF Kept
<1>2. QED
  BY <1>1, StoreInvariant, PTL

\* When Close has returned, every event accepted before it was called is written,
\* reported as lost or reset.
THEOREM ClosedMeansWrittenHolds == Spec => []ClosedMeansWritten
<1>1. Kept => ClosedMeansWritten
  <2>1. SUFFICES ASSUME Kept, closer = "closed", NEW x \in Cells
                 PROVE  history.atClose[x] =< Settled(x)
    BY DEF ClosedMeansWritten, Settled
  <2>2. run = "done" /\ agg.keys = {}
    BY <2>1 DEF Kept, StopInOrder
  <2>3. agg.n[x] = 0
    BY <2>1, <2>2 DEF Kept, BatchKnows
  <2>4. history.atClose[x] =< agg.n[x] + Settled(x) /\ Settled(x) \in Nat
    BY <2>1, <2>2, Numbers DEF Kept, DrainedAll, Settled
  <2>5. QED
    BY <2>3, <2>4
<1>2. QED
  BY <1>1, StoreInvariant, PTL
==============================================================================
