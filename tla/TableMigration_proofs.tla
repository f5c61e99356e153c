------------------------- MODULE TableMigration_proofs -------------------------
(***************************************************************************)
(* Proofs about TableMigration, for any number of processes, pools of any  *)
(* size and any number of failing statements: an enabled store finds the   *)
(* table it writes to, a process loses its store only to a race or to a    *)
(* pool of one connection, and no table is left half made unnoticed.       *)
(***************************************************************************)
EXTENDS TableMigration, TLAPS

\* A process on its way through ensureTable.  Rows are kept only after the
\* first probe, and those of one probe at most; so the context ends for want
\* of a connection only in a pool of one.
OnItsWay(r) ==
  /\ r.conns <= 1
  /\ r.pc \in {"probe", "create", "reprobe"} => r.conns = 0
  /\ r.over => r.pool = 1 \/ r.faults # {}
  /\ r.over /\ r.pc = "probe" => "probe" \in r.faults
  /\ r.over /\ r.pc = "create" /\ r.stmt # 0 => trouble.creation
  /\ r.pc = "probe" => r.stmt = 0
  /\ r.pc = "create" => r.stmt # 4 /\ (dialect = "mysql" => r.stmt = 0)
  /\ r.pc = "create" /\ r.stmt \in {2, 3} => "verdict" \in table.indexes
  /\ r.pc = "create" /\ r.stmt = 3 => "last_seen" \in table.indexes

\* What a process has found out about the table stays true, whatever the others
\* do: that it is there, and that it is a new one or one that got the column.
\* An old table was old when the process started.
KnowsTable(r) ==
  /\ \/ r.pc \in {"reprobe", "column", "alter", "recheck", "store"}
     \/ r.pc = "create" /\ r.stmt # 0
     => table.exists
  /\ r.pc \in {"create", "reprobe", "store"} /\ table.exists =>
       table.allowed \/ "probe" \in r.faults
  /\ r.pc = "recheck" => table.allowed
  /\ r.pc \in {"probe", "column"} /\ table.exists /\ ~table.allowed => r.upgrade
  /\ r.pc = "alter" /\ ~r.over /\ r.faults = {} => r.upgrade
  /\ r.pc = "off" /\ r.faults = {} /\ r.pool # 1 => r.upgrade /\ table.allowed

\* Who makes the indexes of a table that lacks some has made the table sure.
HalfMade ==
  table.exists /\ table.indexes # Indexes =>
    trouble.creation \/ \E i \in Instance : inst[i].pc = "create" /\ inst[i].stmt # 0

IInv ==
  /\ TypeOK
  /\ \A i \in Instance : OnItsWay(inst[i]) /\ KnowsTable(inst[i])
  /\ table.exists \/ table.indexes = {}
  /\ HalfMade

------------------------------------------------------------------------------
(* One step of one process *)

\* What every step of process i leaves the others: the table only gains, a
\* new one has the column, and a creation that broke off stays known.
Advance(i) ==
  /\ dialect' = dialect
  /\ table' \in [exists : BOOLEAN, allowed : BOOLEAN, indexes : SUBSET Indexes]
  /\ table.exists => table'.exists
  /\ table.allowed => table'.allowed
  /\ table.indexes \subseteq table'.indexes
  /\ table'.exists => table.exists \/ table'.allowed
  /\ table'.exists \/ table'.indexes = {}
  /\ trouble' \in [faults : 0..MaxFaults, creation : BOOLEAN]
  /\ trouble.creation => trouble'.creation
  /\ inst' \in [Instance -> Process]
  /\ \A j \in Instance : j # i => inst'[j] = inst[j]

\* What it has to see to for itself.
Settles(i) ==
  /\ inst'[i].conns =< inst'[i].pool
  /\ inst'[i].pc \in Rest => inst'[i].conns = 0
  /\ OnItsWay(inst[i])'
  /\ KnowsTable(inst[i])'
  /\ inst[i].pc = "create" /\ inst[i].stmt # 0 =>
       \/ trouble'.creation
       \/ table'.indexes = Indexes
       \/ inst'[i].pc = "create" /\ inst'[i].stmt # 0
  /\ table'.exists /\ ~table.exists =>
       \/ trouble'.creation
       \/ table'.indexes = Indexes
       \/ inst'[i].pc = "create" /\ inst'[i].stmt # 0

\* A process that does nothing is not disturbed.
LEMMA OthersKeep ==
  ASSUME IInv, NEW i \in Instance, Advance(i), NEW j \in Instance, j # i
  PROVE  OnItsWay(inst[j])' /\ KnowsTable(inst[j])'
<1>1. inst'[j] = inst[j] /\ OnItsWay(inst[j]) /\ KnowsTable(inst[j])
  BY DEF Advance, IInv
<1>2. OnItsWay(inst[j])'
  BY <1>1 DEF Advance, OnItsWay
<1>3. KnowsTable(inst[j])'
  BY <1>1 DEF Advance, KnowsTable
<1>4. QED
  BY <1>2, <1>3

\* A table stays half made only while somebody answers for it.
LEMMA HalfMadeKept ==
  ASSUME IInv, NEW i \in Instance, Advance(i), Settles(i)
  PROVE  HalfMade'
<1> SUFFICES ASSUME table'.exists, table'.indexes # Indexes, ~trouble'.creation
             PROVE  \E k \in Instance : inst'[k].pc = "create" /\ inst'[k].stmt # 0
  BY DEF HalfMade, Advance
<1>1. CASE ~table.exists
  BY <1>1 DEF Settles
<1>2. CASE table.exists
  <2>1. table.indexes # Indexes
    BY DEF Advance
  <2>2. PICK k \in Instance : inst[k].pc = "create" /\ inst[k].stmt # 0
    BY <1>2, <2>1 DEF IInv, HalfMade, Advance
  <2>3. CASE k = i
    BY <2>2, <2>3 DEF Settles
  <2>4. CASE k # i
    BY <2>2, <2>4 DEF Advance
  <2>5. QED
    BY <2>3, <2>4
<1>3. QED
  BY <1>1, <1>2

\* So a step that does both keeps the invariant.
LEMMA StepKeepsInv ==
  ASSUME IInv, NEW i \in Instance, Advance(i), Settles(i)
  PROVE  IInv'
<1>1. \A j \in Instance : /\ inst'[j].conns =< inst'[j].pool
                          /\ inst'[j].pc \in Rest => inst'[j].conns = 0
  BY DEF IInv, TypeOK, Advance, Settles
<1>2. TypeOK'
  BY <1>1 DEF IInv, TypeOK, Advance
<1>3. \A j \in Instance : (OnItsWay(inst[j]) /\ KnowsTable(inst[j]))'
  BY OthersKeep DEF Settles
<1>4. QED
  BY <1>2, <1>3, HalfMadeKept DEF IInv, Advance

------------------------------------------------------------------------------
(* One statement *)

\* Process r has become q, which is at pc, whatever failed.
Moved(r, q, pc) ==
  /\ q \in Process
  /\ q.pc = pc /\ q.stmt = r.stmt /\ q.pool = r.pool /\ q.over = r.over
  /\ q.upgrade = r.upgrade
  /\ q.conns = IF pc \in Rest THEN 0 ELSE r.conns

\* What At does to a process, field by field.
LEMMA AtFields ==
  ASSUME NEW r \in Process, NEW pc \in Calls \cup Rest
  PROVE  Moved(r, At(r, pc), pc) /\ At(r, pc).faults = r.faults
<1> DEFINE c == IF pc \in Rest THEN 0 ELSE r.conns
           q == [r EXCEPT !.pc = pc, !.conns = c]
<1>1. c \in 0..2
  BY DEF Process
<1> HIDE DEF c
<1>2. /\ q \in Process
      /\ q.pc = pc /\ q.stmt = r.stmt /\ q.pool = r.pool /\ q.over = r.over
      /\ q.upgrade = r.upgrade /\ q.conns = c /\ q.faults = r.faults
  BY <1>1 DEF Process
<1>3. At(r, pc) = q
  BY DEF At, c
<1>4. QED
  BY <1>2, <1>3 DEF Moved, c

\* The database or the context has refused the statement of i, which is at pc.
Refused(i, pc) ==
  /\ Moved(inst[i], inst'[i], pc)
  /\ inst'[i].faults = inst[i].faults
  /\ trouble' = trouble

\* The statement of i has failed for a reason of its own.
Failed(i, pc) ==
  /\ ~inst[i].over
  /\ Moved(inst[i], inst'[i], pc)
  /\ inst'[i].faults = inst[i].faults \cup {inst[i].pc}
  /\ trouble' \in [faults : 0..MaxFaults, creation : BOOLEAN]
  /\ trouble.creation \/ inst[i].pc = "create" => trouble'.creation

\* The query of i has an answer, whose rows it keeps.
Answered(i, pc) ==
  /\ ~inst[i].over /\ inst[i].conns < inst[i].pool
  /\ inst'[i] \in Process
  /\ inst'[i].pc = pc
  /\ inst'[i].stmt = inst[i].stmt /\ inst'[i].pool = inst[i].pool
  /\ inst'[i].over = inst[i].over /\ inst'[i].upgrade = inst[i].upgrade
  /\ inst'[i].faults = inst[i].faults
  /\ inst'[i].conns = IF pc \in Rest THEN 0 ELSE inst[i].conns + 1
  /\ trouble' = trouble

\* The three ways a statement ends: it is done; the database or the context
\* refuses it and nothing has changed; it fails for a reason of its own, and
\* its effect may have taken place.
LEMMA StatementEnds ==
  ASSUME TypeOK, NEW i \in Instance, inst[i].pc \in Calls, NEW otherwise \in Calls \cup Rest,
         NEW STATE works, NEW STATE effect, NEW STATE done,
         Statement(i, works, effect, done, otherwise)
  PROVE  /\ inst' = [inst EXCEPT ![i] = inst'[i]]
         /\ \/ /\ ~inst[i].over /\ inst[i].conns < inst[i].pool /\ works
               /\ table' = effect /\ inst'[i] = done /\ trouble' = trouble
            \/ /\ inst[i].over \/ ~works
               /\ table' = table
               /\ Refused(i, otherwise)
            \/ /\ table' = table \/ (works /\ table' = effect)
               /\ Failed(i, otherwise)
<1> DEFINE faulty == [inst[i] EXCEPT !.faults = @ \cup {inst[i].pc}]
<1>1. inst[i] \in Process
  BY DEF TypeOK
<1>2. CASE /\ Free(i) /\ works
           /\ table' = effect
           /\ inst' = [inst EXCEPT ![i] = done]
           /\ UNCHANGED trouble
  BY <1>2 DEF TypeOK, Free
<1>3. CASE /\ inst[i].over \/ (Free(i) /\ ~works)
           /\ inst' = [inst EXCEPT ![i] = At(@, otherwise)]
           /\ UNCHANGED <<table, trouble>>
  <2>1. inst'[i] = At(inst[i], otherwise) /\ inst' = [inst EXCEPT ![i] = inst'[i]]
    BY <1>3 DEF TypeOK
  <2>2. Moved(inst[i], inst'[i], otherwise) /\ inst'[i].faults = inst[i].faults
    BY <1>1, <2>1, AtFields
  <2>3. QED
    BY <1>3, <2>1, <2>2 DEF Refused
<1>4. CASE /\ trouble.faults < MaxFaults
           /\ Free(i)
           /\ table' = table \/ (works /\ table' = effect)
           /\ inst' = [inst EXCEPT ![i] = At(faulty, otherwise)]
           /\ trouble' = [faults |-> trouble.faults + 1,
                          creation |-> trouble.creation \/ inst[i].pc = "create"]
  <2>1. inst'[i] = At(faulty, otherwise) /\ inst' = [inst EXCEPT ![i] = inst'[i]]
    BY <1>4 DEF TypeOK
  <2>2. /\ faulty \in Process
        /\ faulty.pc = inst[i].pc /\ faulty.stmt = inst[i].stmt
        /\ faulty.pool = inst[i].pool /\ faulty.over = inst[i].over
        /\ faulty.upgrade = inst[i].upgrade /\ faulty.conns = inst[i].conns
        /\ faulty.faults = inst[i].faults \cup {inst[i].pc}
    BY <1>1 DEF Process
  <2> HIDE DEF faulty
  <2>3. Moved(faulty, At(faulty, otherwise), otherwise) /\ At(faulty, otherwise).faults = faulty.faults
    BY <2>2, AtFields
  <2>4. /\ Moved(inst[i], inst'[i], otherwise)
        /\ inst'[i].faults = inst[i].faults \cup {inst[i].pc}
    BY <2>1, <2>2, <2>3 DEF Moved
  <2>5. /\ trouble' \in [faults : 0..MaxFaults, creation : BOOLEAN]
        /\ trouble.creation \/ inst[i].pc = "create" => trouble'.creation
    <3>1. trouble.faults + 1 \in 0..MaxFaults
      BY <1>4, MigrationAssumption DEF TypeOK
    <3>2. (trouble.creation \/ inst[i].pc = "create") \in BOOLEAN
      OBVIOUS
    <3>3. trouble'.creation = (trouble.creation \/ inst[i].pc = "create")
      BY <1>4
    <3>4. QED
      BY <1>4, <3>1, <3>2, <3>3
  <2>6. ~inst[i].over
    BY <1>4 DEF Free
  <2>7. table' = table \/ (works /\ table' = effect)
    BY <1>4
  <2>8. inst' = [inst EXCEPT ![i] = inst'[i]]
    BY <2>1
  <2>9. QED
    BY <2>4, <2>5, <2>6, <2>7, <2>8 DEF Failed
<1>5. QED
  BY <1>2, <1>3, <1>4 DEF Statement

\* A statement whose effect only adds to the table leaves the others theirs.
LEMMA StatementAdvances ==
  ASSUME TypeOK, table.exists \/ table.indexes = {}, NEW i \in Instance, inst[i].pc \in Calls, NEW otherwise \in Calls \cup Rest,
         NEW STATE works, NEW STATE effect, NEW STATE done,
         Statement(i, works, effect, done, otherwise), dialect' = dialect,
         done \in Process,
         works => /\ effect \in [exists : BOOLEAN, allowed : BOOLEAN, indexes : SUBSET Indexes]
                  /\ table.exists => effect.exists
                  /\ table.allowed => effect.allowed
                  /\ table.indexes \subseteq effect.indexes
                  /\ effect.exists => table.exists \/ effect.allowed
                  /\ effect.exists \/ effect.indexes = {}
  PROVE  Advance(i)
<1>1. /\ inst' = [inst EXCEPT ![i] = inst'[i]] /\ inst'[i] \in Process
      /\ trouble' \in [faults : 0..MaxFaults, creation : BOOLEAN]
      /\ trouble.creation => trouble'.creation
      /\ table' = table \/ (works /\ table' = effect)
  BY StatementEnds DEF Moved, Refused, Failed, TypeOK
<1>2. /\ inst' \in [Instance -> Process]
      /\ \A j \in Instance : j # i => inst'[j] = inst[j]
  BY <1>1 DEF TypeOK
<1>3. CASE table' = table
  BY <1>1, <1>2, <1>3 DEF Advance, TypeOK
<1>4. CASE works /\ table' = effect
  BY <1>1, <1>2, <1>4 DEF Advance
<1>5. QED
  BY <1>1, <1>3, <1>4

\* How a query ends: it keeps the rows, of a probe it can pay for.
LEMMA QueryEnds ==
  ASSUME IInv, NEW i \in Instance, inst[i].pc \in Calls,
         NEW next \in Calls \cup Rest, NEW otherwise \in Calls \cup Rest, NEW STATE works,
         Query(i, works, next, otherwise), dialect' = dialect
  PROVE  /\ Advance(i)
         /\ table' = table
         /\ \/ works /\ Answered(i, next)
            \/ (inst[i].over \/ ~works) /\ Refused(i, otherwise)
            \/ Failed(i, otherwise)
<1> DEFINE r == [inst[i] EXCEPT !.conns = @ + 1]
           done == At(r, next)
<1>1. /\ inst[i] \in Process /\ inst[i].conns <= 1
      /\ inst[i].conns \in Nat /\ inst[i].pool \in Nat
  <2>1. inst[i] \in Process
    BY DEF IInv, TypeOK
  <2>2. inst[i].conns \in 0..2 /\ inst[i].pool \in Pools
    BY <2>1 DEF Process
  <2>3. inst[i].conns <= 1
    BY DEF IInv, OnItsWay
  <2>4. inst[i].conns \in Nat
    BY <2>2
  <2>5. inst[i].pool \in Nat
    BY <2>2, MigrationAssumption DEF MigrationAssumption
  <2>6. QED
    BY <2>1, <2>3, <2>4, <2>5
<1>2. /\ r \in Process /\ r.conns = inst[i].conns + 1
      /\ r.stmt = inst[i].stmt /\ r.pool = inst[i].pool /\ r.over = inst[i].over
      /\ r.upgrade = inst[i].upgrade /\ r.faults = inst[i].faults
  <2>1. inst[i].conns + 1 \in 0..2
    BY <1>1
  <2>2. QED
    BY <1>1, <2>1 DEF Process
<1>3. Statement(i, works, table, done, otherwise)
  BY DEF Query
<1> HIDE DEF r
<1>4. Moved(r, done, next) /\ done.faults = r.faults
  BY <1>2, AtFields
<1>5. /\ done \in Process /\ done.pc = next /\ done.stmt = inst[i].stmt
      /\ done.pool = inst[i].pool /\ done.over = inst[i].over
      /\ done.upgrade = inst[i].upgrade /\ done.faults = inst[i].faults
      /\ done.conns = IF next \in Rest THEN 0 ELSE inst[i].conns + 1
  BY <1>2, <1>4 DEF Moved
<1> HIDE DEF done
<1>6. TypeOK /\ (table.exists \/ table.indexes = {})
  BY DEF IInv
<1>7. table \in [exists : BOOLEAN, allowed : BOOLEAN, indexes : SUBSET Indexes]
  BY <1>6 DEF TypeOK
<1>8. Advance(i)
  BY <1>3, <1>5, <1>6, <1>7, StatementAdvances
<1>9. table' = table
  BY <1>3, <1>6, StatementEnds
<1>10. QED
  BY <1>3, <1>5, <1>6, <1>8, <1>9, StatementEnds DEF Answered

\* What the invariant says of the numbers of a process.
LEMMA ProcessNumbers ==
  ASSUME IInv, NEW i \in Instance
  PROVE  /\ inst[i] \in Process
         /\ inst[i].conns \in {0, 1} /\ inst[i].pool \in Nat \ {0}
         /\ inst[i].stmt \in 0..4
         /\ inst[i].conns <= inst[i].pool
<1>1. inst[i] \in Process /\ inst[i].conns <= inst[i].pool
  BY DEF IInv, TypeOK
<1>2. /\ inst[i].conns \in 0..2 /\ inst[i].pool \in Pools /\ inst[i].stmt \in 0..4
  BY <1>1 DEF Process
<1>3. inst[i].conns <= 1
  BY DEF IInv, OnItsWay
<1>4. inst[i].conns \in {0, 1}
  BY <1>2, <1>3
<1>5. inst[i].pool \in Nat \ {0}
  BY <1>2, MigrationAssumption DEF MigrationAssumption
<1>6. QED
  BY <1>1, <1>2, <1>4, <1>5

\* A statement that is not done leaves the numbers of the process in order,
\* unless it goes on to a place where rows matter.
LEMMA UndoneNumbers ==
  ASSUME IInv, NEW i \in Instance, NEW pc, Refused(i, pc) \/ Failed(i, pc)
  PROVE  /\ inst'[i].conns =< inst'[i].pool
         /\ inst'[i].pc = pc
         /\ inst'[i].stmt = inst[i].stmt /\ inst'[i].pool = inst[i].pool
         /\ inst'[i].over = inst[i].over /\ inst'[i].upgrade = inst[i].upgrade
         /\ inst'[i].conns \in {0, inst[i].conns}
         /\ pc \in Rest => inst'[i].conns = 0
BY ProcessNumbers DEF Refused, Failed, Moved

\* A process that gives up has nothing left to see to but the reason.
LEMMA GivesUp ==
  ASSUME IInv, NEW i \in Instance, Advance(i), Refused(i, "off") \/ Failed(i, "off"),
         \/ trouble'.creation
         \/ table'.exists = table.exists /\ (inst[i].pc # "create" \/ inst[i].stmt = 0),
         inst'[i].faults = {} /\ inst'[i].pool # 1 => inst'[i].upgrade /\ table'.allowed
  PROVE  IInv'
<1>1. /\ inst'[i].conns =< inst'[i].pool /\ inst'[i].conns = 0
      /\ inst'[i].pc = "off" /\ inst'[i].pool = inst[i].pool
      /\ inst'[i].over = inst[i].over
  BY UndoneNumbers DEF Rest
<1>2. OnItsWay(inst[i])
  BY DEF IInv
<1>3. inst[i].faults \subseteq inst'[i].faults
  BY DEF Refused, Failed
<1>4. inst'[i].over => inst'[i].pool = 1 \/ inst'[i].faults # {}
  BY <1>1, <1>2, <1>3 DEF OnItsWay
<1>5. OnItsWay(inst[i])'
  BY <1>1, <1>4 DEF OnItsWay
<1>6. KnowsTable(inst[i])'
  BY <1>1 DEF KnowsTable
<1>7. Settles(i)
  BY <1>1, <1>5, <1>6 DEF Settles
<1>8. QED
  BY <1>7, StepKeepsInv

------------------------------------------------------------------------------
(* ensureTable *)

\* Probe, the first look.
LEMMA ProbeStep ==
  ASSUME IInv, NEW i \in Instance, Probe(i), dialect' = dialect
  PROVE  IInv'
<1>1. /\ inst[i].pc = "probe" /\ inst[i].pc \in Calls
      /\ "column" \in Calls \cup Rest /\ "create" \in Calls \cup Rest
      /\ "column" \notin Rest /\ "create" \notin Rest
      /\ Query(i, table.exists, "column", "create")
  BY DEF Probe, Calls, Rest
<1>2. /\ Advance(i)
      /\ table' = table
      /\ \/ table.exists /\ Answered(i, "column")
         \/ (inst[i].over \/ ~table.exists) /\ Refused(i, "create")
         \/ Failed(i, "create")
  BY <1>1, QueryEnds
<1>3. OnItsWay(inst[i]) /\ KnowsTable(inst[i]) /\ inst[i].conns = 0
  BY <1>1 DEF IInv, OnItsWay
<1>4. inst[i].pool \in Nat \ {0} /\ inst[i].conns <= inst[i].pool
  BY ProcessNumbers
<1>5. CASE table.exists /\ Answered(i, "column")
  <2>1. /\ inst'[i].pc = "column" /\ inst'[i].conns = 1 /\ ~inst'[i].over
        /\ inst'[i].pool = inst[i].pool /\ inst'[i].upgrade = inst[i].upgrade
    BY <1>1, <1>3, <1>5 DEF Answered
  <2>2. OnItsWay(inst[i])'
    BY <2>1 DEF OnItsWay
  <2>3. KnowsTable(inst[i])'
    BY <1>1, <1>2, <1>3, <1>5, <2>1 DEF KnowsTable
  <2>4. Settles(i)
    BY <1>1, <1>2, <1>4, <2>1, <2>2, <2>3 DEF Settles
  <2>5. QED
    BY <1>2, <2>4, StepKeepsInv
<1>6. CASE \/ (inst[i].over \/ ~table.exists) /\ Refused(i, "create")
           \/ Failed(i, "create")
  <2>1. /\ inst'[i].pc = "create" /\ inst'[i].conns = 0 /\ inst'[i].stmt = 0
        /\ inst'[i].over = inst[i].over /\ inst'[i].pool = inst[i].pool
        /\ inst'[i].conns <= inst'[i].pool
    <3>1. inst[i].stmt = 0
      BY <1>1, <1>3 DEF OnItsWay
    <3>2. QED
      BY <1>3, <1>6, <3>1, UndoneNumbers
  <2>2. /\ inst[i].faults \subseteq inst'[i].faults
        /\ "probe" \in inst'[i].faults \/ (inst'[i].faults = inst[i].faults /\ (inst[i].over \/ ~table.exists))
    BY <1>1, <1>6 DEF Refused, Failed
  <2>3. inst'[i].over => inst'[i].pool = 1 \/ inst'[i].faults # {}
    BY <1>3, <2>1, <2>2 DEF OnItsWay
  <2>4. OnItsWay(inst[i])'
    BY <2>1, <2>3 DEF OnItsWay
  <2>5. table.exists => "probe" \in inst'[i].faults
    BY <1>1, <1>3, <2>2 DEF OnItsWay
  <2>6. KnowsTable(inst[i])'
    BY <1>2, <2>1, <2>5 DEF KnowsTable
  <2>7. Settles(i)
    BY <1>1, <1>2, <2>1, <2>4, <2>6 DEF Settles, Rest
  <2>8. QED
    BY <1>2, <2>7, StepKeepsInv
<1>7. QED
  BY <1>2, <1>5, <1>6

\* What a statement of SchemaFor does: the table is there after the first, with
\* the column if it was not there before, and each of the others adds its index.
LEMMA SchemaEffect ==
  ASSUME NEW n \in 1..4, dialect = "mysql" => n = 1,
         table \in [exists : BOOLEAN, allowed : BOOLEAN, indexes : SUBSET Indexes],
         n # 1 => table.exists,
         table.exists \/ table.indexes = {}
  PROVE  /\ SchemaFor[n] \in [exists : BOOLEAN, allowed : BOOLEAN, indexes : SUBSET Indexes]
         /\ SchemaFor[n].exists
         /\ table.exists => SchemaFor[n].allowed = table.allowed
         /\ ~table.exists => SchemaFor[n].allowed
         /\ ~table.exists /\ dialect = "mysql" => SchemaFor[n].indexes = Indexes
         /\ table.indexes \subseteq SchemaFor[n].indexes
         /\ n = 2 => "verdict" \in SchemaFor[n].indexes
         /\ n = 3 => "last_seen" \in SchemaFor[n].indexes
         /\ n = 4 => "family" \in SchemaFor[n].indexes
         /\ n = Len(SchemaFor) <=> dialect = "mysql" \/ n = 4
<1> USE DEF SchemaFor
<1>1. CASE n = 1
  <2>1. SchemaFor[n] = CreateTable
    BY <1>1
  <2>2. CreateTable.exists /\ table.indexes \subseteq CreateTable.indexes
    BY DEF CreateTable, Complete
  <2>3. /\ CreateTable \in [exists : BOOLEAN, allowed : BOOLEAN, indexes : SUBSET Indexes]
        /\ table.exists => CreateTable.allowed = table.allowed
        /\ ~table.exists => CreateTable.allowed
        /\ ~table.exists /\ dialect = "mysql" => CreateTable.indexes = Indexes
    BY DEF CreateTable, Complete
  <2>4. n = Len(SchemaFor) <=> dialect = "mysql" \/ n = 4
    BY <1>1
  <2>5. QED
    BY <1>1, <2>1, <2>2, <2>3, <2>4
<1>2. CASE n # 1
  <2>1. dialect # "mysql" /\ table.exists
    BY <1>2
  <2>2. PICK x \in Indexes : /\ SchemaFor[n] = CreateIndex(x)
                             /\ n = 2 => x = "verdict"
                             /\ n = 3 => x = "last_seen"
                             /\ n = 4 => x = "family"
    <3>1. CASE n = 2
      BY <2>1, <3>1 DEF Indexes
    <3>2. CASE n = 3
      BY <2>1, <3>2 DEF Indexes
    <3>3. CASE n = 4
      BY <2>1, <3>3 DEF Indexes
    <3>4. QED
      BY <1>2, <3>1, <3>2, <3>3
  <2>3. /\ CreateIndex(x) \in [exists : BOOLEAN, allowed : BOOLEAN, indexes : SUBSET Indexes]
        /\ CreateIndex(x).exists /\ CreateIndex(x).allowed = table.allowed
        /\ CreateIndex(x).indexes = table.indexes \cup {x}
    BY <2>1 DEF CreateIndex
  <2>4. n = Len(SchemaFor) <=> dialect = "mysql" \/ n = 4
    BY <2>1
  <2>5. QED
    BY <2>1, <2>2, <2>3, <2>4
<1>3. QED
  BY <1>1, <1>2

\* Create, one statement of the loop.
LEMMA CreateStep ==
  ASSUME IInv, NEW i \in Instance, Create(i), dialect' = dialect
  PROVE  IInv'
<1> DEFINE n == inst[i].stmt + 1
           next == IF n = Len(SchemaFor) THEN "reprobe" ELSE "create"
           done == [At(inst[i], next) EXCEPT !.stmt = n]
<1>1. /\ inst[i].pc = "create" /\ inst[i].pc \in Calls
      /\ "off" \in Calls \cup Rest /\ "off" \in Rest
      /\ next \in Calls \cup Rest /\ next \notin Rest
      /\ Statement(i, TRUE, SchemaFor[n], done, "off")
  BY DEF Create, Calls, Rest
<1>2. /\ TypeOK /\ (table.exists \/ table.indexes = {})
      /\ OnItsWay(inst[i]) /\ KnowsTable(inst[i])
  BY DEF IInv
<1>3. inst[i].stmt \in 0..4 /\ inst[i].pool \in Nat \ {0} /\ inst[i] \in Process
  BY ProcessNumbers
<1>4. /\ inst[i].stmt \in 0..3 /\ n \in 1..4 /\ (n = 1 <=> inst[i].stmt = 0)
      /\ dialect = "mysql" => n = 1
      /\ n # 1 => table.exists
      /\ inst[i].conns = 0
  <2>1. /\ inst[i].stmt # 4 /\ (dialect = "mysql" => inst[i].stmt = 0)
        /\ inst[i].conns = 0
        /\ inst[i].stmt # 0 => table.exists
    BY <1>1, <1>2 DEF OnItsWay, KnowsTable
  <2>2. QED
    BY <1>3, <2>1
<1>5. table \in [exists : BOOLEAN, allowed : BOOLEAN, indexes : SUBSET Indexes]
  BY <1>2 DEF TypeOK
<1>6. /\ done \in Process /\ done.pc = next /\ done.stmt = n
      /\ done.pool = inst[i].pool /\ done.over = inst[i].over
      /\ done.upgrade = inst[i].upgrade /\ done.conns = 0 /\ done.faults = inst[i].faults
  <2>1. Moved(inst[i], At(inst[i], next), next) /\ At(inst[i], next).faults = inst[i].faults
    BY <1>1, <1>3, AtFields
  <2>2. /\ At(inst[i], next) \in Process /\ At(inst[i], next).pc = next
        /\ At(inst[i], next).pool = inst[i].pool /\ At(inst[i], next).over = inst[i].over
        /\ At(inst[i], next).upgrade = inst[i].upgrade /\ At(inst[i], next).conns = 0
    BY <1>1, <1>4, <2>1 DEF Moved
  <2>3. n \in 0..4
    BY <1>4
  <2> HIDE DEF n, next
  <2>4. QED
    BY <2>1, <2>2, <2>3 DEF Process
<1> HIDE DEF n, next, done
<1>7. /\ SchemaFor[n] \in [exists : BOOLEAN, allowed : BOOLEAN, indexes : SUBSET Indexes]
      /\ SchemaFor[n].exists
      /\ table.exists => SchemaFor[n].allowed = table.allowed
      /\ ~table.exists => SchemaFor[n].allowed
      /\ ~table.exists /\ dialect = "mysql" => SchemaFor[n].indexes = Indexes
      /\ table.indexes \subseteq SchemaFor[n].indexes
      /\ n = 2 => "verdict" \in SchemaFor[n].indexes
      /\ n = 3 => "last_seen" \in SchemaFor[n].indexes
      /\ n = 4 => "family" \in SchemaFor[n].indexes
      /\ n = Len(SchemaFor) <=> dialect = "mysql" \/ n = 4
  BY <1>2, <1>4, <1>5, SchemaEffect
<1>9. Advance(i)
  BY <1>1, <1>2, <1>6, <1>7, StatementAdvances
<1>10. \/ /\ ~inst[i].over
          /\ table' = SchemaFor[n] /\ inst'[i] = done /\ trouble' = trouble
       \/ /\ inst[i].over /\ table' = table /\ Refused(i, "off")
       \/ Failed(i, "off")
  BY <1>1, <1>2, StatementEnds
<1>11. CASE /\ ~inst[i].over
            /\ table' = SchemaFor[n] /\ inst'[i] = done /\ trouble' = trouble
  <2>1. /\ inst'[i].pc = next /\ inst'[i].stmt = n /\ inst'[i].conns = 0
        /\ ~inst'[i].over /\ inst'[i].faults = inst[i].faults
        /\ inst'[i].pool = inst[i].pool /\ inst'[i].conns <= inst'[i].pool
    BY <1>3, <1>6, <1>11
  <2>2. table'.allowed \/ "probe" \in inst'[i].faults
    BY <1>1, <1>2, <1>7, <1>11, <2>1 DEF KnowsTable
  <2>3. /\ n \in {3, 4} => "verdict" \in table'.indexes
        /\ n = 4 => "last_seen" \in table'.indexes
    <3>1. /\ inst[i].stmt \in {2, 3} => "verdict" \in table.indexes
          /\ inst[i].stmt = 3 => "last_seen" \in table.indexes
      BY <1>1, <1>2 DEF OnItsWay
    <3>2. (n \in {3, 4} => inst[i].stmt \in {2, 3}) /\ (n = 4 => inst[i].stmt = 3)
      BY <1>3 DEF n
    <3>3. QED
      BY <1>7, <1>11, <3>1, <3>2
  <2>4. CASE n = Len(SchemaFor)
    <3>1. inst'[i].pc = "reprobe"
      BY <2>1, <2>4 DEF next
    <3>2. OnItsWay(inst[i])'
      BY <2>1, <3>1 DEF OnItsWay
    <3>3. KnowsTable(inst[i])'
      BY <1>7, <1>11, <2>2, <3>1 DEF KnowsTable
    <3>4. n # 1 => table'.indexes = Indexes
      <4>1. n # 1 => n = 4
        BY <1>4, <1>7, <2>4
      <4>2. n = 4 => {"verdict", "last_seen", "family"} \subseteq table'.indexes
        BY <1>7, <1>11, <2>3
      <4>3. QED
        BY <1>7, <1>11, <4>1, <4>2 DEF Indexes
    <3>5. n = 1 /\ ~table.exists => table'.indexes = Indexes
      BY <1>7, <1>11, <2>4
    <3>6. Settles(i)
      BY <1>4, <2>1, <3>1, <3>2, <3>3, <3>4, <3>5 DEF Settles, Rest
    <3>7. QED
      BY <1>9, <3>6, StepKeepsInv
  <2>5. CASE n # Len(SchemaFor)
    <3>1. inst'[i].pc = "create" /\ n \in {1, 2, 3} /\ dialect # "mysql"
      BY <1>4, <1>7, <2>1, <2>5 DEF next
    <3>2. OnItsWay(inst[i])'
      BY <1>7, <1>9, <1>11, <2>1, <2>3, <3>1 DEF OnItsWay, Advance
    <3>3. KnowsTable(inst[i])'
      BY <1>7, <1>11, <2>2, <3>1 DEF KnowsTable
    <3>4. Settles(i)
      BY <2>1, <3>1, <3>2, <3>3 DEF Settles, Rest
    <3>5. QED
      BY <1>9, <3>4, StepKeepsInv
  <2>6. QED
    BY <2>4, <2>5
<1>12. CASE inst[i].over /\ table' = table /\ Refused(i, "off")
  <2>1. inst[i].stmt # 0 => trouble'.creation
    BY <1>1, <1>2, <1>12 DEF OnItsWay, Refused
  <2>2. ~(inst'[i].faults = {} /\ inst'[i].pool # 1)
    BY <1>2, <1>12, UndoneNumbers DEF OnItsWay, Refused
  <2>3. QED
    BY <1>9, <1>12, <2>1, <2>2, GivesUp
<1>13. CASE Failed(i, "off")
  <2>1. trouble'.creation /\ inst'[i].faults # {}
    BY <1>1, <1>13 DEF Failed
  <2>2. QED
    BY <1>9, <1>13, <2>1, GivesUp
<1>14. QED
  BY <1>10, <1>11, <1>12, <1>13

\* A process whose query was answered for good has its store.
LEMMA StoreOpens ==
  ASSUME IInv, NEW i \in Instance, Advance(i), table' = table, Answered(i, "store"),
         inst[i].pc # "create",
         table.exists, table.allowed \/ "probe" \in inst[i].faults
  PROVE  IInv'
<1>1. /\ inst'[i].pc = "store" /\ inst'[i].conns = 0 /\ ~inst'[i].over
      /\ inst'[i].faults = inst[i].faults /\ inst'[i].pool = inst[i].pool
  BY DEF Answered, Rest
<1>2. inst'[i].conns <= inst'[i].pool
  BY <1>1, ProcessNumbers
<1>3. OnItsWay(inst[i])'
  BY <1>1 DEF OnItsWay
<1>4. KnowsTable(inst[i])'
  BY <1>1 DEF KnowsTable
<1>5. Settles(i)
  BY <1>1, <1>2, <1>3, <1>4 DEF Settles
<1>6. QED
  BY <1>5, StepKeepsInv

\* One that gives up without a failure of its own, in a pool that is large
\* enough, was not out of time.
LEMMA NotOver ==
  ASSUME IInv, NEW i \in Instance, Refused(i, "off") \/ Failed(i, "off"),
         inst'[i].faults = {}, inst'[i].pool # 1
  PROVE  Refused(i, "off") /\ ~inst[i].over /\ inst[i].faults = {} /\ inst[i].pool # 1
<1>1. Refused(i, "off")
  BY DEF Failed
<1>2. inst[i].faults = {} /\ inst[i].pool # 1
  BY <1>1, UndoneNumbers DEF Refused
<1>3. QED
  BY <1>1, <1>2 DEF IInv, OnItsWay

\* Reprobe, after the creation.
LEMMA ReprobeStep ==
  ASSUME IInv, NEW i \in Instance, Reprobe(i), dialect' = dialect
  PROVE  IInv'
<1>1. /\ inst[i].pc = "reprobe" /\ inst[i].pc \in Calls
      /\ "store" \in Calls \cup Rest /\ "off" \in Calls \cup Rest
      /\ Query(i, table.exists, "store", "off")
  BY DEF Reprobe, Calls, Rest
<1>2. /\ Advance(i)
      /\ table' = table
      /\ \/ table.exists /\ Answered(i, "store")
         \/ (inst[i].over \/ ~table.exists) /\ Refused(i, "off")
         \/ Failed(i, "off")
  BY <1>1, QueryEnds
<1>3. table.exists /\ (table.allowed \/ "probe" \in inst[i].faults)
  BY <1>1 DEF IInv, KnowsTable
<1>4. CASE Answered(i, "store")
  BY <1>1, <1>2, <1>3, <1>4, StoreOpens
<1>5. CASE /\ (inst[i].over /\ Refused(i, "off")) \/ Failed(i, "off")
  <2>1. ~(inst'[i].faults = {} /\ inst'[i].pool # 1)
    BY <1>5, NotOver DEF Failed
  <2>2. QED
    BY <1>1, <1>2, <1>5, <2>1, GivesUp
<1>6. QED
  BY <1>2, <1>3, <1>4, <1>5

------------------------------------------------------------------------------
(* ensureColumn *)

\* ProbeColumn, the look for the column.
LEMMA ProbeColumnStep ==
  ASSUME IInv, NEW i \in Instance, ProbeColumn(i), dialect' = dialect
  PROVE  IInv'
<1>1. /\ inst[i].pc = "column" /\ inst[i].pc \in Calls
      /\ "store" \in Calls \cup Rest /\ "alter" \in Calls \cup Rest /\ "alter" \notin Rest
      /\ Query(i, table.allowed, "store", "alter")
  BY DEF ProbeColumn, Calls, Rest
<1>2. /\ Advance(i)
      /\ table' = table
      /\ \/ table.allowed /\ Answered(i, "store")
         \/ (inst[i].over \/ ~table.allowed) /\ Refused(i, "alter")
         \/ Failed(i, "alter")
  BY <1>1, QueryEnds
<1>3. OnItsWay(inst[i]) /\ KnowsTable(inst[i]) /\ table.exists
  BY <1>1 DEF IInv, KnowsTable
<1>4. CASE table.allowed /\ Answered(i, "store")
  BY <1>1, <1>2, <1>3, <1>4, StoreOpens
<1>5. CASE \/ (inst[i].over \/ ~table.allowed) /\ Refused(i, "alter")
           \/ Failed(i, "alter")
  <2>1. /\ inst'[i].pc = "alter" /\ inst'[i].conns \in {0, inst[i].conns}
        /\ inst'[i].over = inst[i].over /\ inst'[i].pool = inst[i].pool
        /\ inst'[i].upgrade = inst[i].upgrade
        /\ inst'[i].conns <= inst'[i].pool
    BY <1>5, UndoneNumbers
  <2>2. inst[i].faults \subseteq inst'[i].faults
    BY <1>5 DEF Refused, Failed
  <2>3. inst'[i].over => inst'[i].pool = 1 \/ inst'[i].faults # {}
    BY <1>3, <2>1, <2>2 DEF OnItsWay
  <2>4. inst'[i].conns <= 1
    BY <2>1, ProcessNumbers
  <2>5. OnItsWay(inst[i])'
    BY <2>1, <2>3, <2>4 DEF OnItsWay
  <2>6. ~inst'[i].over /\ inst'[i].faults = {} => inst'[i].upgrade
    <3>1. CASE Failed(i, "alter")
      BY <1>1, <3>1 DEF Failed
    <3>2. CASE inst[i].over
      BY <2>1, <3>2
    <3>3. CASE ~table.allowed
      BY <1>1, <1>3, <2>1, <3>3 DEF KnowsTable
    <3>4. QED
      BY <1>5, <3>1, <3>2, <3>3
  <2>7. KnowsTable(inst[i])'
    BY <1>2, <1>3, <2>1, <2>6 DEF KnowsTable
  <2>8. Settles(i)
    BY <1>1, <1>2, <2>1, <2>5, <2>7 DEF Settles, Rest
  <2>9. QED
    BY <1>2, <2>8, StepKeepsInv
<1>6. QED
  BY <1>2, <1>4, <1>5

\* Alter adds the column, or finds that another process has.
LEMMA AlterStep ==
  ASSUME IInv, NEW i \in Instance, Alter(i), dialect' = dialect
  PROVE  IInv'
<1> DEFINE effect == [table EXCEPT !.allowed = TRUE]
           done == At(inst[i], "recheck")
<1>1. /\ inst[i].pc = "alter" /\ inst[i].pc \in Calls
      /\ "recheck" \in Calls \cup Rest /\ "recheck" \notin Rest /\ "off" \in Calls \cup Rest
      /\ Statement(i, ~table.allowed, effect, done, "off")
  BY DEF Alter, Calls, Rest
<1>2. /\ TypeOK /\ (table.exists \/ table.indexes = {}) /\ table.exists
      /\ OnItsWay(inst[i]) /\ KnowsTable(inst[i]) /\ inst[i] \in Process
  BY <1>1, ProcessNumbers DEF IInv, KnowsTable
<1>3. /\ effect \in [exists : BOOLEAN, allowed : BOOLEAN, indexes : SUBSET Indexes]
      /\ effect.exists = table.exists /\ effect.allowed /\ effect.indexes = table.indexes
  BY <1>2 DEF TypeOK
<1>4. Moved(inst[i], done, "recheck") /\ done.faults = inst[i].faults
  BY <1>1, <1>2, AtFields
<1>5. done \in Process
  BY <1>4 DEF Moved
<1> HIDE DEF effect, done
<1>6. Advance(i)
  BY <1>1, <1>2, <1>3, <1>5, StatementAdvances
<1>7. \/ /\ ~inst[i].over /\ ~table.allowed
         /\ table' = effect /\ inst'[i] = done /\ trouble' = trouble
      \/ /\ inst[i].over \/ table.allowed
         /\ table' = table /\ Refused(i, "off")
      \/ /\ table' = table \/ table' = effect
         /\ Failed(i, "off")
  BY <1>1, <1>2, StatementEnds
<1>8. CASE /\ ~inst[i].over /\ ~table.allowed
           /\ table' = effect /\ inst'[i] = done /\ trouble' = trouble
  <2>1. /\ inst'[i].pc = "recheck" /\ ~inst'[i].over
        /\ inst'[i].conns = inst[i].conns /\ inst'[i].pool = inst[i].pool
    BY <1>1, <1>4, <1>8 DEF Moved
  <2>2. inst'[i].conns <= 1 /\ inst'[i].conns <= inst'[i].pool
    BY <2>1, ProcessNumbers
  <2>3. OnItsWay(inst[i])'
    BY <2>1, <2>2 DEF OnItsWay
  <2>4. KnowsTable(inst[i])'
    BY <1>2, <1>3, <1>8, <2>1 DEF KnowsTable
  <2>5. Settles(i)
    BY <1>1, <1>2, <2>1, <2>2, <2>3, <2>4 DEF Settles, Rest
  <2>6. QED
    BY <1>6, <2>5, StepKeepsInv
<1>9. CASE /\ inst[i].over \/ table.allowed
           /\ table' = table /\ Refused(i, "off")
  <2>1. inst'[i].faults = {} /\ inst'[i].pool # 1 => inst'[i].upgrade /\ table'.allowed
    <3>1. SUFFICES ASSUME inst'[i].faults = {}, inst'[i].pool # 1
                   PROVE  inst'[i].upgrade /\ table'.allowed
      OBVIOUS
    <3>2. ~inst[i].over /\ inst[i].faults = {}
      BY <1>9, <3>1, NotOver
    <3>3. inst[i].upgrade
      BY <1>1, <1>2, <3>2 DEF KnowsTable
    <3>4. inst'[i].upgrade = inst[i].upgrade
      BY <1>9, UndoneNumbers
    <3>5. QED
      BY <1>9, <3>2, <3>3, <3>4
  <2>2. QED
    BY <1>1, <1>6, <1>9, <2>1, GivesUp
<1>10. CASE /\ table' = table \/ table' = effect
            /\ Failed(i, "off")
  <2>1. inst'[i].faults # {} /\ table'.exists = table.exists
    BY <1>3, <1>10 DEF Failed
  <2>2. QED
    BY <1>1, <1>6, <1>10, <2>1, GivesUp
<1>11. QED
  BY <1>7, <1>8, <1>9, <1>10

\* Recheck, the look after the ALTER.
LEMMA RecheckStep ==
  ASSUME IInv, NEW i \in Instance, Recheck(i), dialect' = dialect
  PROVE  IInv'
<1>1. /\ inst[i].pc = "recheck" /\ inst[i].pc \in Calls
      /\ "store" \in Calls \cup Rest /\ "off" \in Calls \cup Rest
      /\ Query(i, table.allowed, "store", "off")
  BY DEF Recheck, Calls, Rest
<1>2. /\ Advance(i)
      /\ table' = table
      /\ \/ table.allowed /\ Answered(i, "store")
         \/ (inst[i].over \/ ~table.allowed) /\ Refused(i, "off")
         \/ Failed(i, "off")
  BY <1>1, QueryEnds
<1>3. table.exists /\ table.allowed
  BY <1>1 DEF IInv, KnowsTable
<1>4. CASE Answered(i, "store")
  BY <1>1, <1>2, <1>3, <1>4, StoreOpens
<1>5. CASE (inst[i].over /\ Refused(i, "off")) \/ Failed(i, "off")
  <2>1. ~(inst'[i].faults = {} /\ inst'[i].pool # 1)
    BY <1>5, NotOver DEF Failed
  <2>2. QED
    BY <1>1, <1>2, <1>5, <2>1, GivesUp
<1>6. QED
  BY <1>2, <1>3, <1>4, <1>5

------------------------------------------------------------------------------
(* What happens around them *)

\* The deadline ends only a wait for the connection of a pool of one.
LEMMA DeadlineStep ==
  ASSUME IInv, NEW i \in Instance, Deadline(i), dialect' = dialect
  PROVE  IInv'
<1> DEFINE r == inst[i]
           q == [r EXCEPT !.over = TRUE, !.conns = 0]
<1>1. /\ r \in Process /\ r.conns \in {0, 1} /\ r.pool \in Nat \ {0} /\ r.conns <= r.pool
      /\ r.pc \in Calls /\ ~r.over /\ ~(r.conns < r.pool)
      /\ TypeOK /\ OnItsWay(r) /\ KnowsTable(r) /\ (table.exists \/ table.indexes = {})
  BY ProcessNumbers DEF Deadline, Free, IInv
<1>2. r.pool = 1 /\ r.conns = 1
  BY <1>1
<1>3. r.pc \in {"column", "alter", "recheck"}
  <2>1. r.conns # 0
    BY <1>2
  <2>2. r.pc \notin {"probe", "create", "reprobe"}
    BY <1>1, <2>1 DEF OnItsWay
  <2>3. QED
    BY <1>1, <2>2 DEF Calls
<1>4. inst' = [inst EXCEPT ![i] = q] /\ table' = table /\ trouble' = trouble
  BY DEF Deadline
<1>5. /\ q \in Process /\ q.pc = r.pc /\ q.over /\ q.conns = 0 /\ q.pool = r.pool
      /\ q.upgrade = r.upgrade /\ q.faults = r.faults
  <2> DEFINE ended == TRUE
  <2>1. r \in Process /\ ended \in BOOLEAN /\ 0 \in 0..2 /\ r.faults \in SUBSET Calls
    BY <1>1 DEF Process
  <2>2. q = [r EXCEPT !.over = ended, !.conns = 0]
    OBVIOUS
  <2> HIDE DEF r, q, ended
  <2>3. /\ q \in Process /\ q.pc = r.pc /\ q.over = ended /\ q.conns = 0 /\ q.pool = r.pool
        /\ q.upgrade = r.upgrade /\ q.faults = r.faults
    BY <2>1, <2>2 DEF Process
  <2>4. QED
    BY <2>3 DEF ended
<1> HIDE DEF q
<1>6. inst'[i] = q
  BY <1>1, <1>4 DEF TypeOK
<1>7. Advance(i)
  BY <1>1, <1>4, <1>5 DEF Advance, TypeOK
<1>8. OnItsWay(inst[i])'
  BY <1>2, <1>3, <1>5, <1>6 DEF OnItsWay
<1>9. KnowsTable(inst[i])'
  BY <1>1, <1>3, <1>4, <1>5, <1>6 DEF KnowsTable
<1>10. inst'[i].conns <= inst'[i].pool
  BY <1>2, <1>5, <1>6
<1>11. Settles(i)
  BY <1>3, <1>4, <1>5, <1>6, <1>8, <1>9, <1>10 DEF Settles
<1>12. QED
  BY <1>7, <1>11, StepKeepsInv

\* A database that does not answer ends the context, too.
LEMMA SlowStep ==
  ASSUME IInv, NEW i \in Instance, Slow(i), dialect' = dialect
  PROVE  IInv'
<1> DEFINE r == inst[i]
           q == [r EXCEPT !.over = TRUE, !.conns = 0, !.faults = @ \cup {r.pc}]
<1>1. /\ r \in Process /\ r.pool \in Nat \ {0} /\ r.pc \in Calls
      /\ TypeOK /\ OnItsWay(r) /\ KnowsTable(r) /\ (table.exists \/ table.indexes = {})
  BY ProcessNumbers DEF Slow, IInv
<1>2. inst' = [inst EXCEPT ![i] = q] /\ table' = table
  BY DEF Slow
<1>3. /\ q \in Process /\ q.pc = r.pc /\ q.over /\ q.conns = 0 /\ q.pool = r.pool
      /\ q.stmt = r.stmt /\ q.upgrade = r.upgrade /\ q.faults = r.faults \cup {r.pc}
  <2> DEFINE ended == TRUE
  <2>1. /\ r \in Process /\ ended \in BOOLEAN /\ 0 \in 0..2
        /\ (r.faults \cup {r.pc}) \in SUBSET Calls
    BY <1>1 DEF Process
  <2>2. q = [r EXCEPT !.over = ended, !.conns = 0, !.faults = r.faults \cup {r.pc}]
    OBVIOUS
  <2> HIDE DEF r, q, ended
  <2>3. /\ q \in Process /\ q.pc = r.pc /\ q.over = ended /\ q.conns = 0 /\ q.pool = r.pool
        /\ q.stmt = r.stmt /\ q.upgrade = r.upgrade /\ q.faults = r.faults \cup {r.pc}
    BY <2>1, <2>2 DEF Process
  <2>4. QED
    BY <2>3 DEF ended
<1>4. /\ trouble' \in [faults : 0..MaxFaults, creation : BOOLEAN]
      /\ trouble.creation \/ r.pc = "create" => trouble'.creation
  <2>1. trouble.faults + 1 \in 0..MaxFaults
    BY <1>1, MigrationAssumption DEF Slow, TypeOK
  <2>2. (trouble.creation \/ r.pc = "create") \in BOOLEAN
    OBVIOUS
  <2>3. trouble' = [faults |-> trouble.faults + 1,
                    creation |-> trouble.creation \/ r.pc = "create"]
    BY DEF Slow
  <2>4. trouble'.creation = (trouble.creation \/ r.pc = "create")
    BY <2>3
  <2>5. QED
    BY <2>1, <2>2, <2>3, <2>4
<1> HIDE DEF q
<1>5. inst'[i] = q
  BY <1>1, <1>2 DEF TypeOK
<1>6. Advance(i)
  BY <1>1, <1>2, <1>3, <1>4 DEF Advance, TypeOK
<1>7. OnItsWay(inst[i])'
  <2>1. q.faults # {} /\ q.pc \in q.faults
    BY <1>3
  <2>2. /\ q.pc = "probe" => q.stmt = 0
        /\ q.pc = "create" => q.stmt # 4 /\ (dialect = "mysql" => q.stmt = 0)
        /\ q.pc = "create" /\ q.stmt \in {2, 3} => "verdict" \in table.indexes
        /\ q.pc = "create" /\ q.stmt = 3 => "last_seen" \in table.indexes
    BY <1>1, <1>3 DEF OnItsWay
  <2>3. q.pc = "create" => trouble'.creation
    BY <1>3, <1>4
  <2>4. q.conns <= 1 /\ q.conns = 0
    BY <1>3
  <2>5. QED
    BY <1>2, <1>5, <2>1, <2>2, <2>3, <2>4 DEF OnItsWay
<1>8. KnowsTable(inst[i])'
  BY <1>1, <1>2, <1>3, <1>5 DEF KnowsTable, Calls
<1>9. inst'[i].conns <= inst'[i].pool
  BY <1>1, <1>3, <1>5
<1>10. Settles(i)
  BY <1>2, <1>3, <1>4, <1>5, <1>7, <1>8, <1>9 DEF Settles
<1>11. QED
  BY <1>6, <1>10, StepKeepsInv

\* The record a process starts with.
LEMMA StartFields ==
  ASSUME NEW pc \in Calls \cup Rest, NEW p \in Pools,
         NEW t \in [exists : BOOLEAN, allowed : BOOLEAN, indexes : SUBSET Indexes]
  PROVE  /\ Start(pc, p, t) \in Process
         /\ Start(pc, p, t).pc = pc /\ Start(pc, p, t).stmt = 0
         /\ Start(pc, p, t).pool = p /\ Start(pc, p, t).conns = 0
         /\ ~Start(pc, p, t).over /\ Start(pc, p, t).faults = {}
         /\ Start(pc, p, t).upgrade = (t.exists /\ ~t.allowed)
         /\ 0 <= p
<1>1. 0 <= p
  BY MigrationAssumption DEF MigrationAssumption
<1>2. (t.exists /\ ~t.allowed) \in BOOLEAN
  OBVIOUS
<1>3. QED
  BY <1>1, <1>2 DEF Start, Process

\* A process starts, or is down again.
LEMMA StartStep ==
  ASSUME IInv, NEW i \in Instance, Begin(i) \/ Crash(i), dialect' = dialect
  PROVE  IInv'
<1>1. /\ TypeOK /\ (table.exists \/ table.indexes = {}) /\ inst[i] \in Process
      /\ inst[i].pool \in Pools
      /\ table \in [exists : BOOLEAN, allowed : BOOLEAN, indexes : SUBSET Indexes]
      /\ Absent \in [exists : BOOLEAN, allowed : BOOLEAN, indexes : SUBSET Indexes]
      /\ "probe" \in Calls \cup Rest /\ "down" \in Calls \cup Rest
  BY ProcessNumbers DEF IInv, TypeOK, Process, Absent, Calls, Rest
<1>2. PICK pc \in {"probe", "down"}, p \in Pools :
        \E t \in {table, Absent} :
          /\ inst' = [inst EXCEPT ![i] = Start(pc, p, t)]
          /\ pc = "probe" => t = table
  BY <1>1 DEF Begin, Crash
<1>3. PICK t \in {table, Absent} : /\ inst' = [inst EXCEPT ![i] = Start(pc, p, t)]
                                   /\ pc = "probe" => t = table
  BY <1>2
<1> DEFINE q == Start(pc, p, t)
<1>4. /\ q \in Process /\ q.pc = pc /\ q.stmt = 0 /\ q.conns = 0 /\ q.pool = p
      /\ ~q.over /\ q.faults = {} /\ q.upgrade = (t.exists /\ ~t.allowed) /\ q.conns <= q.pool
  BY <1>1, StartFields
<1> HIDE DEF q
<1>5. inst'[i] = q /\ inst' = [inst EXCEPT ![i] = q] /\ table' = table
  BY <1>1, <1>3 DEF TypeOK, q, Begin, Crash
<1>6. /\ trouble' \in [faults : 0..MaxFaults, creation : BOOLEAN]
      /\ trouble.creation => trouble'.creation
      /\ inst[i].pc = "create" => trouble'.creation
  <2>1. CASE Begin(i)
    BY <1>1, <2>1 DEF Begin, TypeOK
  <2>2. CASE Crash(i)
    <3>1. (trouble.creation \/ inst[i].pc = "create") \in BOOLEAN
      OBVIOUS
    <3>2. trouble' = [trouble EXCEPT !.creation = trouble.creation \/ inst[i].pc = "create"]
      BY <2>2 DEF Crash
    <3>3. trouble'.creation = (trouble.creation \/ inst[i].pc = "create")
      BY <1>1, <3>2 DEF TypeOK
    <3>4. trouble' \in [faults : 0..MaxFaults, creation : BOOLEAN]
      BY <1>1, <3>1, <3>2 DEF TypeOK
    <3>5. QED
      BY <3>3, <3>4
  <2>3. QED
    BY <2>1, <2>2
<1>7. Advance(i)
  BY <1>1, <1>4, <1>5, <1>6 DEF Advance, TypeOK
<1>8. OnItsWay(inst[i])'
  BY <1>4, <1>5 DEF OnItsWay
<1>9. KnowsTable(inst[i])'
  <2>1. q.pc = "probe" /\ table.exists /\ ~table.allowed => q.upgrade
    BY <1>3, <1>4
  <2>2. QED
    BY <1>4, <1>5, <2>1 DEF KnowsTable
<1>10. Settles(i)
  BY <1>4, <1>5, <1>6, <1>8, <1>9 DEF Settles
<1>11. QED
  BY <1>7, <1>10, StepKeepsInv

------------------------------------------------------------------------------
\* The invariant holds when no process has started yet.
LEMMA InitIInv == Init => IInv
<1> SUFFICES ASSUME Init PROVE IInv
  OBVIOUS
<1>1. /\ Absent \in [exists : BOOLEAN, allowed : BOOLEAN, indexes : SUBSET Indexes]
      /\ Complete \in [exists : BOOLEAN, allowed : BOOLEAN, indexes : SUBSET Indexes]
      /\ Old \in [exists : BOOLEAN, allowed : BOOLEAN, indexes : SUBSET Indexes]
      /\ ~Absent.exists /\ Absent.indexes = {} /\ Complete.indexes = Indexes
      /\ Complete.exists /\ Old.exists /\ Old.indexes = Indexes
  BY DEF Absent, Complete, Old
<1>2. /\ table \in [exists : BOOLEAN, allowed : BOOLEAN, indexes : SUBSET Indexes]
      /\ table.exists \/ table.indexes = {}
      /\ table.exists => table.indexes = Indexes
  BY <1>1 DEF Init
<1>3. ASSUME NEW i \in Instance
      PROVE  /\ inst[i] \in Process /\ inst[i].conns <= inst[i].pool /\ inst[i].conns = 0
             /\ inst[i].pc = "down" /\ ~inst[i].over
  <2>1. PICK p \in Pools : inst[i] = Start("down", p, Absent)
    BY DEF Init
  <2>2. "down" \in Calls \cup Rest
    BY DEF Rest
  <2>3. QED
    BY <1>1, <2>1, <2>2, StartFields
<1>4. inst \in [Instance -> Process]
  <2>1. inst \in [Instance -> {Start("down", p, Absent) : p \in Pools}]
    BY DEF Init
  <2>2. QED
    BY <1>3, <2>1
<1>5. trouble \in [faults : 0..MaxFaults, creation : BOOLEAN]
  BY MigrationAssumption DEF Init, MigrationAssumption
<1>6. TypeOK
  BY <1>2, <1>3, <1>4, <1>5 DEF TypeOK, Init
<1>7. ASSUME NEW i \in Instance PROVE OnItsWay(inst[i]) /\ KnowsTable(inst[i])
  <2>1. OnItsWay(inst[i])
    BY <1>3 DEF OnItsWay
  <2>2. KnowsTable(inst[i])
    BY <1>3 DEF KnowsTable
  <2>3. QED
    BY <2>1, <2>2
<1>8. HalfMade
  BY <1>2 DEF HalfMade
<1>9. QED
  BY <1>2, <1>6, <1>7, <1>8 DEF IInv

\* The invariant always holds, whatever statements fail and processes die.
THEOREM MigrationInvariant == Spec => []IInv
<1>1. IInv /\ [Next]_mvars => IInv'
  <2> SUFFICES ASSUME IInv, [Next]_mvars PROVE IInv'
    OBVIOUS
  <2>1. CASE UNCHANGED mvars
    BY <2>1 DEF mvars, IInv, TypeOK, OnItsWay, KnowsTable, HalfMade
  <2>2. ASSUME NEW i \in Instance, Call(i) \/ Begin(i) \/ Slow(i) \/ Crash(i),
               dialect' = dialect
        PROVE  IInv'
    BY <2>2, ProbeStep, CreateStep, ReprobeStep, ProbeColumnStep, AlterStep, RecheckStep,
       DeadlineStep, StartStep, SlowStep DEF Call
  <2>3. QED
    BY <2>1, <2>2 DEF Next
<1>2. QED
  BY <1>1, InitIInv, PTL DEF Spec

\* The types, the pools and the connections of the processes.
THEOREM TypeCorrect == Spec => []TypeOK
<1>1. IInv => TypeOK
  BY DEF IInv
<1>2. QED
  BY <1>1, MigrationInvariant, PTL

\* An enabled store has its table and the column its upserts write.
THEOREM StoreCanWriteHolds == Spec => []StoreCanWrite
<1>1. IInv => StoreCanWrite
  BY DEF IInv, KnowsTable, StoreCanWrite
<1>2. QED
  BY <1>1, MigrationInvariant, PTL

\* Without a failure only a race for the column or a pool of one connection
\* costs a process its store.
THEOREM LosesOnlyRaceHolds == Spec => []LosesOnlyRace
<1>1. IInv => LosesOnlyRace
  <2> SUFFICES ASSUME IInv, NEW i \in Instance, inst[i].pc = "off",
                      inst[i].faults = {}, inst[i].pool > 1
               PROVE  inst[i].upgrade /\ table.allowed
    BY DEF LosesOnlyRace
  <2>1. inst[i].pool # 1
    OBVIOUS
  <2>2. QED
    BY <2>1 DEF IInv, KnowsTable
<1>2. QED
  BY <1>1, MigrationInvariant, PTL

\* A table lacks an index only while its creation goes on, or after one that
\* broke off.
THEOREM IndexesFollowHolds == Spec => []IndexesFollow
<1>1. IInv => IndexesFollow
  BY DEF IInv, HalfMade, IndexesFollow
<1>2. QED
  BY <1>1, MigrationInvariant, PTL
==============================================================================
