---------------------------- MODULE TableMigration ----------------------------
(***************************************************************************)
(* The table of the statistics, before the store that FingerprintStore     *)
(* models starts: ensureTable and ensureColumn look whether it is there,   *)
(* create it, or add the column that tables of an older version lack.      *)
(* Several instances of the program start, crash and start again on one    *)
(* database, each with its own connection pool.                            *)
(*                                                                         *)
(* Every statement is one step.  The rows of a probe are never closed: its *)
(* connection comes back when the context ends, at the return of           *)
(* ensureTable or at the deadline.                                         *)
(***************************************************************************)
EXTENDS Integers, Sequences

CONSTANTS
  Instance,  \* the processes that call newFingerprintStore
  Pools,     \* sql.DB.SetMaxOpenConns of a process, at its start
  Dialects,  \* the databases to consider, of AllDialects
  MaxFaults  \* BOUND: statements that fail for a reason of their own

AllDialects == {"mysql", "postgres", "sqlite"}

ASSUME MigrationAssumption ==
  /\ Pools \subseteq Nat \ {0}
  /\ Dialects \subseteq AllDialects
  /\ MaxFaults \in Nat

VARIABLES
  dialect,  \* cfg.Dialect
  table,    \* the table in the database
  inst,     \* where each process is
  trouble   \* the statements that failed, and whether a creation broke off

mvars == <<dialect, table, inst, trouble>>

Indexes == {"verdict", "last_seen", "family"}
Absent == [exists |-> FALSE, allowed |-> FALSE, indexes |-> {}]
Complete == [exists |-> TRUE, allowed |-> TRUE, indexes |-> Indexes]
Old == [Complete EXCEPT !.allowed = FALSE]

\* The statements of ensureTable and ensureColumn, and where they lead.
Calls == {"probe", "create", "reprobe", "column", "alter", "recheck"}
Rest == {"down", "store", "off"}

\*   stmt     create statements that are done
\*   pool     how many connections the pool may open
\*   conns    those that rows of probes keep
\*   over     the context of 10 seconds has ended
\*   faults   the calls that failed for a reason of their own
\*   upgrade  the table was an old one when the process started
Process == [pc : Calls \cup Rest, stmt : 0..4, pool : Pools, conns : 0..2,
            over : BOOLEAN, faults : SUBSET Calls, upgrade : BOOLEAN]

\* A process never holds more connections than its pool has, nor any while
\* it rests.
TypeOK ==
  /\ dialect \in Dialects
  /\ table \in [exists : BOOLEAN, allowed : BOOLEAN, indexes : SUBSET Indexes]
  /\ inst \in [Instance -> Process]
  /\ \A i \in Instance : /\ inst[i].conns =< inst[i].pool
                         /\ inst[i].pc \in Rest => inst[i].conns = 0
  /\ trouble \in [faults : 0..MaxFaults, creation : BOOLEAN]

Start(pc, p, t) ==
  [pc |-> pc, stmt |-> 0, pool |-> p, conns |-> 0, over |-> FALSE,
   faults |-> {}, upgrade |-> t.exists /\ ~t.allowed]

Init ==
  /\ dialect \in Dialects
  /\ table \in {Absent, Old, Complete}
  /\ inst \in [Instance -> {Start("down", p, Absent) : p \in Pools}]
  /\ trouble = [faults |-> 0, creation |-> FALSE]

------------------------------------------------------------------------------
(* One statement *)

\* Process r at pc.  The deferred cancel ends the context of the rows.
At(r, pc) ==
  [r EXCEPT !.pc = pc, !.conns = IF pc \in Rest THEN 0 ELSE @]

Free(i) == ~inst[i].over /\ inst[i].conns < inst[i].pool

\* The statement of process i, which goes on as done.  It fails when the
\* database cannot do it (works says), when the context has ended, or for a
\* reason of its own; then its effect may still have taken place.  Without a
\* free connection it waits.
Statement(i, works, effect, done, otherwise) ==
  \/ /\ Free(i) /\ works
     /\ table' = effect
     /\ inst' = [inst EXCEPT ![i] = done]
     /\ UNCHANGED trouble
  \/ /\ inst[i].over \/ (Free(i) /\ ~works)
     /\ inst' = [inst EXCEPT ![i] = At(@, otherwise)]
     /\ UNCHANGED <<table, trouble>>
  \/ /\ trouble.faults < MaxFaults
     /\ Free(i)
     /\ table' = table \/ (works /\ table' = effect)
     /\ inst' = [inst EXCEPT ![i] = At([inst[i] EXCEPT !.faults = @ \cup {inst[i].pc}],
                                        otherwise)]
     /\ trouble' = [faults |-> trouble.faults + 1,
                    creation |-> trouble.creation \/ inst[i].pc = "create"]

\* QueryContext, whose rows nobody closes.
Query(i, works, next, otherwise) ==
  Statement(i, works, table, At([inst[i] EXCEPT !.conns = @ + 1], next), otherwise)

------------------------------------------------------------------------------
(* ensureTable *)

\* newFingerprintStore
Begin(i) ==
  /\ inst[i].pc = "down"
  /\ \E p \in Pools : inst' = [inst EXCEPT ![i] = Start("probe", p, table)]
  /\ UNCHANGED <<table, trouble>>

\* MUTANT of Probe: an old table is taken as it is.
ProbeOnly(i) ==
  /\ inst[i].pc = "probe"
  /\ Query(i, table.exists, "store", "create")

\* SELECT 1
Probe(i) ==
  /\ inst[i].pc = "probe"
  /\ Query(i, table.exists, "column", "create")

\* SchemaFor: MySQL makes the indexes with the table, the others after it,
\* and leave alone what is there.
CreateTable == IF table.exists THEN table
               ELSE [Complete EXCEPT !.indexes = IF dialect = "mysql" THEN @ ELSE {}]

CreateIndex(x) == [table EXCEPT !.indexes = @ \cup {x}]

SchemaFor ==
  IF dialect = "mysql" THEN <<CreateTable>>
  ELSE <<CreateTable, CreateIndex("verdict"), CreateIndex("last_seen"),
         CreateIndex("family")>>

\* MUTANT of Create: the loop ends a statement early.
CreateShort(i) ==
  /\ inst[i].pc = "create"
  /\ LET n    == inst[i].stmt + 1
         next == IF n >= Len(SchemaFor) - 1 THEN "reprobe" ELSE "create"
     IN Statement(i, TRUE, SchemaFor[n], [At(inst[i], next) EXCEPT !.stmt = n], "off")

\* The next statement of the loop.
Create(i) ==
  /\ inst[i].pc = "create"
  /\ LET n    == inst[i].stmt + 1
         next == IF n = Len(SchemaFor) THEN "reprobe" ELSE "create"
     IN Statement(i, TRUE, SchemaFor[n], [At(inst[i], next) EXCEPT !.stmt = n], "off")

Reprobe(i) ==
  /\ inst[i].pc = "reprobe"
  /\ Query(i, table.exists, "store", "off")

------------------------------------------------------------------------------
(* ensureColumn *)

\* MUTANT of ProbeColumn: ALTER without a look.
ProbeColumnSkipped(i) ==
  /\ inst[i].pc = "column"
  /\ inst' = [inst EXCEPT ![i] = At(@, "alter")]
  /\ UNCHANGED <<table, trouble>>

ProbeColumn(i) ==
  /\ inst[i].pc = "column"
  /\ Query(i, table.allowed, "store", "alter")

\* ALTER TABLE ... ADD COLUMN fails when the column is there.
Alter(i) ==
  /\ inst[i].pc = "alter"
  /\ Statement(i, ~table.allowed, [table EXCEPT !.allowed = TRUE],
               At(inst[i], "recheck"), "off")

Recheck(i) ==
  /\ inst[i].pc = "recheck"
  /\ Query(i, table.allowed, "store", "off")

------------------------------------------------------------------------------
(* What happens around them *)

\* MUTANT of Deadline: a call without a deadline.
DeadlineNever(i) == FALSE /\ UNCHANGED <<table, inst, trouble>>

\* The 10 seconds are over while a statement waits for a connection: the
\* context closes the rows of the probes.
Deadline(i) ==
  /\ inst[i].pc \in Calls
  /\ ~inst[i].over /\ ~Free(i)
  /\ inst' = [inst EXCEPT ![i].over = TRUE, ![i].conns = 0]
  /\ UNCHANGED <<table, trouble>>

\* They are over because the database does not answer.
Slow(i) ==
  /\ inst[i].pc \in Calls
  /\ Free(i)
  /\ trouble.faults < MaxFaults
  /\ inst' = [inst EXCEPT ![i].over = TRUE, ![i].conns = 0,
                          ![i].faults = @ \cup {inst[i].pc}]
  /\ trouble' = [faults |-> trouble.faults + 1,
                 creation |-> trouble.creation \/ inst[i].pc = "create"]
  /\ UNCHANGED table

\* The process dies, or is stopped.
Crash(i) ==
  /\ inst[i].pc # "down"
  /\ inst' = [inst EXCEPT ![i] = Start("down", inst[i].pool, Absent)]
  /\ trouble' = [trouble EXCEPT !.creation = @ \/ inst[i].pc = "create"]
  /\ UNCHANGED table

Call(i) ==
  \/ Probe(i)
  \/ Create(i)
  \/ Reprobe(i)
  \/ ProbeColumn(i)
  \/ Alter(i)
  \/ Recheck(i)
  \/ Deadline(i)

Next ==
  /\ \E i \in Instance : Call(i) \/ Begin(i) \/ Slow(i) \/ Crash(i)
  /\ UNCHANGED dialect

\* A process that is not killed goes on: ensureTable runs on the goroutine
\* that calls New, and database/sql answers or gives up at the deadline.
Fairness == \A i \in Instance : WF_mvars(Call(i) /\ UNCHANGED dialect)

Spec == Init /\ [][Next]_mvars /\ Fairness

------------------------------------------------------------------------------
(* Properties *)

\* A store that is enabled has a table, and the table has the column its
\* upserts write, whoever created or altered it meanwhile and whatever failed
\* on the way; the one exception is a first probe that fails although the
\* table is there, after which ensureTable does not look at the columns.
StoreCanWrite ==
  \A i \in Instance : inst[i].pc = "store" =>
    /\ table.exists
    /\ table.allowed \/ "probe" \in inst[i].faults

\* Without failures only two things disable the store of a process: a pool
\* of one connection, and another process that added the column between its
\* probe and its ALTER.  The table is then as it should be.
LosesOnlyRace ==
  \A i \in Instance :
    inst[i].pc = "off" /\ inst[i].faults = {} /\ inst[i].pool > 1
      => inst[i].upgrade /\ table.allowed

\* A table lacks an index only while its creation goes on or after one broke
\* off: no other way through ensureTable leaves it half made.
IndexesFollow ==
  table.exists /\ table.indexes # Indexes
    => trouble.creation \/ \E i \in Instance : inst[i].pc = "create"

\* Every start comes to an end, with the store or without it, also when the
\* probes hold the only connection that the next statement waits for.
StartEnds ==
  \A i \in Instance : inst[i].pc \in Calls ~> inst[i].pc \in Rest

==============================================================================
