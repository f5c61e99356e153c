--------------------------- MODULE MCTableMigration ---------------------------
(***************************************************************************)
(* Two processes that start, crash and start again on one database.        *)
(***************************************************************************)
EXTENDS TableMigration

CONSTANTS a, b
==============================================================================
