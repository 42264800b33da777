----------------------------- MODULE SQLiteStore ----------------------------
(***************************************************************************)
(* persistence/sqlite.py: connections of several processes to one SQLite   *)
(* file in rollback-journal mode, the default of the sqlite3 module.       *)
(*                                                                         *)
(* A method executes one statement and commits.  Both are synchronous, so  *)
(* no other coroutine of the process runs in between, and another process  *)
(* waits for the lock: a method that succeeds is one step.  When commit    *)
(* raises, the statement stays in the connection's open transaction        *)
(* together with the write lock (SQLITE_BUSY), or SQLite has rolled the    *)
(* transaction back (disk full, I/O error).  Nothing in the code rolls     *)
(* back or tries again; the next commit of the connection decides.         *)
(***************************************************************************)
EXTENDS Integers, FiniteSets

CONSTANTS
  Connections,     \* one SQLiteStore object each
  NoConnection

ASSUME ConnectionsAssumption == NoConnection \notin Connections

VARIABLES
  file,     \* the committed rows
  draft,    \* the rows as the open transaction sees them
  writer,   \* the connection whose open transaction holds the write lock
  open      \* the connections that are not closed

storeVars == <<file, draft, writer, open>>

Row(table, run, value) == [table |-> table, run |-> run, value |-> value]

(* Mutant: run_id, not artifact_id or sequence, identifies a row. *)
Replaces(row, x) == x.table = row.table /\ x.run = row.run

(* insert or replace: a run has one row; events and artifacts accumulate.  *)
SameKey(row, x) ==
  /\ x.table = row.table /\ x.run = row.run
  /\ x.table # "runs" => x.value = row.value

Put(rows, row) == {x \in rows : ~SameKey(row, x)} \cup {row}

StoreInit ==
  /\ file = {}
  /\ draft = {}
  /\ writer = NoConnection
  /\ open = {}

(* Mutant: each method begins a transaction, which an open one refuses. *)
UsableOutsideTransaction(c) == c \in open /\ writer = NoConnection

(* A closed connection raises ProgrammingError; the write lock of another  *)
(* connection makes the statement raise "database is locked".              *)
Usable(c) == c \in open /\ writer \in {c, NoConnection}

OpenStore(c) ==
  /\ c \notin open
  /\ open' = open \cup {c}
  /\ UNCHANGED <<file, draft, writer>>

(* Mutant: the method ends without commit. *)
CommitForgotten(c, row) ==
  /\ Usable(c)
  /\ draft' = Put(draft, row)
  /\ writer' = c
  /\ UNCHANGED <<file, open>>

(* Everything in the connection's transaction becomes durable. *)
Commit(c, row) ==
  /\ Usable(c)
  /\ file' = Put(draft, row)
  /\ draft' = Put(draft, row)
  /\ writer' = NoConnection
  /\ UNCHANGED open

CommitBusy(c, row) ==
  /\ Usable(c)
  /\ draft' = Put(draft, row)
  /\ writer' = c
  /\ UNCHANGED <<file, open>>

CommitRollsBack(c) ==
  /\ Usable(c)
  /\ draft' = file
  /\ writer' = NoConnection
  /\ UNCHANGED <<file, open>>

(* Mutant: closing does not end the open transaction. *)
CloseOnly(c) ==
  /\ open' = open \ {c}
  /\ UNCHANGED <<file, draft, writer>>

(* aclose, or the end of the process: the open transaction is dropped. *)
CloseStore(c) ==
  /\ open' = open \ {c}
  /\ draft' = IF writer = c THEN file ELSE draft
  /\ writer' = IF writer = c THEN NoConnection ELSE writer
  /\ UNCHANGED file

StoreTypeOK ==
  /\ writer \in open \cup {NoConnection}
  /\ open \subseteq Connections
  /\ writer = NoConnection => draft = file

=============================================================================
