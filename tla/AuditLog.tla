------------------------------ MODULE AuditLog ------------------------------
(***************************************************************************)
(* "Inspectable runs": what the store promises a reader who comes after    *)
(* any number of runs, runtimes, faults and crashes.  kept is what the     *)
(* database file holds; a run is settled once its caller was told an       *)
(* outcome that the store acknowledged.                                    *)
(***************************************************************************)
VARIABLES
  kept,      \* the rows of the file
  settled    \* the runs whose outcome is on record

logVars == <<kept, settled>>

History(rows, r) == {x \in rows : x.run = r}

Has(rows, r, table, value) ==
  \E x \in History(rows, r) : x.table = table /\ x.value = value

(* The history of a run with an outcome: one row, and the events before it. *)
Complete(rows, r) ==
  /\ \A x, y \in History(rows, r) : x.table = "runs" /\ y.table = "runs" => x = y
  /\ Has(rows, r, "events", "run.created")
  /\ Has(rows, r, "events", "run.started")
  /\ \/ /\ Has(rows, r, "runs", "succeeded")
        /\ Has(rows, r, "artifacts", "artifact")
        /\ Has(rows, r, "events", "run.completed")
        /\ ~Has(rows, r, "events", "run.failed")
     \/ /\ Has(rows, r, "runs", "failed")
        /\ Has(rows, r, "events", "run.failed")

LogInit == kept = {} /\ settled = {}

(* Events and artifacts are never forgotten, a run settles only on a       *)
(* complete history, and the history of a settled run never changes.       *)
LogStep ==
  /\ \A x \in kept : x.table # "runs" => x \in kept'
  /\ settled \subseteq settled'
  /\ \A r \in settled : History(kept', r) = History(kept, r)
  /\ \A r \in settled' : Complete(kept', r)

LogSpec == LogInit /\ [][LogStep]_logVars

=============================================================================
