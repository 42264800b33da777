----------------------------- MODULE RunContext -----------------------------
(***************************************************************************)
(* What every component of one run shares: the event emitter of            *)
(* core/events.py, the budget of core/budgets.py, and the exception that   *)
(* is unwinding the run, if any.                                           *)
(*                                                                         *)
(* The events are the rows the run's store connection sees.  An append may *)
(* raise (the database is locked, the disk is full) either before its row  *)
(* is inserted or at the commit, when the row is already in the            *)
(* connection's transaction: the row is then visible, and the next         *)
(* successful commit makes it durable.                                     *)
(***************************************************************************)
EXTENDS Integers, FiniteSets

CONSTANTS
  MaxModelCalls,    \* limits.max_model_calls
  MaxToolCalls,     \* limits.max_tool_calls
  MaxStoreFaults    \* bound: how many store operations raise in a behaviour

ASSUME BudgetAssumption ==
  /\ MaxModelCalls \in Nat \ {0}
  /\ MaxToolCalls \in Nat \ {0}
  /\ MaxStoreFaults \in Nat

VARIABLES
  sequence,      \* EventEmitter._sequence
  events,        \* the rows of the events table
  model_calls,   \* Budget.model_calls
  tool_calls,    \* Budget.tool_calls
  overtime,      \* elapsed > max_runtime_seconds, were it checked now
  raised,        \* the exception unwinding the run, or "none"
  store_faults   \* store operations that raised so far

contextVars == <<sequence, events, model_calls, tool_calls, overtime, raised, store_faults>>
budgetVars == <<model_calls, tool_calls, overtime>>

Errors == {"BudgetExceededError", "PlanValidationError", "RoutingError", "ModelOutputError",
           "ToolExecutionError", "ApprovalRejectedError", "TeamAIError",
           "ProviderError", "ApprovalProviderError", "StoreError", "KeyError"}

(* An exception that is no Exception: the conductor does not catch it.     *)
Cancelled == "CancelledError"

Running == raised = "none"

ContextInit ==
  /\ sequence = 0
  /\ events = {}
  /\ model_calls = 0
  /\ tool_calls = 0
  /\ overtime = FALSE
  /\ raised = "none"
  /\ store_faults = 0

-----------------------------------------------------------------------------
(* EventEmitter.emit: the number is taken before the append, so an append  *)
(* that raises leaves a gap.  EmitThen raises error once the row is in.    *)

Row(type, task, note) ==
  [sequence |-> sequence + 1, type |-> type, task |-> task, note |-> note]

Appended(row, error) ==
  /\ events' = events \cup {row}
  /\ raised' = error
  /\ UNCHANGED store_faults

StoreRaises ==
  /\ store_faults < MaxStoreFaults
  /\ store_faults' = store_faults + 1
  /\ raised' = "StoreError"

(* Mutant: the number is taken only once the row is stored. *)
EmitThenNumber(type, task, note, error) ==
  \/ Appended(Row(type, task, note), error) /\ sequence' = sequence + 1
  \/ /\ StoreRaises /\ UNCHANGED sequence
     /\ events' \in {events, events \cup {Row(type, task, note)}}

EmitThen(type, task, note, error) ==
  /\ sequence' = sequence + 1
  /\ \/ Appended(Row(type, task, note), error)
     \/ StoreRaises /\ events' \in {events, events \cup {Row(type, task, note)}}

Emit(type, task, note) == EmitThen(type, task, note, raised)

Raise(error) ==
  /\ raised' = error
  /\ UNCHANGED <<sequence, events, store_faults>>

Quiet == UNCHANGED <<sequence, events, raised, store_faults>>

-----------------------------------------------------------------------------
(* Budget: check_runtime raises first; the counter is then incremented and *)
(* only then compared, so a refused call is still counted.                 *)

Consumed(calls) == IF overtime THEN calls ELSE calls + 1

(* Mutant: the counter compared before it is incremented. *)
RefusedLate(calls, max) == overtime \/ calls > max

Refused(calls, max) == overtime \/ Consumed(calls) > max

(* The run's clock passes max_runtime_seconds; nobody is told. *)
ClockPasses ==
  /\ ~overtime
  /\ overtime' = TRUE
  /\ UNCHANGED <<sequence, events, model_calls, tool_calls, raised, store_faults>>

-----------------------------------------------------------------------------

OfType(type) == {e \in events : e.type = type}
Count(type) == Cardinality(OfType(type))

EventTypes ==
  {"run.created", "run.started", "run.completed", "run.failed",
   "plan.requested", "plan.created", "plan.validated", "pipeline.started", "pipeline.completed",
   "task.ready", "task.assigned", "task.completed", "task.revision_requested",
   "agent.started", "artifact.created", "review.requested", "review.completed",
   "approval.requested", "approval.completed",
   "tool.requested", "tool.completed", "tool.failed",
   "model.requested", "model.completed", "model.failed", "model.output_invalid"}

RowOK(e) == e.sequence \in Nat \ {0} /\ e.type \in EventTypes /\ e.task \in Nat

HistoryTypeOK ==
  /\ sequence \in Nat
  /\ \A e \in events : RowOK(e)
  /\ IsFiniteSet(events)
  /\ raised \in Errors \cup {Cancelled, "none"}
  /\ store_faults \in 0..MaxStoreFaults

BudgetTypeOK ==
  /\ model_calls \in Nat
  /\ tool_calls \in Nat
  /\ overtime \in BOOLEAN

ContextTypeOK == HistoryTypeOK /\ BudgetTypeOK

(* The primary key (run_id, sequence) of the events table is never         *)
(* violated by the run itself, and the emitter's counter stays ahead of    *)
(* every stored row whatever appends raised.                               *)
SequenceNumbersUnique ==
  /\ \A e \in events : e.sequence \in 1..sequence
  /\ \A e, f \in events : e.sequence = f.sequence => e = f

(* A gap in a run's history is always an append that raised: with no such  *)
(* fault the rows are numbered 1 to sequence.                              *)
GapsAreFaults == sequence - Cardinality(events) \in 0..store_faults

(* The history of a run can be trusted after any mix of store faults: its  *)
(* rows are uniquely numbered, and only faults leave gaps.                 *)
HistoryIntact == SequenceNumbersUnique /\ GapsAreFaults

=============================================================================
