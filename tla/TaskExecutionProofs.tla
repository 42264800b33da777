------------------------ MODULE TaskExecutionProofs -------------------------
(***************************************************************************)
(* Proofs about tool calls and about the executor that makes them, for any *)
(* tools, any set of gated tools, any budgets, any number of revisions and *)
(* of store faults.                                                        *)
(*                                                                         *)
(* First ToolBroker: no gated effect without its own approval, and no      *)
(* effect without a request the budget admitted.  Neither is inductive.    *)
(* That an effect is approved follows from what the last rows of the log   *)
(* are while the call waits for its turn (Trail), as long as no exception  *)
(* unwinds the run.                                                        *)
(*                                                                         *)
(* Then TaskExecution: which rows and artifacts belong to which revision.  *)
(* That is said of any one task on a log that others write as well         *)
(* (ExecutorInv), so it serves a task on its own and a run of many.        *)
(***************************************************************************)
EXTENDS TaskExecution, LLMAgentProofs

Requests ==
  [phase : {"idle", "asking", "waiting", "granted"},
   action : Tools \cup {"none", "plan.execute", "task.execute"}, task : Nat]

BrokerTypes ==
  /\ approval \in Requests
  /\ tool = [phase |-> tool.phase, name |-> tool.name, task |-> tool.task,
             allowed |-> tool.allowed]
  /\ tool.phase \in {"idle", "called", "approving", "executing", "done"}
  /\ tool.task \in Nat
  /\ tool.allowed \in SUBSET Tools
  /\ tool.phase \in {"approving", "executing", "done"} => tool.name \in Tools
  /\ \A f \in effects : f.tool \in Tools /\ f.at \in 1..sequence
  /\ Running /\ tool.phase \in {"approving", "executing"} => sequence > 0

ToolTypes == HistoryInv /\ BudgetTypeOK /\ BrokerTypes

(* The steps of a tool call, whoever made it: of the broker, of its        *)
(* approval, or the cancellation of that approval.                         *)
ToolStep ==
  \/ BrokerStep
  \/ (ApprovalStep \/ CancelApproval) /\ UNCHANGED <<tool, effects>>

LEMMA ToolRuns ==
  ASSUME ToolStep
  PROVE  Running
BY DEF ToolStep, BrokerStep, RefuseTool, BudgetRefusesTool, RequestTool, ToolApproved, ToolSucceeds,
       ToolFails, Phase, ApprovalStep, RequestApproval, Decide, ProviderUnavailable, CancelApproval

LEMMA BrokerRowsOK ==
  ASSUME HistoryInv, NEW task \in Nat, NEW note,
         NEW type \in {"tool.requested", "tool.completed", "tool.failed",
                       "approval.requested", "approval.completed"}
  PROVE  RowOK(Row(type, task, note)) /\ raised \in Raisable
BY DEF HistoryInv, HistoryTypeOK, RowOK, Row, EventTypes, Raisable

LEMMA EmitMovesOn ==
  ASSUME HistoryInv, NEW type, NEW task, NEW note, NEW error, EmitThen(type, task, note, error)
  PROVE  sequence \in Nat /\ sequence' = sequence + 1
BY DEF HistoryInv, HistoryTypeOK, EmitThen

(* A caller sets up a tool call, drops it, or leaves it.                   *)
LEMMA CallerKeepsBrokerTypes ==
  ASSUME BrokerTypes, sequence \in Nat, sequence' \in {sequence, sequence + 1},
         Running' => Running, effects' = effects, approval' \in Requests,
         \/ tool' = tool
         \/ tool' = NoTool
         \/ \E name, task, allowed : /\ tool' = ToolCall(name, task, allowed)
                                     /\ task \in Nat /\ allowed \in SUBSET Tools
  PROVE  BrokerTypes'
<1>1. \A f \in effects' : f.tool \in Tools /\ f.at \in 1..sequence'
  BY DEF BrokerTypes
<1>2. CASE tool' = tool
  BY <1>1, <1>2 DEF BrokerTypes
<1>3. CASE tool' = NoTool
  BY <1>1, <1>3 DEF BrokerTypes, NoTool
<1>4. CASE \E name, task, allowed : /\ tool' = ToolCall(name, task, allowed)
                                    /\ task \in Nat /\ allowed \in SUBSET Tools
  BY <1>1, <1>4 DEF BrokerTypes, ToolCall
<1> QED BY <1>2, <1>3, <1>4

LEMMA BrokerKeepsTypes ==
  ASSUME ToolTypes, BrokerStep
  PROVE  ToolTypes'
<1> USE DEF Phase
<1>0. sequence \in Nat /\ HistoryInv /\ BudgetTypeOK /\ Running /\ BrokerTypes
  BY DEF ToolTypes, HistoryInv, HistoryTypeOK, BrokerStep, RefuseTool, BudgetRefusesTool,
         RequestTool, ToolApproved, ToolSucceeds, ToolFails
<1>1. CASE RefuseTool
  <2>1. HistoryInv' /\ BudgetTypeOK' /\ sequence' = sequence
    BY <1>0, <1>1, RaiseKeepsHistory
       DEF RefuseTool, Raisable, Errors, budgetVars, BudgetTypeOK, Raise
  <2> QED BY <1>0, <1>1, <2>1, CallerKeepsBrokerTypes DEF RefuseTool, BrokerTypes, ToolTypes
<1>2. CASE BudgetRefusesTool
  <2>1. HistoryInv' /\ sequence' = sequence
    BY <1>0, <1>2, RaiseKeepsHistory DEF BudgetRefusesTool, Raisable, Errors, Raise
  <2>2. BudgetTypeOK'
    BY <1>0, <1>2 DEF BudgetRefusesTool, BudgetTypeOK, Consumed
  <2> QED BY <1>0, <1>2, <2>1, <2>2, CallerKeepsBrokerTypes
          DEF BudgetRefusesTool, BrokerTypes, ToolTypes
<1>3. CASE RequestTool
  <2>1. EmitThen("tool.requested", tool.task, tool.name, raised) /\ tool.name \in Tools
    BY <1>3 DEF RequestTool, Emit, Permitted
  <2>2. HistoryInv' /\ sequence' = sequence + 1
    BY <1>0, <2>1, BrokerRowsOK, EmitKeepsHistory, EmitMovesOn DEF BrokerTypes
  <2>3. BudgetTypeOK'
    BY <1>0, <1>3 DEF RequestTool, BudgetTypeOK, Consumed
  <2>4. approval' \in Requests
    BY <1>0, <1>3, <2>1 DEF BrokerTypes, RequestTool, Asking, Requests
  <2>5. tool' = [phase |-> IF tool.name \in Gated THEN "approving" ELSE "executing",
                 name |-> tool.name, task |-> tool.task, allowed |-> tool.allowed]
    BY <1>0, <1>3 DEF BrokerTypes, RequestTool
  <2>6. effects' = effects
    BY <1>3 DEF RequestTool
  <2>7. BrokerTypes'
    BY <1>0, <2>1, <2>2, <2>4, <2>5, <2>6 DEF BrokerTypes
  <2> QED BY <2>2, <2>3, <2>7 DEF ToolTypes
<1>4. CASE ToolApproved
  <2>1. HistoryInv' /\ BudgetTypeOK' /\ sequence' = sequence
    BY <1>0, <1>4, QuietKeepsHistory DEF ToolApproved, contextVars, BudgetTypeOK
  <2>2. approval' \in Requests
    BY <1>4 DEF ToolApproved, NoApproval, Requests
  <2>3. tool' = [phase |-> "executing", name |-> tool.name, task |-> tool.task,
                 allowed |-> tool.allowed]
    BY <1>0, <1>4 DEF BrokerTypes, ToolApproved
  <2>4. BrokerTypes'
    BY <1>0, <1>4, <2>1, <2>2, <2>3 DEF BrokerTypes, ToolApproved
  <2> QED BY <2>1, <2>4 DEF ToolTypes
<1>5. ASSUME NEW type \in {"tool.completed", "tool.failed"}, NEW error \in Raisable,
             EmitThen(type, tool.task, tool.name, error),
             tool.phase = "executing", tool'.phase \in {"executing", "done"},
             tool' = [phase |-> tool'.phase, name |-> tool.name, task |-> tool.task,
                      allowed |-> tool.allowed],
             effects' \in {effects, effects \cup {Effect}}, approval' = approval,
             UNCHANGED budgetVars
      PROVE  ToolTypes'
  <2>1. HistoryInv' /\ sequence' = sequence + 1
    BY <1>0, <1>5, BrokerRowsOK, EmitKeepsHistory, EmitMovesOn DEF BrokerTypes
  <2>2. BudgetTypeOK'
    BY <1>0, <1>5 DEF budgetVars, BudgetTypeOK
  <2>3. Effect.tool \in Tools /\ Effect.at \in 1..sequence
    BY <1>0, <1>5 DEF Effect, BrokerTypes
  <2>4. \A f \in effects' : f.tool \in Tools /\ f.at \in 1..sequence'
    BY <1>0, <1>5, <2>1, <2>3 DEF BrokerTypes
  <2>5. BrokerTypes'
    BY <1>0, <1>5, <2>1, <2>4 DEF BrokerTypes
  <2> QED BY <2>1, <2>2, <2>5 DEF ToolTypes
<1>6. CASE ToolSucceeds
  <2>1. /\ EmitThen("tool.completed", tool.task, tool.name, raised) /\ raised \in Raisable
        /\ tool.phase = "executing" /\ tool'.phase = "done"
        /\ tool' = [phase |-> tool'.phase, name |-> tool.name, task |-> tool.task,
                    allowed |-> tool.allowed]
    BY <1>0, <1>6 DEF ToolSucceeds, Emit, BrokerTypes, HistoryInv, HistoryTypeOK, Raisable
  <2> QED BY <1>5, <1>6, <2>1 DEF ToolSucceeds
<1>7. CASE ToolFails
  <2>1. /\ EmitThen("tool.failed", tool.task, tool.name, "ToolExecutionError")
        /\ "ToolExecutionError" \in Raisable
        /\ tool.phase = "executing" /\ tool'.phase = "executing"
        /\ tool' = [phase |-> tool'.phase, name |-> tool.name, task |-> tool.task,
                    allowed |-> tool.allowed]
    BY <1>0, <1>7 DEF ToolFails, BrokerTypes, Raisable, Errors
  <2> QED BY <1>5, <1>7, <2>1 DEF ToolFails
<1> QED BY <1>1, <1>2, <1>3, <1>4, <1>6, <1>7 DEF BrokerStep

LEMMA GateKeepsTypes ==
  ASSUME ToolTypes, ApprovalStep \/ CancelApproval, UNCHANGED <<tool, effects>>
  PROVE  ToolTypes'
<1>0. /\ sequence \in Nat /\ HistoryInv /\ BudgetTypeOK /\ BrokerTypes /\ Running
      /\ raised \in Raisable /\ approval.task \in Nat
  BY DEF ToolTypes, HistoryInv, HistoryTypeOK, ApprovalStep, RequestApproval, Decide,
         ProviderUnavailable, CancelApproval, BrokerTypes, Requests, Raisable
<1>1. BudgetTypeOK'
  BY <1>0 DEF ApprovalStep, RequestApproval, Decide, ProviderUnavailable, CancelApproval,
              budgetVars, BudgetTypeOK
<1>2. approval' \in Requests
  <2>1. approval' = approval \/ \E phase \in {"idle", "waiting", "granted"} :
                                   approval' = [approval EXCEPT !.phase = phase]
    BY DecisionsAssumption
       DEF ApprovalStep, RequestApproval, Decide, ProviderUnavailable, CancelApproval
  <2> QED BY <1>0, <2>1 DEF BrokerTypes, Requests
<1>3. HistoryInv' /\ sequence' \in {sequence, sequence + 1}
  <2>1. CASE RequestApproval
    <3>1. EmitThen("approval.requested", approval.task, approval.action, raised)
      BY <2>1 DEF RequestApproval, Emit
    <3> QED BY <1>0, <3>1, BrokerRowsOK, EmitKeepsHistory, EmitMovesOn
  <2>2. CASE Decide
    <3>1. PICK approved \in BOOLEAN :
            EmitThen("approval.completed", approval.task,
                     IF approved THEN "approved" ELSE "rejected",
                     IF approved THEN raised ELSE "ApprovalRejectedError")
      BY <2>2, DecisionsAssumption DEF Decide
    <3> QED BY <1>0, <3>1, BrokerRowsOK, EmitKeepsHistory, EmitMovesOn DEF Raisable, Errors
  <2>3. CASE ProviderUnavailable \/ CancelApproval
    BY <1>0, <2>3, RaiseKeepsHistory
       DEF ProviderUnavailable, CancelApproval, Raisable, Errors, Raise
  <2> QED BY <2>1, <2>2, <2>3 DEF ApprovalStep
<1> QED BY <1>0, <1>1, <1>2, <1>3, CallerKeepsBrokerTypes DEF ToolTypes

LEMMA ToolKeepsTypes ==
  ASSUME ToolTypes, ToolStep
  PROVE  ToolTypes'
BY BrokerKeepsTypes, GateKeepsTypes DEF ToolStep

-----------------------------------------------------------------------------
(* The end of the log while a call waits for its turn.                     *)

Approved(n, name) ==
  /\ EventAt(n - 2, "tool.requested", name)
  /\ EventAt(n - 1, "approval.requested", name)
  /\ EventAt(n, "approval.completed", "approved")

Trail ==
  Running =>
    /\ tool.phase = "approving" /\ approval.phase = "asking" =>
         approval.action = tool.name /\ EventAt(sequence, "tool.requested", tool.name)
    /\ tool.phase = "approving" /\ approval.phase = "waiting" =>
         /\ EventAt(sequence - 1, "tool.requested", tool.name)
         /\ EventAt(sequence, "approval.requested", tool.name)
    /\ tool.phase = "approving" /\ approval.phase = "granted" => Approved(sequence, tool.name)
    /\ tool.phase = "executing" =>
         IF tool.name \in Gated THEN Approved(sequence, tool.name)
         ELSE EventAt(sequence, "tool.requested", tool.name)

EffectRequested(f) ==
  IF f.tool \in Gated THEN Approved(f.at, f.tool) ELSE EventAt(f.at, "tool.requested", f.tool)

EffectsRequested == \A f \in effects : EffectRequested(f)

(* While a tool call is in progress, an approval asked for is its own.     *)
OwnApproval == Running /\ approval.phase # "idle" => tool.phase \in {"idle", "approving"}

EffectInv ==
  /\ OwnApproval
  /\ tool.phase = "approving" => tool.name \in Gated
  /\ Trail
  /\ EffectsRequested

RowsHave(rows, n, type, note) == \E e \in rows : e.sequence = n /\ e.type = type /\ e.note = note

(* Rows stay, and an emit that the store took is the last row.             *)
LEMMA EventsStay ==
  ASSUME events \subseteq events', NEW n, NEW type, NEW note, EventAt(n, type, note)
  PROVE  EventAt(n, type, note)'
BY DEF EventAt

LEMMA EmittedLast ==
  ASSUME sequence \in Nat, store_faults \in Nat, NEW type, NEW task, NEW note, NEW error,
         EmitThen(type, task, note, error)
  PROVE  /\ events \subseteq events'
         /\ Running' => raised' = error /\ RowsHave(events', sequence', type, note)
<1> DEFINE row == Row(type, task, note)
<1>1. CASE Appended(row, error) /\ sequence' = sequence + 1
  <2>1. row \in events' /\ row.sequence = sequence' /\ row.type = type /\ row.note = note
    BY <1>1 DEF Appended, Row
  <2> QED BY <1>1, <2>1 DEF Appended, RowsHave
<1>2. CASE StoreRaises /\ events' \in {events, events \cup {row}}
  BY <1>2 DEF StoreRaises, Running
<1> QED BY <1>1, <1>2 DEF EmitThen

LEMMA EffectsStay ==
  ASSUME EffectsRequested, events \subseteq events', effects' = effects
  PROVE  EffectsRequested'
BY EventsStay DEF EffectsRequested, EffectRequested, Approved

(* Callers, and the frames above them, leave the effects alone.            *)
LEMMA CallerKeepsEffects ==
  ASSUME EffectInv, events \subseteq events', effects' = effects, OwnApproval', Running' => Running,
         tool' = tool \/ tool'.phase \in {"idle", "called"},
         \/ Running' => tool'.phase \notin {"approving", "executing"}
         \/ UNCHANGED <<sequence, approval, tool>>
  PROVE  EffectInv'
<1>1. tool'.phase = "approving" => tool'.name \in Gated
  BY DEF EffectInv
<1>2. EffectsRequested'
  BY EffectsStay DEF EffectInv
<1>3. Trail'
  <2>1. CASE Running' => tool'.phase \notin {"approving", "executing"}
    BY <2>1 DEF Trail
  <2>2. CASE UNCHANGED <<sequence, approval, tool>>
    BY <2>2, EventsStay DEF EffectInv, Trail, Approved
  <2> QED BY <2>1, <2>2
<1> QED BY <1>1, <1>2, <1>3 DEF EffectInv

LEMMA ToolKeepsEffects ==
  ASSUME ToolTypes, EffectInv, ToolStep
  PROVE  EffectInv'
<1> USE DEF Phase
<1>0. /\ sequence \in Nat /\ store_faults \in Nat /\ BrokerTypes
      /\ OwnApproval /\ Trail /\ EffectsRequested
      /\ tool.phase = "approving" => tool.name \in Gated
  BY BudgetAssumption DEF ToolTypes, HistoryInv, HistoryTypeOK, EffectInv
<1>b. ASSUME ~Running', tool'.phase # "approving" \/ tool' = tool PROVE Trail' /\ OwnApproval'
  BY <1>b DEF Trail, OwnApproval
<1>c. ASSUME events \subseteq events', effects' \in {effects, effects \cup {Effect}},
             Running, tool.phase = "executing"
      PROVE  EffectsRequested'
  <2>1. \A f \in effects' : EffectRequested(f)
    BY <1>0, <1>c DEF EffectsRequested, EffectRequested, Effect, Trail
  <2> QED BY <1>c, <2>1, EventsStay DEF EffectsRequested, EffectRequested, Approved
<1>2. CASE RefuseTool \/ BudgetRefusesTool
  <2>1. events' = events /\ effects' = effects /\ ~Running' /\ tool' = tool
    BY <1>2 DEF RefuseTool, BudgetRefusesTool, Raise, Running
  <2> QED BY <1>0, <1>b, <2>1, EffectsStay DEF EffectInv
<1>3. CASE RequestTool
  <2>1. EmitThen("tool.requested", tool.task, tool.name, raised) /\ tool.phase = "called"
    BY <1>3 DEF RequestTool, Emit
  <2>2. /\ events \subseteq events' /\ effects' = effects
        /\ Running' => RowsHave(events', sequence', "tool.requested", tool.name)
    BY <1>0, <1>3, <2>1, EmittedLast DEF RequestTool
  <2>3. CASE tool.name \in Gated
    <3>1. /\ approval' = [phase |-> "asking", action |-> tool.name, task |-> tool.task]
          /\ tool'.phase = "approving" /\ tool'.name = tool.name
      BY <1>0, <1>3, <2>3 DEF BrokerTypes, RequestTool, Asking
    <3> QED BY <1>0, <2>2, <2>3, <3>1, EffectsStay
            DEF EffectInv, OwnApproval, Trail, EventAt, RowsHave
  <2>4. CASE tool.name \notin Gated
    <3>1. tool'.phase = "executing" /\ tool'.name = tool.name /\ approval' = approval
      BY <1>0, <1>3, <2>4 DEF BrokerTypes, RequestTool
    <3>2. approval.phase = "idle"
      BY <1>0, <1>3, <2>1 DEF RequestTool, OwnApproval
    <3> QED BY <1>0, <2>2, <2>4, <3>1, <3>2, EffectsStay
            DEF EffectInv, OwnApproval, Trail, EventAt, RowsHave
  <2> QED BY <2>3, <2>4
<1>4. CASE ToolApproved
  <2>1. /\ UNCHANGED <<sequence, events, raised, effects>>
        /\ tool'.phase = "executing" /\ tool'.name = tool.name /\ approval'.phase = "idle"
        /\ tool.phase = "approving" /\ approval.phase = "granted" /\ Running
    BY <1>0, <1>4 DEF BrokerTypes, ToolApproved, NoApproval, contextVars
  <2>2. Approved(sequence, tool.name) /\ tool.name \in Gated
    BY <1>0, <2>1 DEF Trail
  <2> QED BY <1>0, <2>1, <2>2, EffectsStay DEF EffectInv, OwnApproval, Trail, Approved, EventAt
<1>5. CASE ToolSucceeds
  <2>1. EmitThen("tool.completed", tool.task, tool.name, raised)
    BY <1>5 DEF ToolSucceeds, Emit
  <2>2. /\ events \subseteq events' /\ tool'.phase = "done" /\ Running /\ tool.phase = "executing"
        /\ approval' = approval
    BY <1>0, <1>5, <2>1, EmittedLast DEF BrokerTypes, ToolSucceeds
  <2>3. effects' = effects \cup {Effect} /\ approval.phase = "idle"
    BY <1>0, <1>5, <2>2 DEF ToolSucceeds, OwnApproval
  <2> QED BY <1>c, <2>2, <2>3 DEF EffectInv, OwnApproval, Trail
<1>6. CASE ToolFails
  <2>1. EmitThen("tool.failed", tool.task, tool.name, "ToolExecutionError")
    BY <1>6 DEF ToolFails
  <2>2. /\ events \subseteq events' /\ ~Running' /\ Running /\ tool.phase = "executing"
        /\ tool' = tool
    BY <1>0, <1>6, <2>1, EmittedLast DEF ToolFails, Running
  <2>3. effects' \in {effects, effects \cup {Effect}}
    BY <1>6 DEF ToolFails
  <2> QED BY <1>0, <1>b, <1>c, <2>2, <2>3 DEF EffectInv
<1>7. CASE ApprovalStep /\ UNCHANGED <<tool, effects>>
  <2>0. Running /\ approval.phase # "idle" /\ tool.phase \in {"idle", "approving"}
    BY <1>0, <1>7 DEF ApprovalStep, RequestApproval, Decide, ProviderUnavailable, OwnApproval
  <2>1. CASE RequestApproval
    <3>1. /\ EmitThen("approval.requested", approval.task, approval.action, raised)
          /\ approval.phase = "asking" /\ approval'.phase = "waiting"
      BY <1>0, <2>1 DEF BrokerTypes, Requests, RequestApproval, Emit
    <3>2. sequence' = sequence + 1
      BY <3>1 DEF EmitThen
    <3>3. /\ events \subseteq events'
          /\ Running' => RowsHave(events', sequence', "approval.requested", approval.action)
      BY <1>0, <3>1, EmittedLast
    <3>4. tool.phase = "approving" =>
            approval.action = tool.name /\ EventAt(sequence, "tool.requested", tool.name)
      BY <1>0, <2>0, <3>1 DEF Trail
    <3>5. sequence' - 1 = sequence
      BY <1>0, <3>2
    <3>6. tool.phase = "approving" => RowsHave(events', sequence' - 1, "tool.requested", tool.name)
      BY <3>3, <3>4, <3>5 DEF EventAt, RowsHave
    <3>7. Trail'
      BY <1>7, <2>0, <3>1, <3>3, <3>4, <3>6 DEF Trail, EventAt, RowsHave
    <3> QED BY <1>0, <1>7, <2>0, <3>3, <3>7, EffectsStay DEF EffectInv, OwnApproval
  <2>2. CASE Decide
    <3>1. PICK approved \in BOOLEAN :
            /\ EmitThen("approval.completed", approval.task,
                        IF approved THEN "approved" ELSE "rejected",
                        IF approved THEN raised ELSE "ApprovalRejectedError")
            /\ approval' = [approval EXCEPT !.phase = IF approved THEN "granted" ELSE "idle"]
      BY <2>2, DecisionsAssumption DEF Decide
    <3>2. approval.phase = "waiting"
      BY <2>2 DEF Decide
    <3>4. tool.phase = "approving" =>
            /\ EventAt(sequence - 1, "tool.requested", tool.name)
            /\ EventAt(sequence, "approval.requested", tool.name)
      BY <1>0, <2>0, <3>2 DEF Trail
    <3> DEFINE note == IF approved THEN "approved" ELSE "rejected"
               error == IF approved THEN raised ELSE "ApprovalRejectedError"
    <3>0. EmitThen("approval.completed", approval.task, note, error)
      BY <3>1
    <3> HIDE DEF note, error
    <3>5. sequence' = sequence + 1
      BY <3>0 DEF EmitThen
    <3>6. sequence' - 1 = sequence /\ sequence' - 2 = sequence - 1
      BY <1>0, <3>5
    <3>7. /\ events \subseteq events'
          /\ Running' => /\ raised' = error
                         /\ RowsHave(events', sequence', "approval.completed", note)
      BY <1>0, <3>0, EmittedLast
    <3>8. Running' => approved /\ note = "approved"
      BY <3>7 DEF Running, error, note
    <3>9. Running' => /\ approval'.phase = "granted"
                     /\ RowsHave(events', sequence', "approval.completed", "approved")
      BY <1>0, <3>1, <3>7, <3>8 DEF BrokerTypes, Requests
    <3>10. tool.phase = "approving" =>
             /\ RowsHave(events', sequence' - 2, "tool.requested", tool.name)
             /\ RowsHave(events', sequence' - 1, "approval.requested", tool.name)
      BY <3>4, <3>7, <3>6 DEF EventAt, RowsHave
    <3>11. Trail'
      BY <1>7, <2>0, <3>9, <3>10 DEF Trail, Approved, EventAt, RowsHave
    <3> QED BY <1>0, <1>7, <2>0, <3>7, <3>11, EffectsStay DEF EffectInv, OwnApproval
  <2>3. CASE ProviderUnavailable
    <3>1. ~Running' /\ events' = events
      BY <2>3 DEF ProviderUnavailable, Raise, Running
    <3> QED BY <1>0, <1>7, <1>b, <3>1, EffectsStay DEF EffectInv
  <2> QED BY <1>7, <2>1, <2>2, <2>3 DEF ApprovalStep
<1>8. CASE CancelApproval /\ UNCHANGED <<tool, effects>>
  <2>1. ~Running' /\ events' = events
    BY <1>8 DEF CancelApproval, Raise, Running, Cancelled
  <2> QED BY <1>0, <1>8, <1>b, <2>1, EffectsStay DEF EffectInv
<1> QED BY <1>2, <1>3, <1>4, <1>5, <1>6, <1>7, <1>8 DEF ToolStep, BrokerStep

-----------------------------------------------------------------------------
(* Counting: an admitted call has a request on record, and at most one     *)
(* call is between its request and its effect.                             *)

Underway == IF Running /\ tool.phase \in {"approving", "executing"} THEN 1 ELSE 0

CountInv ==
  /\ IsFiniteSet(effects)
  /\ Cardinality(effects) + Underway <= Count("tool.requested")
  /\ Count("tool.requested") <= tool_calls
  /\ Count("tool.requested") <= MaxToolCalls

LEMMA RequestsCounted ==
  ASSUME HistoryInv
  PROVE  Count("tool.requested") \in Nat
<1>1. IsFiniteSet(OfType("tool.requested"))
  BY FS_Subset DEF OfType, HistoryInv, HistoryTypeOK
<1> QED BY <1>1, FS_CardinalityType DEF Count

(* Requests are never taken back, and one the store took counts. *)
LEMMA RequestCounts ==
  ASSUME HistoryInv, NEW task, NEW note, EmitThen("tool.requested", task, note, raised)
  PROVE  /\ Count("tool.requested")' \in {Count("tool.requested"), Count("tool.requested") + 1}
         /\ Running' => Count("tool.requested")' = Count("tool.requested") + 1
<1> DEFINE row == Row("tool.requested", task, note)
           type == "tool.requested"
<1>1. IsFiniteSet(OfType(type)) /\ row \notin OfType(type)
  BY NextRowFresh, FS_Subset DEF OfType, HistoryInv, HistoryTypeOK
<1>2. Cardinality(OfType(type) \cup {row}) = Cardinality(OfType(type)) + 1
  BY <1>1, FS_AddElement
<1>3. CASE events' = events \cup {row}
  <2>1. OfType(type)' = OfType(type) \cup {row}
    BY <1>3 DEF OfType, Row
  <2>2. Count(type)' = Count(type) + 1
    BY <1>2, <2>1 DEF Count
  <2> QED BY <2>2
<1>4. CASE events' = events /\ raised' = "StoreError"
  <2>1. Count(type)' = Count(type)
    BY <1>4 DEF Count, OfType
  <2> QED BY <1>4, <2>1 DEF Running
<1> QED BY <1>3, <1>4 DEF EmitThen, Appended, StoreRaises

LEMMA OtherRowsNotCounted ==
  ASSUME HistoryInv, NEW type, type # "tool.requested", NEW task, NEW note, NEW error,
         EmitThen(type, task, note, error)
  PROVE  Count("tool.requested")' = Count("tool.requested")
BY EmitCounts

(* Callers make no requests themselves.                                    *)
LEMMA CallerKeepsCount ==
  ASSUME ToolTypes, CountInv, effects' = effects, Running' => Running, tool_calls' = tool_calls,
         Count("tool.requested")' = Count("tool.requested"),
         tool' = tool \/ tool'.phase \in {"idle", "called"}
  PROVE  CountInv'
<1> DEFINE requests == Count("tool.requested")
<1>0. requests \in Nat /\ Cardinality(effects) \in Nat /\ tool_calls \in Nat
  BY RequestsCounted, FS_CardinalityType DEF ToolTypes, CountInv, BudgetTypeOK
<1>1. Underway \in {0, 1} /\ Underway' \in {0, 1} /\ Underway' <= Underway
  BY DEF Underway
<1> QED BY <1>0, <1>1 DEF CountInv

LEMMA ToolKeepsCount ==
  ASSUME ToolTypes, CountInv, ToolStep
  PROVE  CountInv'
<1> USE DEF Phase
<1> DEFINE requests == Count("tool.requested")
<1>0. /\ requests \in Nat /\ Cardinality(effects) \in Nat /\ tool_calls \in Nat
      /\ MaxToolCalls \in Nat
  BY RequestsCounted, FS_CardinalityType, BudgetAssumption DEF ToolTypes, CountInv, BudgetTypeOK
<1>1. ASSUME effects' = effects, requests' = requests, tool_calls' >= tool_calls,
             tool_calls' \in Nat, Underway' <= Underway
      PROVE  CountInv'
  <2>1. Underway \in {0, 1} /\ Underway' \in {0, 1}
    BY DEF Underway
  <2> QED BY <1>0, <1>1, <2>1 DEF CountInv
<1>2. events' = events => requests' = requests
  BY DEF Count, OfType
<1>4. CASE RefuseTool \/ BudgetRefusesTool
  <2>1. /\ events' = events /\ effects' = effects /\ Underway' = 0
        /\ tool_calls' \in {tool_calls, tool_calls + 1}
    BY <1>4 DEF RefuseTool, BudgetRefusesTool, Raise, budgetVars, Consumed, Underway, Running
  <2> QED BY <1>0, <1>1, <1>2, <2>1 DEF Underway
<1>5. CASE RequestTool
  <2>1. EmitThen("tool.requested", tool.task, tool.name, raised)
    BY <1>5 DEF RequestTool, Emit
  <2>2. /\ requests' \in {requests, requests + 1}
        /\ Running' => requests' = requests + 1
    BY <2>1, RequestCounts DEF ToolTypes
  <2>3. tool_calls' = tool_calls + 1 /\ tool_calls + 1 <= MaxToolCalls /\ effects' = effects
    BY <1>0, <1>5 DEF RequestTool, ToolCallRefused, Refused, Consumed
  <2>4. Underway = 0 /\ Underway' \in {0, 1} /\ (~Running' => Underway' = 0)
    BY <1>5 DEF RequestTool, Underway
  <2> HIDE DEF requests
  <2>5. Cardinality(effects') + Underway' <= requests'
    BY <1>0, <2>2, <2>3, <2>4 DEF CountInv, requests
  <2>6. requests' <= tool_calls' /\ requests' <= MaxToolCalls
    BY <1>0, <2>2, <2>3 DEF CountInv, requests
  <2> QED BY <2>3, <2>5, <2>6 DEF CountInv, requests
<1>6. CASE ToolApproved
  <2>1. events' = events /\ tool_calls' = tool_calls /\ effects' = effects /\ Underway' <= Underway
    BY <1>6 DEF ToolApproved, contextVars, Underway, Running
  <2> QED BY <1>0, <1>1, <1>2, <2>1
<1>7. CASE ToolSucceeds \/ ToolFails
  <2>1. /\ effects' \in {effects, effects \cup {Effect}} /\ Underway = 1 /\ Underway' = 0
        /\ tool_calls' = tool_calls
    BY <1>7 DEF ToolSucceeds, ToolFails, EmitThen, Appended, StoreRaises, budgetVars, Underway,
                Running, ToolTypes, BrokerTypes
  <2>2. requests' = requests
    BY <1>7, OtherRowsNotCounted DEF ToolSucceeds, ToolFails, Emit, ToolTypes
  <2>3. IsFiniteSet(effects') /\ Cardinality(effects') <= Cardinality(effects) + 1
    <3>1. /\ IsFiniteSet(effects \cup {Effect})
          /\ Cardinality(effects \cup {Effect}) \in {Cardinality(effects), Cardinality(effects) + 1}
      BY FS_AddElement DEF CountInv
    <3>2. CASE effects' = effects
      BY <1>0, <3>2 DEF CountInv
    <3>3. CASE effects' = effects \cup {Effect}
      BY <1>0, <3>1, <3>3
    <3> QED BY <2>1, <3>2, <3>3
  <2>4. Cardinality(effects') \in Nat
    BY <2>3, FS_CardinalityType
  <2> QED BY <1>0, <2>1, <2>2, <2>3, <2>4 DEF CountInv
<1>8. CASE (ApprovalStep \/ CancelApproval) /\ UNCHANGED <<tool, effects>>
  <2>1. requests' = requests
    BY <1>2, <1>8, OtherRowsNotCounted
       DEF ApprovalStep, RequestApproval, Decide, ProviderUnavailable, CancelApproval,
           Emit, Raise, ToolTypes
  <2>2. Running /\ tool' = tool /\ effects' = effects /\ tool_calls' = tool_calls
    BY <1>8 DEF ApprovalStep, RequestApproval, Decide, ProviderUnavailable, CancelApproval,
                budgetVars
  <2> QED BY <2>1, <2>2, CallerKeepsCount
<1> QED BY <1>4, <1>5, <1>6, <1>7, <1>8 DEF ToolStep, BrokerStep

-----------------------------------------------------------------------------
(* The component on its own. *)

AskedForTool == approval.phase # "idle" => tool.phase = "approving"

BrokerInv == ToolTypes /\ AskedForTool /\ EffectInv /\ CountInv

LEMMA HistoryInit ==
  ASSUME ContextInit
  PROVE  HistoryInv /\ BudgetTypeOK
<1>1. IsFiniteSet({}) /\ Cardinality({}) = 0
  BY FS_EmptySet
<1>2. HistoryTypeOK
  BY <1>1, BudgetAssumption DEF ContextInit, HistoryTypeOK
<1>3. BudgetTypeOK /\ SequenceNumbersUnique
  BY DEF ContextInit, BudgetTypeOK, SequenceNumbersUnique
<1>4. GapsAreFaults
  <2>1. Cardinality(events) = 0 /\ sequence = 0 /\ store_faults = 0
    BY <1>1 DEF ContextInit
  <2> QED BY <2>1 DEF GapsAreFaults
<1> QED BY <1>2, <1>3, <1>4 DEF HistoryInv, HistoryIntact

LEMMA ToolInvInit ==
  ASSUME ContextInit, GateInit, BrokerInit
  PROVE  ToolTypes /\ EffectInv /\ CountInv
<1>1. IsFiniteSet({}) /\ Cardinality({}) = 0
  BY FS_EmptySet
<1>2. OfType("tool.requested") = {}
  BY DEF ContextInit, OfType
<1>3. ToolTypes
  BY HistoryInit DEF ToolTypes, BrokerTypes, ContextInit, GateInit, NoApproval, BrokerInit, NoTool,
                     Requests
<1>4. EffectInv
  BY DEF BrokerInit, NoTool, EffectInv, OwnApproval, Trail, EffectsRequested
<1>5. CountInv
  BY <1>1, <1>2, BudgetAssumption DEF BrokerInit, NoTool, ContextInit, CountInv, Count, Underway
<1> QED BY <1>3, <1>4, <1>5

LEMMA BrokerInvStep ==
  ASSUME BrokerInv, [BrokerNext]_brokerVars
  PROVE  BrokerInv'
<1>0. /\ ToolTypes /\ BrokerTypes /\ HistoryInv /\ BudgetTypeOK /\ EffectInv /\ CountInv
      /\ AskedForTool /\ sequence \in Nat /\ approval \in Requests
  BY DEF BrokerInv, ToolTypes, BrokerTypes, HistoryInv, HistoryTypeOK
<1>1. CASE CallTool
  <2>1. /\ UNCHANGED <<contextVars, approval, effects>> /\ approval.phase = "idle"
        /\ tool'.phase = "called"
        /\ \E name, task, allowed : /\ tool' = ToolCall(name, task, allowed)
                                    /\ task \in Nat /\ allowed \in SUBSET Tools
    <3>1. PICK name \in Tools \cup {"unregistered"}, allowed \in SUBSET Tools :
            tool' = ToolCall(name, 0, allowed)
      BY <1>1 DEF CallTool
    <3>2. tool'.phase = "called"
      BY <3>1 DEF ToolCall
    <3>3. UNCHANGED <<contextVars, approval, effects>> /\ approval.phase = "idle"
      BY <1>0, <1>1 DEF CallTool, AskedForTool
    <3>4. 0 \in Nat
      OBVIOUS
    <3> QED BY <3>1, <3>2, <3>3, <3>4
  <2>2. /\ HistoryInv' /\ BudgetTypeOK' /\ sequence' = sequence /\ (Running' => Running)
        /\ events' = events /\ tool_calls' = tool_calls
        /\ Count("tool.requested")' = Count("tool.requested")
    BY <1>0, <2>1, QuietKeepsHistory DEF contextVars, BudgetTypeOK, Running, Count, OfType
  <2>3. AskedForTool' /\ OwnApproval'
    BY <2>1 DEF AskedForTool, OwnApproval
  <2>4. ToolTypes'
    BY <1>0, <2>1, <2>2, CallerKeepsBrokerTypes DEF ToolTypes
  <2>5. EffectInv' /\ CountInv'
    BY <1>0, <2>1, <2>2, <2>3, CallerKeepsEffects, CallerKeepsCount
  <2> QED BY <2>3, <2>4, <2>5 DEF BrokerInv
<1>2. CASE ToolStep
  <2>1. AskedForTool'
    <3>1. CASE BrokerStep
      BY <1>0, <3>1 DEF AskedForTool, BrokerTypes, Requests, BrokerStep, RefuseTool,
                        BudgetRefusesTool, RequestTool, ToolApproved, ToolSucceeds, ToolFails,
                        NoApproval, Phase
    <3>2. CASE (ApprovalStep \/ CancelApproval) /\ UNCHANGED <<tool, effects>>
      BY <1>0, <3>2 DEF AskedForTool, ApprovalStep, RequestApproval, Decide, ProviderUnavailable,
                        CancelApproval
    <3> QED BY <1>2, <3>1, <3>2 DEF ToolStep
  <2> QED BY <1>0, <1>2, <2>1, ToolKeepsTypes, ToolKeepsEffects, ToolKeepsCount DEF BrokerInv
<1>3. CASE (ClockPasses /\ UNCHANGED <<approval, tool, effects>>) \/ UNCHANGED brokerVars
  <2>1. /\ UNCHANGED <<sequence, events, raised, store_faults, tool_calls>> /\ BudgetTypeOK'
        /\ UNCHANGED <<approval, tool, effects>>
    BY <1>0, <1>3 DEF ClockPasses, brokerVars, gateVars, contextVars, BudgetTypeOK
  <2>2. /\ HistoryInv' /\ (Running' => Running) /\ OwnApproval' /\ AskedForTool'
        /\ Count("tool.requested")' = Count("tool.requested")
    BY <1>0, <2>1, QuietKeepsHistory
       DEF Running, Count, OfType, EffectInv, OwnApproval, AskedForTool
  <2>3. ToolTypes'
    BY <1>0, <2>1, <2>2, CallerKeepsBrokerTypes DEF ToolTypes
  <2>4. EffectInv' /\ CountInv'
    BY <1>0, <2>1, <2>2, CallerKeepsEffects, CallerKeepsCount
  <2> QED BY <2>2, <2>3, <2>4 DEF BrokerInv
<1> QED BY <1>1, <1>2, <1>3 DEF BrokerNext, ToolStep, GateStep

LEMMA BrokerInvariance == BrokerSpec => []BrokerInv
<1>1. BrokerStart => BrokerInv
  BY ToolInvInit DEF BrokerStart, BrokerInv, AskedForTool, GateInit, NoApproval
<1>2. BrokerInv /\ [BrokerNext]_brokerVars => BrokerInv'
  BY BrokerInvStep
<1> QED BY <1>1, <1>2, PTL DEF BrokerSpec

(* What the tool calls of a run guarantee, in whatever run they are made.  *)
LEMMA EffectInvImplies ==
  ASSUME ToolTypes, EffectInv, CountInv
  PROVE  GatedEffectsApproved /\ EffectsWithinBudget
<1>0. EffectsRequested
  BY DEF EffectInv
<1>1. GatedEffectsApproved
  BY <1>0 DEF EffectsRequested, EffectRequested, Approved, GatedEffectsApproved
<1>2. \A f \in effects : \E e \in OfType("tool.requested") :
        e.note = f.tool /\ e.sequence \in (f.at - 2)..f.at
  <2> SUFFICES ASSUME NEW f \in effects
               PROVE  \E e \in OfType("tool.requested") :
                        e.note = f.tool /\ e.sequence \in (f.at - 2)..f.at
    OBVIOUS
  <2>1. f.at \in Nat
    BY DEF ToolTypes, BrokerTypes
  <2>2. EventAt(f.at - 2, "tool.requested", f.tool) \/ EventAt(f.at, "tool.requested", f.tool)
    BY <1>0 DEF EffectsRequested, EffectRequested, Approved
  <2> QED BY <2>1, <2>2 DEF EventAt, OfType
<1>3. Underway \in {0, 1} /\ Cardinality(effects) \in Nat /\ Count("tool.requested") \in Nat
  BY RequestsCounted, FS_CardinalityType DEF ToolTypes, CountInv, Underway
<1>4. /\ Cardinality(effects) <= Count("tool.requested")
      /\ Count("tool.requested") <= MaxToolCalls
  BY <1>3, BudgetAssumption DEF CountInv
<1> QED BY <1>1, <1>2, <1>4 DEF EffectsWithinBudget

(* Type correctness; in particular only registered tools ever execute.     *)
THEOREM BrokerTypeCorrect == BrokerSpec => []BrokerTypeOK
<1>1. BrokerInv => BrokerTypeOK
  BY DEF BrokerInv, ToolTypes, BrokerTypes, HistoryInv, BrokerTypeOK, ContextTypeOK, GateTypeOK,
         Requests
<1> QED BY <1>1, BrokerInvariance, PTL

(* No gated tool touches the workspace without an approval of its own.     *)
THEOREM GatedEffectsStayApproved == BrokerSpec => []GatedEffectsApproved
<1>1. BrokerInv => GatedEffectsApproved
  BY EffectInvImplies DEF BrokerInv
<1> QED BY <1>1, BrokerInvariance, PTL

(* Effects stay within the budget, and each was requested on record first. *)
THEOREM EffectsStayWithinBudget == BrokerSpec => []EffectsWithinBudget
<1>1. BrokerInv => EffectsWithinBudget
  BY EffectInvImplies DEF BrokerInv
<1> QED BY <1>1, BrokerInvariance, PTL
-----------------------------------------------------------------------------
(* The types of the frames of a task, and what they need: that a tool call *)
(* underway has a row on record (for the time of its effect), and that a   *)
(* revision is asked for only while one is left.  Nothing here says whose  *)
(* the approval in progress is, so that it holds in a whole run as well.   *)

WorkTypes ==
  /\ work = [phase |-> work.phase, task |-> work.task, allowed |-> work.allowed,
             revision |-> work.revision, results |-> work.results, requests |-> work.requests,
             usage |-> work.usage]
  /\ WorkTypeOK
  /\ work.allowed \in SUBSET Tools
  /\ Running /\ work.phase = "revising" => work.revision < MaxRevisions

FrameTypes == CallInv /\ BrokerTypes /\ WorkTypes

(* A caller sets up a call, drops it, or leaves it.                        *)
LEMMA CallerKeepsTypes ==
  ASSUME CallInv, HistoryInv', BudgetTypeOK', Running' => Running,
         \/ call' = call
         \/ call' = NoCall
         \/ \E schema \in Schemas, task \in Nat : call' = Calling(schema, task)
  PROVE  CallInv'
<1> USE ParseRetriesAssumption
<1>1. CASE call' = call
  BY <1>1 DEF CallInv, CallTypeOK, AttemptsLeft
<1>2. CASE call' = NoCall
  BY <1>2 DEF CallInv, NoCall, CallTypeOK, AttemptsLeft
<1>3. CASE \E schema \in Schemas, task \in Nat : call' = Calling(schema, task)
  BY <1>3 DEF CallInv, Calling, CallTypeOK, AttemptsLeft
<1> QED BY <1>1, <1>2, <1>3

ExecutorRows ==
  {"agent.started", "artifact.created", "review.requested", "review.completed",
   "task.completed", "task.revision_requested"}

(* What the executor does to the log and to the call and tool below it.    *)
LEMMA ExecutorKeepsHistory ==
  ASSUME FrameTypes, ExecutorStep
  PROVE  /\ HistoryInv' /\ BudgetTypeOK' /\ Running
         /\ sequence' \in {sequence, sequence + 1}
         /\ UNCHANGED <<approval, effects>>
<1> USE DEF At
<1>0. /\ HistoryInv /\ BudgetTypeOK /\ sequence \in Nat /\ raised \in Raisable /\ work.task \in Nat
      /\ store_faults \in 0..MaxStoreFaults
  BY DEF FrameTypes, CallInv, HistoryInv, HistoryTypeOK, WorkTypes, WorkTypeOK, Raisable
<1>1. Running /\ BudgetTypeOK' /\ UNCHANGED <<approval, effects>>
  BY <1>0 DEF ExecutorStep, BeginRevision, StartTools, NextTool, ContinueWork, AcceptProduct,
              SaveArtifact, AnnounceArtifact, RequestReview, RecordReview, CompleteTask,
              RequestRevision, contextVars, budgetVars, BudgetTypeOK
<1>2. ASSUME NEW type \in ExecutorRows, NEW note, NEW error \in Raisable,
             EmitThen(type, work.task, note, error)
      PROVE  HistoryInv' /\ sequence' = sequence + 1
  <2>1. RowOK(Row(type, work.task, note))
    BY <1>0 DEF RowOK, Row, EventTypes, ExecutorRows
  <2> QED BY <1>0, <1>2, <2>1, EmitKeepsHistory DEF EmitThen
<1>3. CASE BeginRevision \/ AnnounceArtifact \/ RequestReview \/ CompleteTask \/ RequestRevision
  <2>1. \E type \in ExecutorRows : EmitThen(type, work.task, "", raised)
    BY <1>3 DEF BeginRevision, AnnounceArtifact, RequestReview, CompleteTask, RequestRevision, Emit,
                ExecutorRows
  <2> QED BY <1>0, <1>1, <1>2, <2>1
<1>4. CASE StartTools \/ NextTool \/ ContinueWork \/ AcceptProduct
  <2>1. UNCHANGED contextVars
    BY <1>4 DEF StartTools, NextTool, ContinueWork, AcceptProduct
  <2> QED BY <1>0, <1>1, <2>1, QuietKeepsHistory DEF contextVars
<1>5. CASE SaveArtifact
  <2>1. Quiet \/ (StoreRaises /\ UNCHANGED <<sequence, events>>)
    BY <1>5 DEF SaveArtifact, StoreArtifact
  <2> QED BY <1>0, <1>1, <2>1, QuietKeepsHistory, FaultKeepsHistory DEF Quiet
<1>6. CASE RecordReview
  <2>1. EmitThen("review.completed", work.task, call.value, ReviewError(call.value))
    BY <1>6 DEF RecordReview
  <2>2. ReviewError(call.value) \in Raisable
    BY <1>0 DEF ReviewError, Raisable, Errors
  <2>3. "review.completed" \in ExecutorRows
    BY DEF ExecutorRows
  <2> QED BY <1>1, <1>2, <2>1, <2>2, <2>3
<1> QED BY <1>3, <1>4, <1>5, <1>6 DEF ExecutorStep

LEMMA ExecutorKeepsCall ==
  ASSUME FrameTypes, ExecutorStep
  PROVE  CallInv' /\ BrokerTypes'
<1>0. /\ work.task \in Nat /\ work.allowed \in SUBSET Tools
      /\ CallInv /\ BrokerTypes /\ sequence \in Nat
  BY DEF FrameTypes, WorkTypes, WorkTypeOK, CallInv, HistoryInv, HistoryTypeOK
<1>1. \/ call' \in {call, NoCall}
      \/ \E schema \in Schemas, task \in Nat : call' = Calling(schema, task)
  BY <1>0, SchemasAssumption
     DEF ExecutorStep, BeginRevision, StartTools, NextTool, ContinueWork, AcceptProduct,
         SaveArtifact, AnnounceArtifact, RequestReview, RecordReview, CompleteTask,
         RequestRevision, AskSpecialist, AskCritic
<1>2. \/ tool' \in {tool, NoTool}
      \/ \E name, task, allowed : /\ tool' = ToolCall(name, task, allowed)
                                  /\ task \in Nat /\ allowed \in SUBSET Tools
  BY <1>0
     DEF ExecutorStep, BeginRevision, StartTools, NextTool, ContinueWork, AcceptProduct,
         SaveArtifact, AnnounceArtifact, RequestReview, RecordReview, CompleteTask,
         RequestRevision
<1>3. approval' \in Requests
  BY <1>0, ExecutorKeepsHistory DEF BrokerTypes
<1>4. CallInv'
  BY <1>0, <1>1, ExecutorKeepsHistory, CallerKeepsTypes
<1>5. BrokerTypes'
  BY <1>0, <1>2, <1>3, ExecutorKeepsHistory, CallerKeepsBrokerTypes
<1> QED BY <1>4, <1>5

(* The executor's own locals, and the artifacts it saves.                  *)
LEMMA ExecutorKeepsWork ==
  ASSUME FrameTypes, ExecutorStep
  PROVE  WorkTypes'
<1> USE DEF At
<1>0. /\ WorkTypes /\ call.usage \in Nat /\ Running
      /\ call.phase = "returned" => call.value \in Outputs[call.schema]
      /\ work.task \in Nat /\ work.revision \in 0..MaxRevisions /\ work.usage \in Nat
      /\ work.results \in Seq(Tools) /\ work.allowed \in SUBSET Tools
      /\ \A a \in artifacts : a.revision \in Nat /\ a.tool_results \in Seq(Tools)
  BY ExecutorKeepsHistory DEF FrameTypes, WorkTypes, WorkTypeOK, CallInv, CallTypeOK
<1>s. work = [phase |-> work.phase, task |-> work.task, allowed |-> work.allowed,
              revision |-> work.revision, results |-> work.results,
              requests |-> work.requests, usage |-> work.usage]
  BY <1>0 DEF WorkTypes
<1>1. ASSUME NEW phase \in {"starting", "working", "tools", "saving", "announcing", "submitting",
                            "reviewing", "passed", "done"},
             NEW revision \in 0..MaxRevisions, NEW results \in Seq(Tools), NEW requests,
             NEW usage \in Nat,
             work' = [phase |-> phase, task |-> work.task, allowed |-> work.allowed,
                      revision |-> revision, results |-> results, requests |-> requests,
                      usage |-> usage],
             artifacts' \in {artifacts, artifacts \cup {Artifact}}
      PROVE  WorkTypes'
  <2>1. Artifact.revision \in Nat /\ Artifact.tool_results \in Seq(Tools)
    BY <1>0, RevisionsAssumption DEF Artifact
  <2>2. \A a \in artifacts' : a.revision \in Nat /\ a.tool_results \in Seq(Tools)
    BY <1>0, <1>1, <2>1
  <2> QED BY <1>0, <1>1, <2>2 DEF WorkTypes, WorkTypeOK
<1>2. CASE BeginRevision
  <2>1. /\ work' = [phase |-> "working", task |-> work.task, allowed |-> work.allowed,
                    revision |-> work.revision, results |-> <<>>, requests |-> work.requests,
                    usage |-> work.usage]
        /\ artifacts' = artifacts
    BY <1>s, <1>2 DEF BeginRevision
  <2>2. <<>> \in Seq(Tools)
    OBVIOUS
  <2> QED BY <1>0, <1>1, <2>1, <2>2
<1>3. CASE StartTools
  <2>1. /\ work' = [phase |-> "tools", task |-> work.task, allowed |-> work.allowed,
                    revision |-> work.revision, results |-> work.results,
                    requests |-> call.value, usage |-> work.usage + call.usage]
        /\ artifacts' = artifacts
    BY <1>s, <1>3 DEF StartTools
  <2>2. work.usage + call.usage \in Nat
    BY <1>0
  <2> QED BY <1>0, <1>1, <2>1, <2>2
<1>4. CASE NextTool \/ ContinueWork
  <2>1. tool.name \in Tools
    BY <1>4 DEF NextTool, ContinueWork, ToolDone, Phase, FrameTypes, BrokerTypes
  <2>2. Observed \in Seq(Tools)
    BY <1>0, <2>1 DEF Observed
  <2>3. /\ \E phase \in {"tools", "working"} : \E requests :
             work' = [phase |-> phase, task |-> work.task, allowed |-> work.allowed,
                      revision |-> work.revision, results |-> Observed,
                      requests |-> requests, usage |-> work.usage]
        /\ artifacts' = artifacts
    BY <1>s, <1>4 DEF NextTool, ContinueWork
  <2> QED BY <1>0, <1>1, <2>2, <2>3
<1>5. CASE AcceptProduct \/ RecordReview
  <2>1. /\ \E phase \in {"saving", "passed", "revising"} :
             /\ work' = [phase |-> phase, task |-> work.task, allowed |-> work.allowed,
                         revision |-> work.revision, results |-> work.results,
                         requests |-> work.requests, usage |-> work.usage + call.usage]
             /\ phase = "revising" /\ Running' => work.revision < MaxRevisions
        /\ artifacts' = artifacts
    <3>1. CASE AcceptProduct
      BY <1>s, <3>1 DEF AcceptProduct
    <3>2. CASE RecordReview
      <4>1. /\ EmitThen("review.completed", work.task, call.value, ReviewError(call.value))
            /\ call.value \in {"pass", "revise", "fail"}
        BY <1>0, <3>2, ReviewAssumption DEF RecordReview, Returned
      <4>2. ReviewError(call.value) # "none" => ~Running'
        BY <4>1 DEF EmitThen, Appended, StoreRaises, Running
      <4>3. ASSUME Running', PhaseAfter(call.value) = "revising"
            PROVE  work.revision < MaxRevisions
        <5>1. call.value = "revise" \/ call.value = "fail"
          BY <4>1, <4>3 DEF PhaseAfter
        <5>2. ~RevisionLimitReached
          BY <4>2, <4>3, <5>1 DEF ReviewError
        <5> QED BY <1>0, <5>2, RevisionsAssumption DEF RevisionLimitReached
      <4>4. PhaseAfter(call.value) \in {"passed", "revising"}
        BY DEF PhaseAfter
      <4>5. /\ work' = [phase |-> PhaseAfter(call.value), task |-> work.task,
                        allowed |-> work.allowed, revision |-> work.revision,
                        results |-> work.results, requests |-> work.requests,
                        usage |-> work.usage + call.usage]
            /\ artifacts' = artifacts
        BY <1>s, <3>2 DEF RecordReview
      <4> QED BY <4>3, <4>4, <4>5
    <3> QED BY <1>5, <3>1, <3>2
  <2>2. work.usage + call.usage \in Nat
    BY <1>0
  <2> QED BY <1>0, <1>1, <2>1, <2>2 DEF WorkTypes, WorkTypeOK
<1>6. CASE SaveArtifact \/ AnnounceArtifact \/ RequestReview \/ CompleteTask
  <2>1. /\ \E phase \in {"announcing", "submitting", "reviewing", "done"} :
             work' = [phase |-> phase, task |-> work.task, allowed |-> work.allowed,
                      revision |-> work.revision, results |-> work.results,
                      requests |-> work.requests, usage |-> work.usage]
        /\ artifacts' \in {artifacts, artifacts \cup {Artifact}}
    BY <1>s, <1>6 DEF SaveArtifact, StoreArtifact, AnnounceArtifact, RequestReview, CompleteTask
  <2> QED BY <1>0, <1>1, <2>1
<1>7. CASE RequestRevision
  <2>1. /\ work' = [phase |-> "starting", task |-> work.task, allowed |-> work.allowed,
                    revision |-> work.revision + 1, results |-> work.results,
                    requests |-> work.requests, usage |-> work.usage]
        /\ artifacts' = artifacts /\ work.phase = "revising"
    BY <1>s, <1>7 DEF RequestRevision
  <2>2. work.revision + 1 \in 0..MaxRevisions
    BY <1>0, <2>1, RevisionsAssumption DEF WorkTypes
  <2> QED BY <1>0, <1>1, <2>1, <2>2
<1> QED BY <1>2, <1>3, <1>4, <1>5, <1>6, <1>7 DEF ExecutorStep

(* Steps of the frames above and below leave the executor's locals alone.  *)
LEMMA OthersKeepWork ==
  ASSUME WorkTypes, UNCHANGED <<work, artifacts>>, Running' => Running
  PROVE  WorkTypes'
BY DEF WorkTypes, WorkTypeOK

LEMMA AgentKeepsTypes ==
  ASSUME FrameTypes, AgentStep \/ CancelCall, UNCHANGED <<approval, tool, effects, work, artifacts>>
  PROVE  FrameTypes'
<1>1. CallInv'
  BY CallInvStep DEF FrameTypes, AgentNext
<1>2. Running /\ sequence \in Nat /\ sequence' \in {sequence, sequence + 1}
  BY DEF FrameTypes, CallInv, HistoryInv, HistoryTypeOK, AgentStep, GuardRefuses, RequestModel,
         AnswerParses, AnswerMalformed, ProviderFails, RejectOutput, CancelCall, Emit, EmitThen,
         Raise
<1>3. approval' \in Requests
  BY DEF FrameTypes, BrokerTypes
<1> QED BY <1>1, <1>2, <1>3, CallerKeepsBrokerTypes, OthersKeepWork DEF FrameTypes

LEMMA QuietKeepsTypes ==
  ASSUME FrameTypes, UNCHANGED <<sequence, events, raised, store_faults>>, BudgetTypeOK',
         UNCHANGED <<approval, call, tool, effects, work, artifacts>>
  PROVE  FrameTypes'
<1>1. Running' => Running
  BY DEF Running
<1>2. HistoryInv'
  BY QuietKeepsHistory DEF FrameTypes, CallInv
<1>3. approval' \in Requests /\ sequence \in Nat
  BY DEF FrameTypes, BrokerTypes, CallInv, HistoryInv, HistoryTypeOK
<1> QED BY <1>1, <1>2, <1>3, CallerKeepsTypes, CallerKeepsBrokerTypes, OthersKeepWork DEF FrameTypes

LEMMA TaskStepKeepsTypes ==
  ASSUME FrameTypes, TaskStep \/ Cancel
  PROVE  FrameTypes'
<1>1. CASE ExecutorStep
  BY <1>1, ExecutorKeepsCall, ExecutorKeepsWork DEF FrameTypes
<1>2. CASE (AgentStep \/ CancelCall) /\ UNCHANGED <<approval, tool, effects, work, artifacts>>
  BY <1>2, AgentKeepsTypes
<1>3. CASE ToolStep /\ UNCHANGED <<call, work, artifacts>>
  <2>1. Running
    BY <1>3, ToolRuns
  <2>2. ToolTypes'
    BY <1>3, ToolKeepsTypes DEF ToolTypes, FrameTypes, CallInv
  <2>3. CallInv'
    BY <1>3, <2>1, <2>2, CallerKeepsTypes DEF FrameTypes, ToolTypes
  <2> QED BY <1>3, <2>1, <2>2, <2>3, OthersKeepWork DEF FrameTypes, ToolTypes
<1> QED BY <1>1, <1>2, <1>3 DEF TaskStep, Cancel, GateStep, ToolStep

LEMMA FrameTypesInit ==
  ASSUME ContextInit, GateInit, AgentInit, BrokerInit, TaskInit
  PROVE  FrameTypes
<1>1. CallInv
  BY CallInvInit
<1>2. BrokerTypes
  BY DEF ContextInit, GateInit, NoApproval, BrokerInit, NoTool, BrokerTypes, Requests
<1>3. WorkTypes
  BY RevisionsAssumption DEF TaskInit, NoWork, WorkTypes, WorkTypeOK
<1> QED BY <1>1, <1>2, <1>3 DEF FrameTypes

LEMMA TaskTypesStep ==
  ASSUME FrameTypes, [TaskNext]_taskVars
  PROVE  FrameTypes'
<1>1. CASE AssignTask
  <2>1. PICK allowed \in SUBSET Tools : work' = Execute(1, allowed)
    BY <1>1 DEF AssignTask
  <2>2. UNCHANGED <<contextVars, approval, call, tool, effects, artifacts>>
    BY <1>1 DEF AssignTask
  <2>3. WorkTypes'
    BY <2>1, <2>2, RevisionsAssumption DEF FrameTypes, WorkTypes, WorkTypeOK, Execute
  <2>4. /\ HistoryInv' /\ BudgetTypeOK' /\ (Running' => Running)
        /\ sequence \in Nat /\ sequence' = sequence /\ approval' \in Requests
    BY <2>2, QuietKeepsHistory DEF FrameTypes, CallInv, HistoryInv, HistoryTypeOK, BrokerTypes,
                                   contextVars, BudgetTypeOK, Running
  <2> QED BY <2>2, <2>3, <2>4, CallerKeepsTypes, CallerKeepsBrokerTypes DEF FrameTypes
<1>2. CASE ClockPasses /\ UNCHANGED <<approval, call, tool, effects, work, artifacts>>
  <2>1. BudgetTypeOK'
    BY <1>2 DEF ClockPasses, FrameTypes, CallInv, BudgetTypeOK
  <2> QED BY <1>2, <2>1, QuietKeepsTypes DEF ClockPasses
<1>3. CASE UNCHANGED taskVars
  <2>1. BudgetTypeOK'
    BY <1>3 DEF taskVars, contextVars, FrameTypes, CallInv, BudgetTypeOK
  <2> QED BY <1>3, <2>1, QuietKeepsTypes DEF taskVars, contextVars
<1> QED BY <1>1, <1>2, <1>3, TaskStepKeepsTypes DEF TaskNext

LEMMA FrameTypesOK ==
  ASSUME FrameTypes
  PROVE  TaskTypeOK
BY DEF FrameTypes, CallInv, HistoryInv, BrokerTypes, WorkTypes, Requests, TaskTypeOK, AgentTypeOK,
       BrokerTypeOK, ContextTypeOK, GateTypeOK

(* Types, for one task: among them that every effect and every observation *)
(* is of a registered tool, and that no revision exceeds the limit.        *)
THEOREM TaskTypeCorrect == TaskSpec => []TaskTypeOK
<1>1. TaskStart => FrameTypes
  BY FrameTypesInit DEF TaskStart
<1>2. FrameTypes /\ [TaskNext]_taskVars => FrameTypes'
  BY TaskTypesStep
<1>3. FrameTypes => TaskTypeOK
  BY FrameTypesOK
<1> QED BY <1>1, <1>2, <1>3, PTL DEF TaskSpec

-----------------------------------------------------------------------------
(* The executor.  The rows of a revision are found by counting the         *)
(* agent.started rows before them; an appended row changes no earlier      *)
(* count.  A run executes several tasks one after another on one log, so   *)
(* everything is said of one task, id, among whatever others do.           *)

(* The rows the properties of a task speak of. *)
TaskRows ==
  {"agent.started", "tool.completed", "artifact.created", "review.completed", "task.completed"}

TaskLogInv ==
  /\ sequence \in Nat
  /\ IsFiniteSet(events)
  /\ \A e \in events : e.sequence \in 1..sequence

Attempts(id) == OfTask("agent.started", id)

(* A row of the task, stored or not: not, only if the store raised.        *)
Emits(id, type, note, e) ==
  /\ e.sequence = sequence + 1 /\ e.type = type /\ e.task = id /\ e.note = note
  /\ sequence' = sequence + 1
  /\ events' \in {events, events \cup {e}}
  /\ Running' => events' = events \cup {e}

(* The log stays, or gets a row of no concern to the task.                 *)
EmitsNone(id) ==
  \/ UNCHANGED <<sequence, events>>
  \/ /\ sequence' = sequence + 1
     /\ \/ events' = events
        \/ \E e : /\ events' = events \cup {e}
                  /\ e.sequence = sequence + 1 /\ (e.type \notin TaskRows \/ e.task # id)

LEMMA TaskRowEmitted ==
  ASSUME NEW id, NEW type, NEW note, NEW error, EmitThen(type, id, note, error)
  PROVE  \E e : Emits(id, type, note, e)
<1>1. Emits(id, type, note, Row(type, id, note))
  BY DEF EmitThen, Appended, StoreRaises, Emits, Running, Row
<1> QED BY <1>1

LEMMA OtherRowEmitted ==
  ASSUME NEW id, NEW type, NEW task, NEW note, NEW error, type \notin TaskRows \/ task # id,
         EmitThen(type, task, note, error)
  PROVE  EmitsNone(id)
BY DEF EmitThen, Appended, Row, EmitsNone

LEMMA OtherRowRead ==
  ASSUME NEW id, EmitsNone(id)
  PROVE  /\ \A type \in TaskRows : OfTask(type, id)' = OfTask(type, id)
         /\ \A e : Revision(id, e)' = Revision(id, e)
         /\ \A type \in TaskRows : \A n : InRevision(type, id, n)' = InRevision(type, id, n)
         /\ events \subseteq events'
<1>1. \A type \in TaskRows : OfTask(type, id)' = OfTask(type, id)
  BY DEF EmitsNone, OfTask, OfType
<1>2. OfTask("agent.started", id)' = OfTask("agent.started", id)
  BY <1>1 DEF TaskRows
<1>3. \A e : Revision(id, e)' = Revision(id, e)
  BY <1>2 DEF Revision
<1>4. \A type \in TaskRows : \A n : InRevision(type, id, n)' = InRevision(type, id, n)
  BY <1>1, <1>3 DEF InRevision
<1> QED BY <1>1, <1>3, <1>4 DEF EmitsNone

LEMMA AttemptsFinite ==
  ASSUME NEW id, TaskLogInv
  PROVE  /\ IsFiniteSet(Attempts(id)) /\ Cardinality(Attempts(id)) \in Nat
         /\ \A e : /\ Revision(id, e) \in Int
                   /\ Revision(id, e) <= Cardinality(Attempts(id)) - 1
<1>1. IsFiniteSet(Attempts(id))
  BY FS_Subset DEF TaskLogInv, Attempts, OfTask, OfType
<1>2. \A e : {f \in Attempts(id) : f.sequence <= e.sequence} \subseteq Attempts(id)
  OBVIOUS
<1> QED BY <1>1, <1>2, FS_CardinalityType, FS_Subset DEF Revision, Attempts

(* A row of the task changes nothing about the rows before it, and belongs *)
(* to the latest attempt, or is the next one.                              *)
LEMMA TaskRowRead ==
  ASSUME NEW id, TaskLogInv, NEW type, NEW note, NEW row, Emits(id, type, note, row)
  PROVE  /\ events \subseteq events'
         /\ \A e \in events : Revision(id, e)' = Revision(id, e)
         /\ \A t, n : InRevision(t, id, n) \subseteq InRevision(t, id, n)'
         /\ \A t, n : t # type => InRevision(t, id, n)' = InRevision(t, id, n)
<1>1. row.sequence = sequence + 1 /\ row.type = type /\ row.task = id
  BY DEF Emits
<1>2. events' = events \/ events' = events \cup {row}
  BY DEF Emits
<1>3. \A e \in events : /\ sequence \in Nat /\ e.sequence \in Nat
                        /\ ~ (row.sequence <= e.sequence)
  BY <1>1 DEF TaskLogInv
<1>4. ASSUME NEW e \in events
      PROVE  Revision(id, e)' = Revision(id, e)
  <2>1. {f \in OfTask("agent.started", id)' : f.sequence <= e.sequence}
          = {f \in OfTask("agent.started", id) : f.sequence <= e.sequence}
    BY <1>2, <1>3 DEF OfTask, OfType
  <2> QED BY <2>1 DEF Revision
<1>5. ASSUME NEW t
      PROVE  /\ OfTask(t, id) \subseteq OfTask(t, id)'
             /\ OfTask(t, id) \subseteq events
             /\ t # type => OfTask(t, id)' = OfTask(t, id)
  BY <1>1, <1>2 DEF OfTask, OfType
<1> QED BY <1>2, <1>4, <1>5 DEF InRevision

LEMMA NewRowRead ==
  ASSUME NEW id, TaskLogInv, NEW type, NEW note, NEW row, Emits(id, type, note, row),
         type # "agent.started", NEW n
  PROVE  /\ Attempts(id)' = Attempts(id)
         /\ n # Cardinality(Attempts(id)) - 1 => InRevision(type, id, n)' = InRevision(type, id, n)
         /\ n = Cardinality(Attempts(id)) - 1 /\ Running' =>
              InRevision(type, id, n)' = InRevision(type, id, n) \cup {row}
         /\ InRevision(type, id, n)' \subseteq InRevision(type, id, n) \cup {row}
<1>1. row.sequence = sequence + 1 /\ row.type = type /\ row.task = id
  BY DEF Emits
<1>2. events' = events \/ events' = events \cup {row}
  BY DEF Emits
<1>3. Running' => events' = events \cup {row}
  BY DEF Emits
<1>4. OfTask("agent.started", id)' = OfTask("agent.started", id)
  BY <1>1, <1>2 DEF OfTask, OfType
<1>5. Revision(id, row)' = Cardinality(Attempts(id)) - 1
  <2>1. \A f \in OfTask("agent.started", id) : f.sequence <= row.sequence
    BY <1>1 DEF TaskLogInv, OfTask, OfType
  <2>2. {f \in OfTask("agent.started", id)' : f.sequence <= row.sequence} = Attempts(id)
    BY <1>4, <2>1 DEF Attempts
  <2> QED BY <2>2 DEF Revision
<1>6. /\ events' = events => OfTask(type, id)' = OfTask(type, id)
      /\ events' = events \cup {row} => OfTask(type, id)' = OfTask(type, id) \cup {row}
      /\ OfTask(type, id) \subseteq events
  BY <1>1 DEF OfTask, OfType
<1>7. \A e \in OfTask(type, id) : Revision(id, e)' = Revision(id, e)
  BY <1>6, TaskRowRead
<1> QED BY <1>2, <1>3, <1>4, <1>5, <1>6, <1>7 DEF InRevision, Attempts

(* The next attempt: its row opens the next revision.                      *)
LEMMA AttemptRead ==
  ASSUME NEW id, TaskLogInv, NEW note, NEW row, Emits(id, "agent.started", note, row)
  PROVE  /\ Attempts(id)' \in {Attempts(id), Attempts(id) \cup {row}}
         /\ Running' => Cardinality(Attempts(id))' = Cardinality(Attempts(id)) + 1
         /\ row \in events' =>
              Revision(id, row)' = Cardinality(Attempts(id))
<1>1. row.sequence = sequence + 1 /\ row.type = "agent.started" /\ row.task = id
  BY DEF Emits
<1>2. /\ events' = events \/ events' = events \cup {row}
      /\ Running' => events' = events \cup {row}
  BY DEF Emits
<1>3. row \notin events /\ sequence \in Nat
  BY <1>1 DEF TaskLogInv
<1>4. events' = events => Attempts(id)' = Attempts(id)
  BY DEF Attempts, OfTask, OfType
<1>5. events' = events \cup {row} => Attempts(id)' = Attempts(id) \cup {row}
  BY <1>1 DEF Attempts, OfTask, OfType
<1>6. /\ row \notin Attempts(id)
      /\ \A f \in Attempts(id) : f.sequence <= row.sequence
  BY <1>1, <1>3 DEF TaskLogInv, Attempts, OfTask, OfType
<1>7. Cardinality(Attempts(id) \cup {row}) = Cardinality(Attempts(id)) + 1
  BY <1>6, AttemptsFinite, FS_AddElement
<1>8. ASSUME row \in events'
      PROVE  Revision(id, row)' = Cardinality(Attempts(id))
  <2>1. Attempts(id)' = Attempts(id) \cup {row}
    BY <1>2, <1>3, <1>5, <1>8
  <2>2. {f \in Attempts(id)' : f.sequence <= row.sequence} = Attempts(id) \cup {row}
    BY <1>1, <1>3, <1>6, <2>1
  <2>3. Revision(id, row)' = Cardinality(Attempts(id) \cup {row}) - 1
    BY <2>2 DEF Revision, Attempts
  <2> QED BY <1>7, <2>3, AttemptsFinite
<1>9. Running' => Cardinality(Attempts(id))' = Cardinality(Attempts(id)) + 1
  BY <1>2, <1>5, <1>7
<1> QED BY <1>2, <1>4, <1>5, <1>8, <1>9

-----------------------------------------------------------------------------
(* What a step is to a task: its assignment, a step of its executor, the   *)
(* completion of a tool it asked for, or nothing it notices.               *)

ArtifactsOf(id) == {a \in artifacts : a.task = id}

Live(id) == Running /\ work.task = id /\ work.phase # "idle"

(* Nothing has been said or stored of the task yet. *)
Fresh(id) ==
  /\ \A e \in events : e.type \in TaskRows => e.task # id
  /\ ArtifactsOf(id) = {}

Assigns(id) ==
  /\ Fresh(id)
  /\ UNCHANGED <<sequence, events, artifacts>>
  /\ work'.phase = "starting" /\ work'.task = id
  /\ work'.revision = 0 /\ work'.results = <<>>

Executes(id) == Live(id) /\ ExecutorStep

CompletesTool(id) ==
  /\ Live(id) /\ work.phase = "tools" /\ tool.task = id
  /\ ToolSucceeds
  /\ UNCHANGED <<work, artifacts>>

(* Others move while the executor waits, or the clock does. *)
Waits(id) ==
  /\ EmitsNone(id)
  /\ UNCHANGED <<work, artifacts>>
  /\ Running' => Running
  /\ Live(id) /\ work.phase = "tools" =>
       tool' = tool \/ (tool.phase # "done" /\ tool'.phase # "done")

(* Another task is executed, or none. *)
Elsewhere(id) == EmitsNone(id) /\ ArtifactsOf(id)' = ArtifactsOf(id) /\ ~Live(id)'

Moves(id) == Assigns(id) \/ Executes(id) \/ CompletesTool(id) \/ Waits(id) \/ Elsewhere(id)

(* What the executor needs of the types. *)
Shapes ==
  /\ work = [phase |-> work.phase, task |-> work.task, allowed |-> work.allowed,
             revision |-> work.revision, results |-> work.results, requests |-> work.requests,
             usage |-> work.usage]
  /\ tool = [phase |-> tool.phase, name |-> tool.name, task |-> tool.task,
             allowed |-> tool.allowed]
  /\ call.phase = "returned" => call.value \in Outputs[call.schema]
  /\ tool.phase \in {"approving", "executing", "done"} => tool.name \in Tools
  /\ work.revision \in 0..MaxRevisions
  /\ work.results \in Seq(Tools)

LEMMA FrameShapes ==
  ASSUME FrameTypes
  PROVE  Shapes /\ TaskLogInv
<1>1. Shapes
  BY DEF FrameTypes, CallInv, CallTypeOK, BrokerTypes, WorkTypes, WorkTypeOK, Shapes
<1>2. TaskLogInv
  BY DEF FrameTypes, CallInv, HistoryInv, HistoryTypeOK, HistoryIntact, SequenceNumbersUnique,
         TaskLogInv
<1> QED BY <1>1, <1>2

LEMMA AgentStays ==
  ASSUME AgentStep \/ CancelCall, UNCHANGED <<tool, work, artifacts>>, NEW id
  PROVE  Waits(id)
<1>1. CASE GuardRefuses \/ CancelCall
  BY <1>1 DEF GuardRefuses, CancelCall, Raise, EmitsNone, Waits
<1>2. CASE RequestModel \/ AnswerParses \/ AnswerMalformed \/ ProviderFails \/ RejectOutput
  <2>1. EmitsNone(id) /\ Running
    BY <1>2, OtherRowEmitted DEF RequestModel, AnswerParses, AnswerMalformed, ProviderFails,
                                 RejectOutput, Emit, TaskRows
  <2> QED BY <2>1 DEF Waits
<1> QED BY <1>1, <1>2 DEF AgentStep

LEMMA ToolMoves ==
  ASSUME Shapes, ToolStep, UNCHANGED <<work, artifacts>>, NEW id,
         tool.phase # "idle" => work.phase = "tools" /\ tool.task = work.task
  PROVE  Waits(id) \/ CompletesTool(id)
<1> USE DEF Phase
<1>0. Running
  BY ToolRuns
<1>1. CASE RefuseTool \/ BudgetRefusesTool \/ ToolApproved
  <2>1. EmitsNone(id)
    BY <1>1 DEF RefuseTool, BudgetRefusesTool, ToolApproved, Raise, EmitsNone, contextVars
  <2>2. tool.phase # "done" /\ tool'.phase # "done"
    BY <1>1 DEF Shapes, RefuseTool, BudgetRefusesTool, ToolApproved
  <2> QED BY <1>0, <2>1, <2>2 DEF Waits
<1>2. CASE RequestTool \/ ToolFails
  <2>1. EmitsNone(id)
    BY <1>2, OtherRowEmitted DEF RequestTool, ToolFails, Emit, TaskRows
  <2>2. tool.phase # "done" /\ tool'.phase # "done"
    BY <1>2 DEF Shapes, RequestTool, ToolFails
  <2> QED BY <1>0, <2>1, <2>2 DEF Waits
<1>3. CASE ToolSucceeds
  <2>1. work.phase = "tools" /\ tool.task = work.task
    BY <1>3 DEF ToolSucceeds
  <2>2. CASE tool.task = id
    BY <1>0, <1>3, <2>1, <2>2 DEF CompletesTool, Live
  <2>3. CASE tool.task # id
    <3>1. EmitsNone(id)
      BY <1>3, <2>3, OtherRowEmitted DEF ToolSucceeds, Emit
    <3> QED BY <1>0, <2>1, <2>3, <3>1 DEF Waits, Live
  <2> QED BY <2>2, <2>3
<1>4. CASE (ApprovalStep \/ CancelApproval) /\ UNCHANGED <<tool, effects>>
  <2>1. CASE RequestApproval \/ Decide
    <3>1. EmitsNone(id)
      BY <2>1, OtherRowEmitted DEF RequestApproval, Decide, Emit, TaskRows
    <3> QED BY <1>0, <1>4, <3>1 DEF Waits
  <2>2. CASE ProviderUnavailable \/ CancelApproval
    BY <1>0, <1>4, <2>2 DEF ProviderUnavailable, CancelApproval, Raise, EmitsNone, Waits
  <2> QED BY <1>4, <2>1, <2>2 DEF ApprovalStep
<1> QED BY <1>1, <1>2, <1>3, <1>4 DEF ToolStep, BrokerStep

LEMMA ExecutorSeen ==
  ASSUME Shapes, ExecutorStep, NEW id
  PROVE  Executes(id) \/ Elsewhere(id)
<1> USE DEF At
<1>0. Running /\ work.phase # "idle" /\ work'.task = work.task
  BY DEF Shapes, ExecutorStep, BeginRevision, StartTools, NextTool, ContinueWork, AcceptProduct,
         SaveArtifact, AnnounceArtifact, RequestReview, RecordReview, CompleteTask, RequestRevision
<1>1. CASE work.task = id
  BY <1>0, <1>1 DEF Executes, Live
<1>2. CASE work.task # id
  <2>1. EmitsNone(id)
    <3>1. CASE \/ BeginRevision \/ AnnounceArtifact \/ RequestReview \/ RecordReview
               \/ CompleteTask \/ RequestRevision
      BY <1>2, <3>1, OtherRowEmitted
         DEF BeginRevision, AnnounceArtifact, RequestReview, RecordReview, CompleteTask,
             RequestRevision, Emit
    <3>2. CASE StartTools \/ NextTool \/ ContinueWork \/ AcceptProduct \/ SaveArtifact
      BY <3>2 DEF StartTools, NextTool, ContinueWork, AcceptProduct, SaveArtifact, StoreArtifact,
                  Quiet, EmitsNone, contextVars
    <3> QED BY <3>1, <3>2 DEF ExecutorStep
  <2>2. artifacts' \in {artifacts, artifacts \cup {Artifact}}
    BY DEF ExecutorStep, BeginRevision, StartTools, NextTool, ContinueWork, AcceptProduct,
           SaveArtifact, StoreArtifact, AnnounceArtifact, RequestReview, RecordReview,
           CompleteTask, RequestRevision
  <2>3. ArtifactsOf(id)' = ArtifactsOf(id)
    BY <1>2, <2>2 DEF ArtifactsOf, Artifact
  <2> QED BY <1>0, <1>2, <2>1, <2>3 DEF Elsewhere, Live
<1> QED BY <1>1, <1>2

(* The rows each step of the executor may add: none but these. *)
LogKept == UNCHANGED <<sequence, events, raised>>

LEMMA ExecutorEmits ==
  ASSUME NEW id, Executes(id)
  PROVE  \/ BeginRevision /\ \E e : Emits(id, "agent.started", "", e)
         \/ StartTools /\ LogKept
         \/ NextTool /\ LogKept
         \/ ContinueWork /\ LogKept
         \/ AcceptProduct /\ LogKept
         \/ SaveArtifact /\ UNCHANGED <<sequence, events>>
         \/ AnnounceArtifact /\ \E e : Emits(id, "artifact.created", "", e)
         \/ RequestReview /\ EmitsNone(id)
         \/ RecordReview /\ \E e : Emits(id, "review.completed", call.value, e)
         \/ CompleteTask /\ \E e : Emits(id, "task.completed", "", e)
         \/ RequestRevision /\ EmitsNone(id)
<1>1. CASE BeginRevision \/ AnnounceArtifact \/ RecordReview \/ CompleteTask
  BY <1>1, TaskRowEmitted
     DEF Executes, Live, BeginRevision, AnnounceArtifact, RecordReview, CompleteTask, Emit
<1>2. CASE RequestReview \/ RequestRevision
  BY <1>2, OtherRowEmitted DEF RequestReview, RequestRevision, Emit, TaskRows
<1>3. CASE StartTools \/ NextTool
  BY <1>3 DEF StartTools, NextTool, LogKept, contextVars
<1>4. CASE ContinueWork \/ AcceptProduct
  BY <1>4 DEF ContinueWork, AcceptProduct, LogKept, contextVars
<1>5. CASE SaveArtifact
  BY <1>5 DEF SaveArtifact, StoreArtifact, Quiet
<1> QED BY <1>1, <1>2, <1>3, <1>4, <1>5 DEF Executes, ExecutorStep

LEMMA ToolEmits ==
  ASSUME NEW id, Shapes, CompletesTool(id)
  PROVE  /\ \E e : Emits(id, "tool.completed", tool.name, e)
         /\ tool.phase = "executing" /\ tool.name \in Tools
         /\ tool' = [tool EXCEPT !.phase = "done"]
<1>1. /\ tool.phase = "executing" /\ tool.task = id
      /\ Emit("tool.completed", tool.task, tool.name)
  BY DEF CompletesTool, ToolSucceeds, Phase
<1> QED BY <1>1, TaskRowEmitted DEF Shapes, CompletesTool, ToolSucceeds, Emit

LEMMA MoveEmits ==
  ASSUME NEW id, Shapes, Moves(id)
  PROVE  EmitsNone(id) \/ \E type, note, e : Emits(id, type, note, e)
<1>1. CASE Assigns(id) \/ Waits(id) \/ Elsewhere(id)
  BY <1>1 DEF Assigns, Waits, Elsewhere, EmitsNone
<1>2. CASE Executes(id)
  BY <1>2, ExecutorEmits DEF EmitsNone, LogKept
<1>3. CASE CompletesTool(id)
  BY <1>3, ToolEmits
<1> QED BY <1>1, <1>2, <1>3 DEF Moves

-----------------------------------------------------------------------------
(* The attempts on record are as many as the executor has begun.           *)

CountedInv(id) ==
  Live(id) =>
    /\ work.phase = "starting" => Cardinality(Attempts(id)) = work.revision
    /\ work.phase # "starting" => Cardinality(Attempts(id)) = work.revision + 1

BaseInv(id) == Shapes /\ TaskLogInv /\ CountedInv(id)

LEMMA AttemptsStay ==
  ASSUME NEW id, TaskLogInv,
         \/ EmitsNone(id)
         \/ \E type, note, e : type # "agent.started" /\ Emits(id, type, note, e)
  PROVE  Attempts(id)' = Attempts(id)
<1>1. CASE EmitsNone(id)
  BY <1>1, OtherRowRead DEF Attempts, TaskRows
<1>2. CASE \E type, note, e : type # "agent.started" /\ Emits(id, type, note, e)
  BY <1>2, NewRowRead
<1> QED BY <1>1, <1>2

(* Only a new attempt adds to the attempts. *)
LEMMA AttemptsKept ==
  ASSUME NEW id, Shapes, TaskLogInv, Executes(id), ~BeginRevision
  PROVE  Attempts(id)' = Attempts(id)
BY ExecutorEmits, AttemptsStay DEF EmitsNone, LogKept

(* How a step of the executor moves it. *)
LEMMA PhaseMoves ==
  ASSUME NEW id, Shapes, Executes(id)
  PROVE  /\ work'.task = id /\ work'.phase # "idle"
         /\ Running
         /\ \/ BeginRevision /\ work.phase = "starting" /\ work'.phase = "working"
            \/ /\ ~BeginRevision /\ work.phase # "starting"
               /\ \/ work'.phase # "starting" /\ work'.revision = work.revision
                  \/ work'.phase = "starting" /\ work'.revision = work.revision + 1
         /\ BeginRevision => work'.revision = work.revision
<1> USE DEF At
<1>0. Running /\ work.task = id /\ ExecutorStep
  BY DEF Executes, Live
<1>1. CASE BeginRevision
  BY <1>0, <1>1 DEF Shapes, BeginRevision
<1>2. CASE StartTools \/ NextTool \/ ContinueWork \/ AcceptProduct
  BY <1>0, <1>2 DEF Shapes, StartTools, NextTool, ContinueWork, AcceptProduct, BeginRevision
<1>3. CASE SaveArtifact \/ AnnounceArtifact \/ RequestReview \/ CompleteTask
  BY <1>0, <1>3 DEF Shapes, SaveArtifact, AnnounceArtifact, RequestReview, CompleteTask,
                    BeginRevision
<1>4. CASE RecordReview \/ RequestRevision
  BY <1>0, <1>4 DEF Shapes, RecordReview, PhaseAfter, RequestRevision, BeginRevision
<1> QED BY <1>0, <1>1, <1>2, <1>3, <1>4 DEF ExecutorStep

LEMMA CountedStep ==
  ASSUME NEW id, BaseInv(id), Moves(id)
  PROVE  CountedInv(id)'
<1>0. /\ Shapes /\ TaskLogInv /\ CountedInv(id)
      /\ Cardinality(Attempts(id)) \in Nat /\ work.revision \in Nat
  BY AttemptsFinite, RevisionsAssumption DEF BaseInv, Shapes
<1>1. CASE Assigns(id)
  <2>1. Attempts(id)' = {}
    BY <1>1 DEF Assigns, Fresh, TaskRows, Attempts, OfTask, OfType
  <2>2. Cardinality(Attempts(id))' = 0
    BY <2>1, FS_EmptySet
  <2> QED BY <1>1, <2>2 DEF Assigns, CountedInv
<1>2. CASE Waits(id) \/ CompletesTool(id)
  <2>1. /\ Attempts(id)' = Attempts(id) /\ UNCHANGED work
        /\ Running' => Running
    BY <1>0, <1>2, ToolEmits, AttemptsStay DEF Waits, CompletesTool, Live
  <2> QED BY <1>0, <2>1 DEF CountedInv, Live
<1>3. CASE Elsewhere(id)
  BY <1>3 DEF Elsewhere, CountedInv
<1>4. CASE Executes(id)
  <2>0. Live(id)
    BY <1>4 DEF Executes
  <2>1. CASE BeginRevision
    <3>1. PICK e : Emits(id, "agent.started", "", e)
      BY <2>0, <2>1, TaskRowEmitted DEF Live, BeginRevision, Emit
    <3>2. Running' => Cardinality(Attempts(id))' = Cardinality(Attempts(id)) + 1
      BY <1>0, <3>1, AttemptRead
    <3> QED BY <1>0, <1>4, <2>0, <2>1, <3>2, PhaseMoves DEF CountedInv, Live
  <2>2. CASE ~BeginRevision
    BY <1>0, <1>4, <2>0, <2>2, AttemptsKept, PhaseMoves DEF CountedInv, Live
  <2> QED BY <2>1, <2>2
<1> QED BY <1>1, <1>2, <1>3, <1>4 DEF Moves

-----------------------------------------------------------------------------
(* Revisions are asked for. *)

Requested(id, n) == \E r \in InRevision("review.completed", id, n) : r.note = "revise"

RequestInv(id) ==
  /\ \A s \in Attempts(id), n \in Nat : Revision(id, s) = n + 1 => Requested(id, n)
  /\ \A n \in Nat : Live(id) =>
       /\ work.phase = "revising" /\ work.revision = n => Requested(id, n)
       /\ work.phase = "starting" /\ work.revision = n + 1 => Requested(id, n)

(* How the rows of the task move in any step. *)
LEMMA RowsStay ==
  ASSUME NEW id, BaseInv(id), Moves(id)
  PROVE  /\ \A t \in TaskRows : \A n : InRevision(t, id, n) \subseteq InRevision(t, id, n)'
         /\ \A e \in events : Revision(id, e)' = Revision(id, e)
         /\ Attempts(id) \subseteq Attempts(id)'
         /\ events \subseteq events'
<1> USE DEF BaseInv
<1>1. CASE EmitsNone(id)
  BY <1>1, OtherRowRead DEF Attempts, TaskRows
<1>2. CASE \E type, note, e : Emits(id, type, note, e)
  <2>1. Attempts(id) \subseteq Attempts(id)'
    BY <1>2 DEF Emits, Attempts, OfTask, OfType
  <2> QED BY <1>2, <2>1, TaskRowRead
<1> QED BY <1>1, <1>2, MoveEmits

LEMMA RequestedStays ==
  ASSUME NEW id, BaseInv(id), Moves(id), NEW n, Requested(id, n)
  PROVE  Requested(id, n)'
BY RowsStay DEF Requested, TaskRows

LEMMA AttemptIn ==
  ASSUME NEW id
  PROVE  Attempts(id) \subseteq events
BY DEF Attempts, OfTask, OfType

LEMMA RequestStep ==
  ASSUME NEW id, BaseInv(id), RequestInv(id), Moves(id)
  PROVE  RequestInv(id)'
<1>0. /\ \A n \in Nat : Requested(id, n) => Requested(id, n)'
      /\ Shapes /\ TaskLogInv /\ CountedInv(id)
      /\ \A e \in Attempts(id) : Revision(id, e)' = Revision(id, e)
  BY RequestedStays, RowsStay, AttemptIn DEF BaseInv
<1>1. CASE Assigns(id)
  <2>1. Attempts(id)' = {}
    BY <1>1 DEF Assigns, Fresh, TaskRows, Attempts, OfTask, OfType
  <2> QED BY <1>1, <2>1 DEF RequestInv, Assigns
<1>2. ASSUME Attempts(id)' = Attempts(id),
             \A n \in Nat : Live(id)' =>
               /\ work'.phase = "revising" /\ work'.revision = n => Requested(id, n)'
               /\ work'.phase = "starting" /\ work'.revision = n + 1 => Requested(id, n)'
      PROVE  RequestInv(id)'
  BY <1>0, <1>2 DEF RequestInv
<1>3. CASE Elsewhere(id)
  <2>1. Attempts(id)' = Attempts(id)
    BY <1>0, <1>3, AttemptsStay DEF Elsewhere
  <2> QED BY <1>2, <1>3, <2>1 DEF Elsewhere
<1>4. CASE Waits(id) \/ CompletesTool(id)
  <2>1. Attempts(id)' = Attempts(id) /\ UNCHANGED work /\ (Live(id)' => Live(id))
    BY <1>0, <1>4, ToolEmits, AttemptsStay DEF Waits, CompletesTool, Live
  <2> QED BY <1>0, <1>2, <2>1 DEF RequestInv
<1>5. CASE Executes(id)
  <2>0. Live(id) /\ Running
    BY <1>5 DEF Executes, Live
  <2>1. CASE BeginRevision
    <3>1. PICK e : Emits(id, "agent.started", "", e)
      BY <2>0, <2>1, TaskRowEmitted DEF Live, BeginRevision, Emit
    <3>2. /\ Attempts(id)' \subseteq Attempts(id) \cup {e}
          /\ e \in Attempts(id)' => e \in events'
      BY <1>0, <3>1, AttemptRead DEF Attempts, OfTask, OfType
    <3>3. e \in events' => Revision(id, e)' = work.revision
      BY <1>0, <2>0, <2>1, <3>1, AttemptRead DEF CountedInv, BeginRevision, At
    <3>4. work'.phase = "working" /\ work.phase = "starting"
      BY <1>0, <1>5, <2>1, PhaseMoves
    <3>5. \A s \in Attempts(id)', n \in Nat : Revision(id, s)' = n + 1 => Requested(id, n)'
      BY <1>0, <2>0, <3>2, <3>3, <3>4 DEF RequestInv
    <3> QED BY <3>4, <3>5 DEF RequestInv
  <2>2. ASSUME ~BeginRevision PROVE Attempts(id)' = Attempts(id)
    BY <1>0, <1>5, <2>2, AttemptsKept
  <2>3. CASE RecordReview
    <3>1. PICK e : Emits(id, "review.completed", call.value, e)
      BY <2>0, <2>3, TaskRowEmitted DEF Live, RecordReview
    <3>2. /\ work.phase = "reviewing" /\ ~BeginRevision
          /\ work'.revision = work.revision
          /\ work'.phase = PhaseAfter(call.value)
      BY <1>0, <2>3 DEF Shapes, RecordReview, BeginRevision, At
    <3>3. Running' /\ work'.phase = "revising" => call.value = "revise"
      <4>1. call.value \in {"pass", "revise", "fail"}
        BY <1>0, <2>3, ReviewAssumption DEF Shapes, RecordReview, Returned
      <4>2. raised' = ReviewError(call.value) \/ raised' = "StoreError"
        BY <2>3 DEF RecordReview, EmitThen, Appended, StoreRaises
      <4> QED BY <3>2, <4>1, <4>2 DEF ReviewError, PhaseAfter, Running
    <3>4. ASSUME Running', work'.phase = "revising", NEW n \in Nat, work.revision = n
          PROVE  Requested(id, n)'
      <4>1. n = Cardinality(Attempts(id)) - 1
        BY <1>0, <2>0, <3>2, <3>4 DEF CountedInv
      <4>2. e \in InRevision("review.completed", id, n)'
        BY <1>0, <3>1, <3>4, <4>1, NewRowRead
      <4> QED BY <3>1, <3>3, <3>4, <4>2 DEF Requested, Emits
    <3> QED BY <1>2, <2>2, <3>2, <3>4 DEF PhaseAfter, Live
  <2>4. CASE RequestRevision
    <3>1. /\ work.phase = "revising" /\ ~BeginRevision
          /\ work'.revision = work.revision + 1 /\ work'.phase = "starting"
      BY <1>0, <2>4 DEF Shapes, RequestRevision, BeginRevision, At
    <3>n. work.revision \in Nat
      BY <1>0, RevisionsAssumption DEF Shapes
    <3>2. \A n \in Nat : work'.revision = n + 1 => Requested(id, n)'
      BY <1>0, <2>0, <3>1, <3>n DEF RequestInv
    <3> QED BY <1>2, <2>2, <3>1, <3>2
  <2>5. CASE StartTools \/ NextTool \/ ContinueWork \/ AcceptProduct \/ SaveArtifact
    <3>1. ~BeginRevision /\ work'.phase \notin {"revising", "starting"}
      BY <1>0, <2>5 DEF Shapes, StartTools, NextTool, ContinueWork, AcceptProduct,
                        SaveArtifact, BeginRevision, At
    <3> QED BY <1>2, <2>2, <3>1
  <2>6. CASE AnnounceArtifact \/ RequestReview \/ CompleteTask
    <3>1. ~BeginRevision /\ work'.phase \notin {"revising", "starting"}
      BY <1>0, <2>6 DEF Shapes, AnnounceArtifact, RequestReview, CompleteTask,
                        BeginRevision, At
    <3> QED BY <1>2, <2>2, <3>1
  <2> QED BY <1>5, <2>1, <2>3, <2>4, <2>5, <2>6 DEF Executes, ExecutorStep
<1> QED BY <1>1, <1>3, <1>4, <1>5 DEF Moves

-----------------------------------------------------------------------------
(* An artifact belongs to the revision that was current when it was stored. *)

Unsaved == {"starting", "working", "tools", "saving"}

ArtifactInv(id) ==
  /\ \A a \in ArtifactsOf(id) : a.revision \in 0..MaxRevisions
  /\ \A a, b \in ArtifactsOf(id) : a.revision = b.revision => a = b
  /\ Live(id) =>
       /\ \A a \in ArtifactsOf(id) : a.revision <= work.revision
       /\ work.phase \in Unsaved => \A a \in ArtifactsOf(id) : a.revision # work.revision

(* How the executor moves from revision to revision. *)
RevisionMove ==
  \/ work'.revision = work.revision /\ (work'.phase \in Unsaved => work.phase \in Unsaved)
  \/ work'.revision = work.revision + 1

LEMMA ArtifactStep ==
  ASSUME NEW id, BaseInv(id), ArtifactInv(id), Moves(id)
  PROVE  ArtifactInv(id)'
<1> USE DEF Unsaved
<1>0. Shapes /\ CountedInv(id) /\ MaxRevisions \in Nat /\ work.revision \in 0..MaxRevisions
  BY RevisionsAssumption DEF BaseInv, Shapes
<1>1. CASE Assigns(id)
  <2>1. ArtifactsOf(id)' = {}
    BY <1>1 DEF Assigns, Fresh, ArtifactsOf
  <2> QED BY <2>1 DEF ArtifactInv
<1>2. CASE Elsewhere(id)
  BY <1>2 DEF Elsewhere, ArtifactInv
<1>3. CASE Waits(id) \/ CompletesTool(id)
  <2>1. UNCHANGED work /\ ArtifactsOf(id)' = ArtifactsOf(id) /\ (Live(id)' => Live(id))
    BY <1>3 DEF Waits, CompletesTool, ArtifactsOf, Live
  <2> QED BY <2>1 DEF ArtifactInv
<1>4. CASE Executes(id)
  <2>0. Live(id)
    BY <1>4 DEF Executes
  <2>1. ASSUME RevisionMove, artifacts' = artifacts
        PROVE  ArtifactInv(id)'
    <3>0. ArtifactsOf(id)' = ArtifactsOf(id)
      BY <2>1 DEF ArtifactsOf
    <3>1. \A a \in ArtifactsOf(id) : a.revision \in Nat /\ a.revision <= work.revision
      BY <1>0, <2>0 DEF ArtifactInv
    <3>2. \A a \in ArtifactsOf(id) : a.revision <= work'.revision
      BY <1>0, <2>1, <3>1 DEF RevisionMove
    <3>3. work'.phase \in Unsaved => \A a \in ArtifactsOf(id) : a.revision # work'.revision
      BY <1>0, <2>0, <2>1, <3>1 DEF RevisionMove, ArtifactInv
    <3> QED BY <3>0, <3>2, <3>3 DEF ArtifactInv
  <2>2. CASE SaveArtifact
    <3>1. /\ work.phase = "saving" /\ work'.phase = "announcing"
          /\ work'.revision = work.revision
          /\ artifacts' \in {artifacts, artifacts \cup {Artifact}}
          /\ Artifact.revision = work.revision /\ Artifact.task = id
      BY <1>0, <2>0, <2>2 DEF Shapes, SaveArtifact, StoreArtifact, At, Artifact, Live
    <3>2. ArtifactsOf(id)' \in {ArtifactsOf(id), ArtifactsOf(id) \cup {Artifact}}
      BY <3>1 DEF ArtifactsOf
    <3> QED BY <1>0, <2>0, <3>1, <3>2 DEF ArtifactInv
  <2>3. CASE BeginRevision \/ StartTools \/ NextTool \/ ContinueWork \/ AcceptProduct
    BY <1>0, <2>1, <2>3 DEF BeginRevision, StartTools, NextTool, ContinueWork, AcceptProduct, At,
                            Shapes, RevisionMove
  <2>4. CASE AnnounceArtifact \/ RequestReview \/ RecordReview \/ CompleteTask \/ RequestRevision
    BY <1>0, <2>1, <2>4 DEF AnnounceArtifact, RequestReview, RecordReview, CompleteTask,
                            RequestRevision, At, Shapes, RevisionMove, PhaseAfter
  <2> QED BY <1>4, <2>2, <2>3, <2>4 DEF Executes, ExecutorStep
<1> QED BY <1>1, <1>2, <1>3, <1>4 DEF Moves

-----------------------------------------------------------------------------
(* Completion follows a pass of what was saved. *)

Saved(id, n) == \E a \in artifacts : a.task = id /\ a.revision = n
Announced(id, n) == InRevision("artifact.created", id, n) # {}
Passed(id, n, before) ==
  /\ Saved(id, n)
  /\ \E c \in InRevision("artifact.created", id, n), r \in InRevision("review.completed", id, n) :
       c.sequence < r.sequence /\ r.sequence < before /\ r.note = "pass"

PassInv(id) ==
  /\ \A e \in OfTask("task.completed", id), n \in Int :
       Revision(id, e) = n => Passed(id, n, e.sequence)
  /\ \A n \in Nat : Live(id) /\ work.revision = n =>
       /\ work.phase \in {"announcing", "submitting", "reviewing"} => Saved(id, n)
       /\ work.phase \in {"submitting", "reviewing"} => Announced(id, n)
       /\ work.phase = "passed" => \A m \in Nat : sequence < m => Passed(id, n, m)

LEMMA SavedStays ==
  ASSUME NEW id, Moves(id), NEW n, Saved(id, n)
  PROVE  Saved(id, n)'
<1>1. CASE Elsewhere(id)
  BY <1>1 DEF Elsewhere, ArtifactsOf, Saved
<1>2. CASE Assigns(id) \/ Waits(id) \/ CompletesTool(id)
  BY <1>2 DEF Assigns, Waits, CompletesTool, Saved
<1>3. CASE Executes(id)
  <2>1. artifacts \subseteq artifacts'
    BY <1>3 DEF Executes, ExecutorStep, BeginRevision, StartTools, NextTool, ContinueWork,
                AcceptProduct, SaveArtifact, StoreArtifact, AnnounceArtifact, RequestReview,
                RecordReview, CompleteTask, RequestRevision
  <2> QED BY <2>1 DEF Saved
<1> QED BY <1>1, <1>2, <1>3 DEF Moves

LEMMA PassedStays ==
  ASSUME NEW id, BaseInv(id), Moves(id), NEW n
  PROVE  /\ Saved(id, n) => Saved(id, n)'
         /\ Announced(id, n) => Announced(id, n)'
         /\ \A m : Passed(id, n, m) => Passed(id, n, m)'
<1>1. /\ InRevision("artifact.created", id, n) \subseteq InRevision("artifact.created", id, n)'
      /\ InRevision("review.completed", id, n) \subseteq InRevision("review.completed", id, n)'
  BY RowsStay DEF TaskRows
<1>2. Saved(id, n) => Saved(id, n)'
  BY SavedStays
<1> QED BY <1>1, <1>2 DEF Announced, Passed

(* Rows other than task.completed leave the first part of PassInv alone.   *)
LEMMA CompletionStays ==
  ASSUME NEW id, BaseInv(id), PassInv(id), Moves(id),
         OfTask("task.completed", id)' = OfTask("task.completed", id)
  PROVE  \A e \in OfTask("task.completed", id)', n \in Int :
           Revision(id, e)' = n => Passed(id, n, e.sequence)'
<1> SUFFICES ASSUME NEW e \in OfTask("task.completed", id), NEW n \in Int, Revision(id, e)' = n
             PROVE  Passed(id, n, e.sequence)'
  OBVIOUS
<1>1. e \in events
  BY DEF OfTask, OfType
<1>2. Revision(id, e) = n
  BY <1>1, RowsStay
<1>3. Passed(id, n, e.sequence)
  BY <1>2 DEF PassInv
<1> QED BY <1>3, PassedStays

LEMMA CompletedSame ==
  ASSUME NEW id,
         \/ EmitsNone(id)
         \/ \E type, note, e : type # "task.completed" /\ Emits(id, type, note, e)
  PROVE  OfTask("task.completed", id)' = OfTask("task.completed", id)
<1>1. CASE EmitsNone(id)
  BY <1>1, OtherRowRead DEF TaskRows
<1>2. CASE \E type, note, e : type # "task.completed" /\ Emits(id, type, note, e)
  BY <1>2 DEF Emits, OfTask, OfType
<1> QED BY <1>1, <1>2

LEMMA PassStep ==
  ASSUME NEW id, BaseInv(id), PassInv(id), Moves(id)
  PROVE  PassInv(id)'
<1>0. /\ Shapes /\ TaskLogInv /\ CountedInv(id)
      /\ \A n \in Nat : /\ Saved(id, n) => Saved(id, n)'
                        /\ Announced(id, n) => Announced(id, n)'
                        /\ \A m \in Nat : Passed(id, n, m) => Passed(id, n, m)'
      /\ sequence \in Nat /\ work.revision \in Nat
  BY PassedStays, RevisionsAssumption DEF BaseInv, TaskLogInv, Shapes
<1>l. TaskLogInv /\ sequence \in Nat /\ \A e \in events : e.sequence \in 1..sequence
  BY <1>0 DEF TaskLogInv
<1>a. ASSUME OfTask("task.completed", id)' = OfTask("task.completed", id),
             \/ ~ Live(id)'
             \/ work'.phase \notin {"announcing", "submitting", "reviewing", "passed"}
      PROVE  PassInv(id)'
  BY <1>a, CompletionStays DEF PassInv
<1>1. CASE Assigns(id)
  <2>1. EmitsNone(id) /\ work'.phase = "starting"
    BY <1>1 DEF Assigns, EmitsNone
  <2> QED BY <1>a, <2>1, CompletedSame
<1>2. CASE Elsewhere(id)
  BY <1>2, <1>a, CompletedSame DEF Elsewhere
<1>3. CASE Waits(id)
  <2>0. EmitsNone(id) /\ UNCHANGED work /\ (Live(id)' => Live(id))
    BY <1>3 DEF Waits, Live
  <2>1. sequence' \in Nat /\ sequence <= sequence'
    BY <1>0, <2>0 DEF EmitsNone
  <2>2. \A m \in Nat : sequence' < m => sequence < m
    BY <1>0, <2>1
  <2> QED BY <1>0, <2>0, <2>2, CompletionStays, CompletedSame DEF PassInv
<1>4. CASE CompletesTool(id)
  <2>1. work.phase = "tools" /\ UNCHANGED work
    BY <1>4 DEF CompletesTool
  <2>2. OfTask("task.completed", id)' = OfTask("task.completed", id)
    BY <1>0, <1>4, ToolEmits, CompletedSame
  <2> QED BY <1>a, <2>1, <2>2
<1>5. CASE Executes(id)
  <2>l. Live(id)
    BY <1>5 DEF Executes
  <2>0. ASSUME ~ CompleteTask
        PROVE  OfTask("task.completed", id)' = OfTask("task.completed", id)
    BY <1>0, <1>5, <2>0, ExecutorEmits, CompletedSame DEF EmitsNone, LogKept
  <2>1. CASE BeginRevision \/ StartTools \/ NextTool \/ ContinueWork \/ AcceptProduct
    <3>1. /\ ~ CompleteTask
          /\ work'.phase \notin {"announcing", "submitting", "reviewing", "passed"}
      BY <1>0, <2>1 DEF BeginRevision, StartTools, NextTool, ContinueWork, AcceptProduct,
                        CompleteTask, At, Shapes
    <3> QED BY <1>a, <2>0, <3>1
  <2>2. CASE RequestRevision
    <3>1. ~ CompleteTask /\ work'.phase = "starting"
      BY <1>0, <2>2 DEF RequestRevision, CompleteTask, At, Shapes
    <3> QED BY <1>a, <2>0, <3>1
  <2>3. CASE SaveArtifact
    <3>1. /\ ~ CompleteTask /\ work'.phase = "announcing" /\ work'.revision = work.revision
          /\ Running' => Artifact \in artifacts'
          /\ Artifact.revision = work.revision /\ Artifact.task = id
      BY <1>0, <2>l, <2>3 DEF SaveArtifact, StoreArtifact, StoreRaises, CompleteTask, At, Shapes,
                              Artifact, Running, Live
    <3>2. \A n \in Nat : Running' /\ work'.revision = n => Saved(id, n)'
      BY <3>1 DEF Saved
    <3> QED BY <2>0, <3>1, <3>2, CompletionStays DEF PassInv, Live
  <2>4. CASE AnnounceArtifact
    <3>1. /\ ~ CompleteTask /\ work'.phase = "submitting" /\ work'.revision = work.revision
          /\ work.phase = "announcing"
      BY <1>0, <2>4 DEF AnnounceArtifact, CompleteTask, At, Shapes
    <3>2. ASSUME Running', NEW n \in Nat, work.revision = n
          PROVE  Announced(id, n)' /\ Saved(id, n)'
      <4>1. n = Cardinality(Attempts(id)) - 1
        BY <1>0, <2>l, <3>1, <3>2 DEF CountedInv
      <4>2. PICK e : Emits(id, "artifact.created", "", e)
        BY <2>l, <2>4, TaskRowEmitted DEF Live, AnnounceArtifact, Emit
      <4>3. InRevision("artifact.created", id, n)'
              = InRevision("artifact.created", id, n) \cup {e}
        BY <1>l, <3>2, <4>1, <4>2, NewRowRead
      <4> QED BY <1>0, <2>l, <3>1, <3>2, <4>3 DEF Announced, PassInv
    <3> QED BY <2>0, <3>1, <3>2, CompletionStays DEF PassInv, Live
  <2>5. CASE RequestReview
    <3>1. /\ ~ CompleteTask /\ work'.phase = "reviewing" /\ work'.revision = work.revision
          /\ work.phase = "submitting"
      BY <1>0, <2>5 DEF RequestReview, CompleteTask, At, Shapes
    <3> QED BY <1>0, <2>l, <2>0, <3>1, CompletionStays DEF PassInv
  <2>6. CASE RecordReview
    <3>1. /\ ~ CompleteTask /\ work'.phase = PhaseAfter(call.value)
          /\ work'.revision = work.revision /\ work.phase = "reviewing"
      BY <1>0, <2>6 DEF RecordReview, CompleteTask, At, Shapes
    <3>2. ASSUME Running', work'.phase = "passed", NEW n \in Nat, work.revision = n,
                 NEW m \in Nat, sequence' < m
          PROVE  Passed(id, n, m)'
      <4>1. n = Cardinality(Attempts(id)) - 1
        BY <1>0, <2>l, <3>1, <3>2 DEF CountedInv
      <4>2. PICK e : Emits(id, "review.completed", call.value, e)
        BY <2>l, <2>6, TaskRowEmitted DEF Live, RecordReview
      <4>3. InRevision("review.completed", id, n)'
              = InRevision("review.completed", id, n) \cup {e}
        BY <1>l, <3>2, <4>1, <4>2, NewRowRead
      <4>4. e.note = "pass" /\ e.sequence = sequence + 1 /\ e.sequence < m
        BY <3>1, <3>2, <4>2 DEF PhaseAfter, Emits
      <4>5. Announced(id, n) /\ Saved(id, n)
        BY <2>l, <3>1, <3>2 DEF PassInv
      <4>6. PICK c : c \in InRevision("artifact.created", id, n)
        BY <4>5 DEF Announced
      <4>7. c \in InRevision("artifact.created", id, n)' /\ c.sequence < e.sequence
        <5>1. c \in events
          BY <4>6 DEF InRevision, OfTask, OfType
        <5>2. c.sequence < e.sequence
          BY <1>0, <4>4, <5>1 DEF TaskLogInv
        <5> QED BY <4>6, <5>2, RowsStay DEF TaskRows
      <4> QED BY <1>0, <4>3, <4>4, <4>5, <4>7 DEF Passed
    <3>3. work'.phase \notin {"announcing", "submitting", "reviewing"}
      BY <3>1 DEF PhaseAfter
    <3> QED BY <2>0, <3>1, <3>2, <3>3, CompletionStays DEF PassInv, Live
  <2>7. CASE CompleteTask
    <3>1. work.phase = "passed" /\ work'.phase = "done"
      BY <1>0, <2>7 DEF CompleteTask, At, Shapes
    <3>2. PICK note, e : Emits(id, "task.completed", note, e)
      BY <2>l, <2>7, TaskRowEmitted DEF Live, CompleteTask, Emit
    <3>3. OfTask("task.completed", id)' \subseteq OfTask("task.completed", id) \cup {e}
      BY <3>2 DEF Emits, OfTask, OfType
    <3>r. \A n : n # Cardinality(Attempts(id)) - 1 =>
            InRevision("task.completed", id, n)' = InRevision("task.completed", id, n)
      BY <1>l, <3>2, NewRowRead
    <3>4. ASSUME NEW n \in Int, e \in OfTask("task.completed", id)', Revision(id, e)' = n
          PROVE  Passed(id, n, e.sequence)'
      <4>1. e \in InRevision("task.completed", id, n)'
        BY <3>4 DEF InRevision
      <4>2. e \notin events /\ e.sequence = sequence + 1 /\ e.sequence \in Nat
        <5>1. e.sequence = sequence + 1
          BY <3>2 DEF Emits
        <5> QED BY <1>l, <5>1
      <4>3. e \notin InRevision("task.completed", id, n)
        BY <4>2 DEF InRevision, OfTask, OfType
      <4>4. n = Cardinality(Attempts(id)) - 1
        BY <3>r, <4>1, <4>3
      <4>5. work.revision = n
        BY <1>0, <2>l, <3>1, <4>4 DEF CountedInv
      <4>6. Passed(id, n, e.sequence)
        BY <1>0, <2>l, <3>1, <4>2, <4>5 DEF PassInv
      <4> QED BY <1>0, <4>2, <4>5, <4>6
    <3>5. ASSUME NEW n \in Int, NEW d \in OfTask("task.completed", id), Revision(id, d)' = n
          PROVE  Passed(id, n, d.sequence)'
      <4>1. d \in events
        BY DEF OfTask, OfType
      <4>2. Revision(id, d) = n
        BY <3>5, <4>1, RowsStay
      <4> QED BY <4>2, PassedStays DEF PassInv
    <3> QED BY <3>1, <3>3, <3>4, <3>5 DEF PassInv
  <2> QED BY <1>5, <2>1, <2>2, <2>3, <2>4, <2>5, <2>6, <2>7 DEF Executes, ExecutorStep
<1> QED BY <1>1, <1>2, <1>3, <1>4, <1>5 DEF Moves

-----------------------------------------------------------------------------
(* Observations are collected per revision. *)

Ranked(results, rows) ==
  /\ Len(results) = Cardinality(rows)
  /\ \A e \in rows : results[Cardinality({f \in rows : f.sequence <= e.sequence})] = e.note

Carried(id, results, n) == Ranked(results, InRevision("tool.completed", id, n))

ObserveInv(id) ==
  /\ \A a \in ArtifactsOf(id) : Carried(id, a.tool_results, a.revision)
  /\ \A n \in Nat, results \in Seq(Tools) : Live(id) /\ work.revision = n =>
       /\ work.phase \in {"working", "saving"} /\ work.results = results =>
            Carried(id, results, n)
       /\ work.phase = "tools" /\ tool.phase # "done" /\ work.results = results =>
            Carried(id, results, n)
       /\ work.phase = "tools" /\ tool.phase = "done" /\ Observed = results =>
            Carried(id, results, n)

LEMMA RankedGrows ==
  ASSUME NEW rows, IsFiniteSet(rows), NEW results \in Seq(Tools), NEW x \in Tools, NEW e,
         e.note = x, e.sequence \in Nat,
         \A f \in rows : f.sequence \in Nat /\ f.sequence < e.sequence,
         Ranked(results, rows)
  PROVE  Ranked(Append(results, x), rows \cup {e})
<1> DEFINE upto(g) == {f \in rows : f.sequence <= g.sequence}
           all == Append(results, x)
<1>1. e \notin rows
  OBVIOUS
<1>2. /\ Cardinality(rows) \in Nat
      /\ IsFiniteSet(rows \cup {e})
      /\ Cardinality(rows \cup {e}) = Cardinality(rows) + 1
  BY <1>1, FS_CardinalityType, FS_AddElement
<1>3. /\ Len(results) = Cardinality(rows) /\ Len(all) = Len(results) + 1
      /\ all[Len(results) + 1] = x
      /\ \A i \in 1..Len(results) : all[i] = results[i]
  BY DEF Ranked
<1>4. ASSUME NEW g \in rows
      PROVE  all[Cardinality({f \in rows \cup {e} : f.sequence <= g.sequence})] = g.note
  <2>1. {f \in rows \cup {e} : f.sequence <= g.sequence} = upto(g)
    OBVIOUS
  <2>s. upto(g) \subseteq rows
    OBVIOUS
  <2>2. IsFiniteSet(upto(g)) /\ Cardinality(upto(g)) <= Cardinality(rows)
    <3> HIDE DEF upto
    <3> QED BY <2>s, FS_Subset
  <2>3. g \in upto(g)
    OBVIOUS
  <2>4. Cardinality(upto(g)) \in 1..Len(results)
    <3>1. Cardinality(upto(g)) \in Nat /\ Cardinality(upto(g)) # 0
      <4> HIDE DEF upto
      <4> QED BY <2>2, <2>3, FS_CardinalityType, FS_EmptySet
    <3> HIDE DEF upto
    <3> QED BY <1>2, <1>3, <2>2, <3>1
  <2>5. results[Cardinality(upto(g))] = g.note
    BY DEF Ranked
  <2> HIDE DEF all, upto
  <2> QED BY <1>3, <2>1, <2>4, <2>5
<1>5. all[Cardinality({f \in rows \cup {e} : f.sequence <= e.sequence})] = e.note
  <2>1. {f \in rows \cup {e} : f.sequence <= e.sequence} = rows \cup {e}
    OBVIOUS
  <2>2. Cardinality({f \in rows \cup {e} : f.sequence <= e.sequence}) = Len(results) + 1
    BY <1>2, <1>3, <2>1
  <2> HIDE DEF all
  <2> QED BY <1>3, <2>2
<1> HIDE DEF all
<1>6. Len(all) = Cardinality(rows \cup {e})
  BY <1>2, <1>3
<1> QED BY <1>4, <1>5, <1>6 DEF Ranked, all

(* Only a completed tool adds observations, and only to the latest attempt. *)
LEMMA ObservationsSame ==
  ASSUME NEW id, TaskLogInv,
         \/ EmitsNone(id)
         \/ \E type, note, e : type # "tool.completed" /\ Emits(id, type, note, e)
  PROVE  \A n, results : Carried(id, results, n) <=> Carried(id, results, n)'
<1>1. \A n : InRevision("tool.completed", id, n)' = InRevision("tool.completed", id, n)
  <2>1. CASE EmitsNone(id)
    BY <2>1, OtherRowRead DEF TaskRows
  <2>2. CASE \E type, note, e : type # "tool.completed" /\ Emits(id, type, note, e)
    BY <2>2, TaskRowRead
  <2> QED BY <2>1, <2>2
<1> QED BY <1>1 DEF Carried

LEMMA NothingObservedYet ==
  ASSUME NEW id, BaseInv(id), Live(id), work.phase = "starting", NEW n, n = work.revision
  PROVE  Carried(id, <<>>, n)
<1>1. /\ Cardinality(Attempts(id)) = n /\ n \in Nat
  BY RevisionsAssumption DEF BaseInv, CountedInv, Shapes
<1>2. \A e : Revision(id, e) \in Int /\ Revision(id, e) <= n - 1
  BY <1>1, AttemptsFinite DEF BaseInv
<1>3. \A e : Revision(id, e) # n
  BY <1>1, <1>2
<1>4. InRevision("tool.completed", id, n) = {}
  BY <1>3 DEF InRevision
<1> QED BY <1>4, FS_EmptySet DEF Carried, Ranked

LEMMA ObserveStep ==
  ASSUME NEW id, BaseInv(id), Shapes', ArtifactInv(id), ObserveInv(id), Moves(id)
  PROVE  ObserveInv(id)'
<1>0. /\ Shapes /\ TaskLogInv /\ CountedInv(id) /\ work.revision \in Nat
      /\ work.results \in Seq(Tools)
  BY RevisionsAssumption DEF BaseInv, Shapes
<1>s. ASSUME EmitsNone(id) \/ \E type, note, e : type # "tool.completed" /\ Emits(id, type, note, e)
      PROVE  \A n, results : Carried(id, results, n) => Carried(id, results, n)'
  BY <1>0, <1>s, ObservationsSame
<1>a. ASSUME \/ EmitsNone(id)
             \/ \E type, note, e : type # "tool.completed" /\ Emits(id, type, note, e),
             ArtifactsOf(id)' = ArtifactsOf(id)
      PROVE  \A a \in ArtifactsOf(id)' : Carried(id, a.tool_results, a.revision)'
  BY <1>a, <1>s DEF ObserveInv
<1>1. CASE Assigns(id)
  <2>1. /\ ArtifactsOf(id)' = {} /\ work'.phase = "starting"
    BY <1>1 DEF Assigns, Fresh, ArtifactsOf
  <2> QED BY <2>1 DEF ObserveInv
<1>2. CASE Elsewhere(id)
  <2>1. EmitsNone(id) /\ ArtifactsOf(id)' = ArtifactsOf(id) /\ ~Live(id)'
    BY <1>2 DEF Elsewhere
  <2> QED BY <1>a, <2>1 DEF ObserveInv
<1>3. CASE Waits(id)
  <2>1. /\ EmitsNone(id) /\ UNCHANGED work /\ ArtifactsOf(id)' = ArtifactsOf(id)
        /\ Live(id)' => Live(id)
        /\ Live(id) /\ work.phase = "tools" =>
             tool' = tool \/ (tool.phase # "done" /\ tool'.phase # "done")
    BY <1>3 DEF Waits, ArtifactsOf, Live
  <2>2. Observed' = Observed \/ tool' # tool
    BY <2>1 DEF Observed
  <2> QED BY <1>a, <1>s, <2>1, <2>2 DEF ObserveInv
<1>4. CASE CompletesTool(id)
  <2>1. /\ work.phase = "tools" /\ UNCHANGED <<work, artifacts>> /\ Live(id)
        /\ tool.phase = "executing" /\ tool.name \in Tools
        /\ tool'.phase = "done" /\ tool'.name = tool.name
    BY <1>0, <1>4, ToolEmits DEF CompletesTool, Shapes
  <2>2. PICK e : Emits(id, "tool.completed", tool.name, e)
    BY <1>0, <1>4, ToolEmits
  <2>3. Cardinality(Attempts(id)) = work.revision + 1
    BY <1>0, <2>1 DEF CountedInv
  <2>4. ASSUME NEW a \in ArtifactsOf(id)
        PROVE  Carried(id, a.tool_results, a.revision)'
    <3>1. a.revision # Cardinality(Attempts(id)) - 1
      BY <1>0, <2>1, <2>3 DEF ArtifactInv, Unsaved
    <3>2. InRevision("tool.completed", id, a.revision)'
            = InRevision("tool.completed", id, a.revision)
      BY <1>0, <2>2, <3>1, NewRowRead
    <3> QED BY <3>2 DEF ObserveInv, Carried
  <2>5. ASSUME Running', NEW n \in Nat, work.revision = n, NEW results \in Seq(Tools),
               Append(work.results, tool.name) = results
        PROVE  Carried(id, results, n)'
    <3> DEFINE rows == InRevision("tool.completed", id, n)
    <3>1. n = Cardinality(Attempts(id)) - 1
      BY <2>3, <2>5
    <3>2. rows' = rows \cup {e}
      BY <1>0, <2>2, <2>5, <3>1, NewRowRead
    <3>3. work.results \in Seq(Tools) /\ Ranked(work.results, rows)
      BY <1>0, <2>1, <2>5 DEF ObserveInv, Carried
    <3>4. rows \subseteq events
      BY DEF InRevision, OfTask, OfType
    <3>5. e.note = tool.name /\ e.sequence = sequence + 1
      BY <2>2 DEF Emits
    <3>6. /\ IsFiniteSet(rows) /\ e.sequence \in Nat
          /\ \A f \in rows : f.sequence \in Nat /\ f.sequence < e.sequence
      BY <1>0, <3>4, <3>5, FS_Subset DEF TaskLogInv
    <3> HIDE DEF rows
    <3>7. Ranked(results, rows \cup {e})
      BY <2>1, <2>5, <3>3, <3>5, <3>6, RankedGrows
    <3> QED BY <3>2, <3>7 DEF Carried, rows
  <2>6. \A a \in ArtifactsOf(id)' : Carried(id, a.tool_results, a.revision)'
    BY <2>1, <2>4 DEF ArtifactsOf
  <2> QED BY <2>1, <2>5, <2>6 DEF ObserveInv, Observed, Live
<1>5. CASE Executes(id)
  <2>l. Live(id)
    BY <1>5 DEF Executes
  <2>0. EmitsNone(id) \/ \E type, note, e : type # "tool.completed" /\ Emits(id, type, note, e)
    BY <1>0, <1>5, ExecutorEmits DEF EmitsNone, LogKept
  <2>k. ASSUME artifacts' = artifacts
        PROVE  \A a \in ArtifactsOf(id)' : Carried(id, a.tool_results, a.revision)'
    <3>1. ArtifactsOf(id)' = ArtifactsOf(id)
      BY <2>k DEF ArtifactsOf
    <3> QED BY <1>a, <2>0, <3>1
  <2>1. CASE BeginRevision
    <3>1. /\ work.phase = "starting" /\ work'.phase = "working" /\ work'.results = <<>>
          /\ work'.revision = work.revision /\ artifacts' = artifacts
      BY <1>0, <2>1 DEF Shapes, BeginRevision, At
    <3>2. \A n \in Nat : work.revision = n => Carried(id, <<>>, n)'
      BY <2>l, <2>0, <1>s, <3>1, NothingObservedYet
    <3> QED BY <2>k, <3>1, <3>2 DEF ObserveInv
  <2>2. CASE StartTools
    <3>1. /\ work.phase = "working" /\ work'.phase = "tools" /\ work'.results = work.results
          /\ work'.revision = work.revision /\ artifacts' = artifacts
          /\ tool'.phase = "called"
      BY <1>0, <2>2 DEF Shapes, StartTools, At, ToolCall
    <3> QED BY <2>l, <2>k, <1>s, <2>0, <3>1 DEF ObserveInv
  <2>3. CASE NextTool \/ ContinueWork
    <3>1. /\ work.phase = "tools" /\ work'.results = Observed
          /\ work'.revision = work.revision /\ artifacts' = artifacts
          /\ tool.phase = "done" /\ tool.name \in Tools
          /\ \/ work'.phase = "tools" /\ tool'.phase = "called"
             \/ work'.phase = "working"
      <4>1. CASE NextTool
        BY <1>0, <4>1 DEF Shapes, NextTool, At, ToolDone, Phase, ToolCall
      <4>2. CASE ContinueWork
        BY <1>0, <4>2 DEF Shapes, ContinueWork, At, ToolDone, Phase
      <4> QED BY <2>3, <4>1, <4>2
    <3>2. Observed \in Seq(Tools)
      BY <1>0, <3>1 DEF Observed
    <3> QED BY <2>l, <2>k, <1>s, <2>0, <3>1, <3>2 DEF ObserveInv
  <2>4. CASE AcceptProduct
    <3>1. /\ work.phase = "working" /\ work'.phase = "saving" /\ work'.results = work.results
          /\ work'.revision = work.revision /\ artifacts' = artifacts
      BY <1>0, <2>4 DEF Shapes, AcceptProduct, At
    <3> QED BY <2>l, <2>k, <1>s, <2>0, <3>1 DEF ObserveInv
  <2>5. CASE SaveArtifact
    <3>1. /\ work.phase = "saving" /\ work'.phase = "announcing" /\ work'.results = work.results
          /\ artifacts' \in {artifacts, artifacts \cup {Artifact}}
          /\ Artifact.revision = work.revision /\ Artifact.tool_results = work.results
          /\ UNCHANGED <<sequence, events>>
      BY <1>0, <2>5 DEF Shapes, SaveArtifact, StoreArtifact, Quiet, At, Artifact
    <3>2. EmitsNone(id)
      BY <3>1 DEF EmitsNone
    <3>3. ASSUME NEW a \in ArtifactsOf(id)'
          PROVE  Carried(id, a.tool_results, a.revision)
      <4>1. a \in ArtifactsOf(id) \/ a = Artifact
        BY <3>1, <3>3 DEF ArtifactsOf
      <4> QED BY <1>0, <2>l, <3>1, <4>1 DEF ObserveInv
    <3>4. \A a \in ArtifactsOf(id)' : Carried(id, a.tool_results, a.revision)'
      BY <1>s, <3>2, <3>3
    <3> QED BY <3>1, <3>4 DEF ObserveInv
  <2>6. CASE AnnounceArtifact \/ RequestReview \/ RecordReview \/ CompleteTask \/ RequestRevision
    <3>1. /\ work'.phase \notin {"working", "tools", "saving"} /\ artifacts' = artifacts
      BY <1>0, <2>6 DEF Shapes, AnnounceArtifact, RequestReview, RecordReview, CompleteTask,
                        RequestRevision, At, PhaseAfter
    <3> QED BY <2>k, <3>1 DEF ObserveInv
  <2> QED BY <1>5, <2>1, <2>2, <2>3, <2>4, <2>5, <2>6 DEF Executes, ExecutorStep
<1> QED BY <1>1, <1>2, <1>3, <1>4, <1>5 DEF Moves

-----------------------------------------------------------------------------
ExecutorInv(id) ==
  CountedInv(id) /\ RequestInv(id) /\ ArtifactInv(id) /\ PassInv(id) /\ ObserveInv(id)

LEMMA ExecutorInvStep ==
  ASSUME FrameTypes, FrameTypes', NEW id, ExecutorInv(id), Moves(id)
  PROVE  ExecutorInv(id)'
<1>1. Shapes /\ TaskLogInv /\ Shapes'
  <2>1. Shapes /\ TaskLogInv
    BY FrameShapes
  <2>2. Shapes'
    BY DEF FrameTypes, CallInv, CallTypeOK, BrokerTypes, WorkTypes, WorkTypeOK, Shapes
  <2> QED BY <2>1, <2>2
<1>2. BaseInv(id)
  BY <1>1 DEF BaseInv, ExecutorInv
<1> QED BY <1>1, <1>2, CountedStep, RequestStep, ArtifactStep, PassStep, ObserveStep
        DEF ExecutorInv

LEMMA ExecutorInvInit ==
  ASSUME events = {}, artifacts = {}, work.phase = "idle", NEW id
  PROVE  ExecutorInv(id)
<1>1. /\ Attempts(id) = {} /\ OfTask("task.completed", id) = {} /\ ArtifactsOf(id) = {}
      /\ ~Live(id)
  BY DEF Attempts, OfTask, OfType, ArtifactsOf, Live
<1> QED BY <1>1 DEF ExecutorInv, CountedInv, RequestInv, ArtifactInv, PassInv, ObserveInv

(* What the executor guarantees of each task, in whatever run it is used.  *)
LEMMA ExecutorInvImplies ==
  ASSUME FrameTypes, \A id : ExecutorInv(id)
  PROVE  /\ RevisionsOnRequest /\ OneArtifactPerRevision
         /\ CompletedMeansReviewed /\ ObservationsOfRevision
<1>1. \A id, e : Revision(id, e) \in Int
  BY FrameShapes, AttemptsFinite
<1>2. RevisionsOnRequest
  <2> SUFFICES ASSUME NEW s \in OfType("agent.started"), Revision(s.task, s) > 0
               PROVE  \E r \in InRevision("review.completed", s.task, Revision(s.task, s) - 1) :
                        r.note = "revise"
    BY DEF RevisionsOnRequest
  <2> DEFINE n == Revision(s.task, s) - 1
  <2>1. s \in Attempts(s.task)
    BY DEF Attempts, OfTask
  <2>2. n \in Nat /\ Revision(s.task, s) = n + 1
    BY <1>1
  <2> HIDE DEF n
  <2>3. RequestInv(s.task)
    BY DEF ExecutorInv
  <2>4. Requested(s.task, n)
    BY <2>1, <2>2, <2>3 DEF RequestInv
  <2> QED BY <2>4 DEF Requested, n
<1>3. OneArtifactPerRevision
  <2>1. \A a \in artifacts : a \in ArtifactsOf(a.task) /\ ArtifactInv(a.task)
    BY DEF ExecutorInv, ArtifactsOf
  <2> QED BY <2>1 DEF OneArtifactPerRevision, ArtifactInv, ArtifactsOf
<1>4. CompletedMeansReviewed
  <2> SUFFICES ASSUME NEW e \in OfType("task.completed")
               PROVE  \E a \in artifacts :
                        /\ a.task = e.task
                        /\ a.revision = Revision(e.task, e)
                        /\ \E c \in InRevision("artifact.created", a.task, a.revision),
                              r \in InRevision("review.completed", a.task, a.revision) :
                                c.sequence < r.sequence /\ r.sequence < e.sequence
                                /\ r.note = "pass"
    BY DEF CompletedMeansReviewed
  <2>1. e \in OfTask("task.completed", e.task) /\ PassInv(e.task)
    BY DEF OfTask, ExecutorInv
  <2>2. Passed(e.task, Revision(e.task, e), e.sequence)
    BY <1>1, <2>1 DEF PassInv
  <2>3. PICK a \in artifacts : a.task = e.task /\ a.revision = Revision(e.task, e)
    BY <2>2 DEF Passed, Saved
  <2> QED BY <2>2, <2>3 DEF Passed
<1>5. ObservationsOfRevision
  <2>1. \A a \in artifacts : Carried(a.task, a.tool_results, a.revision)
    BY DEF ExecutorInv, ObserveInv, ArtifactsOf
  <2> QED BY <2>1 DEF Carried, Ranked, ObservationsOfRevision
<1> QED BY <1>2, <1>3, <1>4, <1>5

-----------------------------------------------------------------------------
(* The component on its own: one task, with id 1.  A call, a tool or an    *)
(* approval is in progress only while the executor waits for it.           *)

OneTaskInv ==
  /\ work.phase = "idle" => events = {} /\ artifacts = {}
  /\ Running => /\ call.phase # "idle" => work.phase \in {"working", "reviewing"}
                /\ tool.phase # "idle" => work.phase = "tools" /\ tool.task = work.task
                /\ approval.phase # "idle" => tool.phase = "approving"

LEMMA OneTaskExecutes ==
  ASSUME Shapes, OneTaskInv, ExecutorStep
  PROVE  OneTaskInv'
<1> USE DEF At, Running
<1>1. CASE BeginRevision
  BY <1>1 DEF Shapes, OneTaskInv, BeginRevision, AskSpecialist, Calling
<1>2. CASE StartTools
  BY <1>2 DEF Shapes, OneTaskInv, StartTools, Returned, ToolCall, NoCall, contextVars
<1>3. CASE NextTool
  BY <1>3 DEF Shapes, OneTaskInv, NextTool, ToolDone, Phase, ToolCall, contextVars
<1>4. CASE ContinueWork
  BY <1>4 DEF Shapes, OneTaskInv, ContinueWork, ToolDone, Phase, NoTool, AskSpecialist, Calling,
              contextVars
<1>5. CASE AcceptProduct
  BY <1>5 DEF Shapes, OneTaskInv, AcceptProduct, Returned, NoCall, contextVars
<1>6. CASE SaveArtifact \/ AnnounceArtifact
  BY <1>6 DEF Shapes, OneTaskInv, SaveArtifact, AnnounceArtifact
<1>7. CASE RequestReview
  BY <1>7 DEF Shapes, OneTaskInv, RequestReview, AskCritic, Calling
<1>8. CASE RecordReview
  BY <1>8 DEF Shapes, OneTaskInv, RecordReview, PhaseAfter, NoCall
<1>9. CASE CompleteTask \/ RequestRevision
  BY <1>9 DEF Shapes, OneTaskInv, CompleteTask, RequestRevision
<1> QED BY <1>1, <1>2, <1>3, <1>4, <1>5, <1>6, <1>7, <1>8, <1>9 DEF ExecutorStep

LEMMA OneTaskBroker ==
  ASSUME Shapes, OneTaskInv, BrokerStep, UNCHANGED <<call, work, artifacts>>
  PROVE  OneTaskInv'
<1> USE DEF Running, Phase
<1>0. /\ Running /\ work.phase = "tools" /\ tool.task = work.task /\ call.phase = "idle"
      /\ tool.phase \in {"called", "approving", "executing"}
  BY DEF OneTaskInv, BrokerStep, RefuseTool, BudgetRefusesTool, RequestTool, ToolApproved,
         ToolSucceeds, ToolFails
<1>1. tool'.phase # "idle" /\ tool'.task = tool.task
  BY <1>0 DEF Shapes, BrokerStep, RefuseTool, BudgetRefusesTool, RequestTool, ToolApproved,
              ToolSucceeds, ToolFails
<1>2. Running' /\ approval'.phase # "idle" => tool'.phase = "approving"
  <2>1. CASE RefuseTool \/ BudgetRefusesTool
    BY <2>1 DEF RefuseTool, BudgetRefusesTool, Raise
  <2>2. CASE RequestTool
    BY <1>0, <2>2 DEF RequestTool, Shapes, OneTaskInv
  <2>3. CASE ToolApproved
    BY <2>3 DEF ToolApproved, NoApproval
  <2>4. CASE ToolSucceeds \/ ToolFails
    BY <1>0, <2>4 DEF ToolSucceeds, ToolFails, OneTaskInv
  <2> QED BY <2>1, <2>2, <2>3, <2>4 DEF BrokerStep
<1> QED BY <1>0, <1>1, <1>2 DEF OneTaskInv

LEMMA OneTaskWaits ==
  ASSUME OneTaskInv, UNCHANGED <<tool, work, artifacts>>,
         \/ (AgentStep \/ CancelCall) /\ UNCHANGED approval
         \/ (GateStep \/ CancelApproval) /\ UNCHANGED call
  PROVE  OneTaskInv'
<1> USE DEF Running
<1>1. CASE (AgentStep \/ CancelCall) /\ UNCHANGED approval
  <2>1. Running /\ call.phase # "idle"
    BY <1>1 DEF AgentStep, GuardRefuses, RequestModel, AnswerParses, AnswerMalformed, ProviderFails,
                RejectOutput, CancelCall
  <2> QED BY <1>1, <2>1 DEF OneTaskInv
<1>2. CASE (GateStep \/ CancelApproval) /\ UNCHANGED call
  <2>1. Running /\ approval.phase # "idle"
    BY <1>2 DEF GateStep, ApprovalStep, RequestApproval, Decide, ProviderUnavailable,
                CancelApproval
  <2> QED BY <1>2, <2>1 DEF OneTaskInv
<1> QED BY <1>1, <1>2

(* Every step is one of these to every task, the one there is or not.      *)
LEMMA OneTaskStep ==
  ASSUME Shapes, OneTaskInv, [TaskNext]_taskVars, NEW id
  PROVE  OneTaskInv' /\ Moves(id)
<1>1. CASE AssignTask
  <2>1. PICK allowed \in SUBSET Tools : work' = Execute(1, allowed)
    BY <1>1 DEF AssignTask
  <2>2. /\ work'.phase = "starting" /\ work'.task = 1 /\ work'.revision = 0 /\ work'.results = <<>>
    BY <2>1 DEF Execute
  <2>3. /\ work.phase = "idle" /\ events = {} /\ artifacts = {}
        /\ UNCHANGED <<sequence, events, raised, approval, call, tool, artifacts>>
    BY <1>1 DEF AssignTask, contextVars, OneTaskInv
  <2>4. CASE id = 1
    <3>1. Fresh(id)
      BY <2>3 DEF Fresh, ArtifactsOf
    <3> QED BY <2>2, <2>3, <2>4, <3>1 DEF OneTaskInv, Running, Moves, Assigns
  <2>5. CASE id # 1
    BY <2>2, <2>3, <2>5 DEF OneTaskInv, Running, Moves, Elsewhere, EmitsNone, ArtifactsOf, Live
  <2> QED BY <2>4, <2>5
<1>2. CASE ExecutorStep
  BY <1>2, OneTaskExecutes, ExecutorSeen DEF Moves
<1>3. CASE (AgentStep \/ CancelCall) /\ UNCHANGED <<approval, tool, effects, work, artifacts>>
  BY <1>3, OneTaskWaits, AgentStays DEF Moves
<1>4. CASE ToolStep /\ UNCHANGED <<call, work, artifacts>>
  <2>1. Running
    BY <1>4, ToolRuns
  <2>2. Moves(id)
    BY <1>4, <2>1, ToolMoves DEF OneTaskInv, Moves
  <2> QED BY <1>4, <2>2, OneTaskBroker, OneTaskWaits DEF ToolStep, GateStep
<1>5. CASE UNCHANGED <<sequence, events, raised, approval, call, tool, work, artifacts>>
  BY <1>5 DEF OneTaskInv, Running, Moves, Waits, EmitsNone
<1> QED BY <1>1, <1>2, <1>3, <1>4, <1>5
        DEF TaskNext, TaskStep, Cancel, ToolStep, GateStep, ClockPasses, taskVars, contextVars

OneTaskGuarantees == FrameTypes /\ OneTaskInv /\ \A id : ExecutorInv(id)

LEMMA OneTaskGuaranteed == TaskSpec => []OneTaskGuarantees
<1>1. TaskStart => OneTaskGuarantees
  <2> SUFFICES ASSUME TaskStart PROVE OneTaskGuarantees
    OBVIOUS
  <2>1. /\ work = NoWork /\ artifacts = {} /\ events = {}
        /\ call = NoCall /\ tool = NoTool /\ approval = NoApproval
    BY DEF TaskStart, ContextInit, GateInit, AgentInit, BrokerInit, TaskInit
  <2>2. OneTaskInv /\ work.phase = "idle"
    BY <2>1 DEF OneTaskInv, NoWork, NoCall, NoTool, NoApproval
  <2> QED BY <2>1, <2>2, FrameTypesInit, ExecutorInvInit DEF TaskStart, OneTaskGuarantees
<1>2. OneTaskGuarantees /\ [TaskNext]_taskVars => OneTaskGuarantees'
  <2> SUFFICES ASSUME OneTaskGuarantees, [TaskNext]_taskVars PROVE OneTaskGuarantees'
    OBVIOUS
  <2>1. FrameTypes /\ FrameTypes' /\ Shapes
    BY TaskTypesStep, FrameShapes DEF OneTaskGuarantees
  <2>2. OneTaskInv' /\ \A id : Moves(id)
    BY <2>1, OneTaskStep DEF OneTaskGuarantees
  <2>3. \A id : ExecutorInv(id)'
    BY <2>1, <2>2, ExecutorInvStep DEF OneTaskGuarantees
  <2> QED BY <2>1, <2>2, <2>3 DEF OneTaskGuarantees
<1> QED BY <1>1, <1>2, PTL DEF TaskSpec

(* Every attempt after the first was asked for by a review.                *)
THEOREM RevisionsOnlyOnRequest == TaskSpec => []RevisionsOnRequest
<1>1. OneTaskGuarantees => RevisionsOnRequest
  BY ExecutorInvImplies DEF OneTaskGuarantees
<1> QED BY <1>1, OneTaskGuaranteed, PTL

(* A revision leaves at most one artifact.                                 *)
THEOREM ArtifactsStaySingle == TaskSpec => []OneArtifactPerRevision
<1>1. OneTaskGuarantees => OneArtifactPerRevision
  BY ExecutorInvImplies DEF OneTaskGuarantees
<1> QED BY <1>1, OneTaskGuaranteed, PTL

(* No task completes but on a pass of the artifact of its last attempt.    *)
THEOREM CompletionsAreReviewed == TaskSpec => []CompletedMeansReviewed
<1>1. OneTaskGuarantees => CompletedMeansReviewed
  BY ExecutorInvImplies DEF OneTaskGuarantees
<1> QED BY <1>1, OneTaskGuaranteed, PTL

(* An artifact carries the observations of its own revision, in order.     *)
THEOREM ObservationsStayInRevision == TaskSpec => []ObservationsOfRevision
<1>1. OneTaskGuarantees => ObservationsOfRevision
  BY ExecutorInvImplies DEF OneTaskGuarantees
<1> QED BY <1>1, OneTaskGuaranteed, PTL

=============================================================================
