----------------------------- MODULE ToolBroker -----------------------------
(***************************************************************************)
(* One tool call through ToolBroker.execute of tools/broker.py: permission *)
(* check, budget, approval when the tool or its side effect requires one,  *)
(* execution.  A caller sets tool to ToolCall(...) and goes on when its    *)
(* phase is "done".                                                        *)
(*                                                                         *)
(* The tools themselves (tools/builtin/filesystem.py) are seen through     *)
(* their effect on the workspace: effects has one record per execution,    *)
(* with the number of events the run had emitted when it took place.       *)
(***************************************************************************)
EXTENDS ApprovalGate

CONSTANTS
  Tools,     \* the registered tools
  Gated      \* the tools that security.require_approval_for names

ASSUME ToolsAssumption == Gated \subseteq Tools

VARIABLES
  tool,      \* the tool call in progress
  effects    \* executions that touched the workspace

brokerVars == <<gateVars, tool, effects>>

ToolCall(name, task, allowed) ==
  [phase |-> "called", name |-> name, task |-> task, allowed |-> allowed]
NoTool == [phase |-> "idle", name |-> "none", task |-> 0, allowed |-> {}]

BrokerInit == tool = NoTool /\ effects = {}

Phase(p) == Running /\ tool.phase = p

ToolDone == Phase("done")

-----------------------------------------------------------------------------

(* Mutant: an agent without a tool list may use any tool. *)
PermittedByDefault == tool.allowed = {} \/ tool.name \in tool.allowed

Permitted == tool.name \in tool.allowed \cap Tools

RefuseTool ==
  /\ Phase("called")
  /\ ~Permitted
  /\ Raise("ToolExecutionError")
  /\ UNCHANGED <<tool, effects, approval, budgetVars>>

(* Mutant: one call too many. *)
ToolCallRefusedLate == overtime \/ tool_calls > MaxToolCalls

ToolCallRefused == Refused(tool_calls, MaxToolCalls)

(* Mutant: a refused call is tried again until the budget admits it. *)
BudgetDelaysTool ==
  /\ Phase("called")
  /\ Permitted
  /\ ToolCallRefused
  /\ UNCHANGED <<contextVars, tool, effects, approval>>

BudgetRefusesTool ==
  /\ Phase("called")
  /\ Permitted
  /\ ToolCallRefused
  /\ tool_calls' = Consumed(tool_calls)
  /\ Raise("BudgetExceededError")
  /\ UNCHANGED <<model_calls, overtime, tool, effects, approval>>

RequestTool ==
  /\ Phase("called")
  /\ Permitted
  /\ ~ToolCallRefused
  /\ tool_calls' = Consumed(tool_calls)
  /\ Emit("tool.requested", tool.task, tool.name)
  /\ tool' = [tool EXCEPT !.phase = IF tool.name \in Gated THEN "approving" ELSE "executing"]
  /\ approval' = IF tool.name \in Gated THEN Asking(tool.name, tool.task) ELSE approval
  /\ UNCHANGED <<model_calls, overtime, effects>>

ToolApproved ==
  /\ Phase("approving")
  /\ approval.phase = "granted"
  /\ tool' = [tool EXCEPT !.phase = "executing"]
  /\ approval' = NoApproval
  /\ UNCHANGED <<contextVars, effects>>

Effect == [tool |-> tool.name, task |-> tool.task, at |-> sequence]

ToolSucceeds ==
  /\ Phase("executing")
  /\ effects' = effects \cup {Effect}
  /\ Emit("tool.completed", tool.task, tool.name)
  /\ tool' = [tool EXCEPT !.phase = "done"]
  /\ UNCHANGED <<approval, budgetVars>>

(* A write that raises may have created directories or part of the file.   *)
ToolFails ==
  /\ Phase("executing")
  /\ effects' \in {effects, effects \cup {Effect}}
  /\ EmitThen("tool.failed", tool.task, tool.name, "ToolExecutionError")
  /\ UNCHANGED <<tool, approval, budgetVars>>

GateStep == ApprovalStep /\ UNCHANGED <<tool, effects>>

BrokerStep ==
  \/ RefuseTool
  \/ BudgetRefusesTool
  \/ RequestTool
  \/ ToolApproved
  \/ ToolSucceeds
  \/ ToolFails

-----------------------------------------------------------------------------
(* The component on its own: agents that keep asking for tools, each with  *)
(* its own config.tools, and sometimes for a name that is not registered.  *)

CallTool ==
  /\ tool.phase \in {"idle", "done"} /\ Running
  /\ \E name \in Tools \cup {"unregistered"}, allowed \in SUBSET Tools :
       tool' = ToolCall(name, 0, allowed)
  /\ UNCHANGED <<contextVars, approval, effects>>

BrokerNext ==
  \/ CallTool
  \/ BrokerStep
  \/ GateStep
  \/ CancelApproval /\ UNCHANGED <<tool, effects>>
  \/ ClockPasses /\ UNCHANGED <<approval, tool, effects>>
  \/ ~Running /\ UNCHANGED brokerVars

BrokerStart == ContextInit /\ GateInit /\ BrokerInit

(* A tool runs synchronously.  That an approval is eventually answered     *)
(* holds by construction for AutoApproveProvider and RejectApprovalProvider *)
(* and is an assumption about the human at the terminal.                   *)
BrokerSpec == /\ BrokerStart
              /\ [][BrokerNext]_brokerVars
              /\ WF_brokerVars(BrokerStep \/ GateStep)

-----------------------------------------------------------------------------

GateTypeOK ==
  /\ approval.phase \in {"idle", "asking", "waiting", "granted"}
  /\ approval.action \in Tools \cup {"none", "plan.execute", "task.execute"}
  /\ approval.task \in Nat

BrokerTypeOK ==
  /\ ContextTypeOK
  /\ GateTypeOK
  /\ tool.phase \in {"idle", "called", "approving", "executing", "done"}
  /\ tool.task \in Nat
  /\ tool.allowed \in SUBSET Tools
  /\ tool.phase \in {"approving", "executing", "done"} => tool.name \in Tools
  /\ \A f \in effects : f.tool \in Tools /\ f.at \in 1..sequence

EventAt(n, type, note) ==
  \E e \in events : e.sequence = n /\ e.type = type /\ e.note = note

(* No effect without its own permission: whenever a tool that needs        *)
(* approval touches the workspace, the last three rows are this call's     *)
(* request, its approval request, and an approving decision.  A decision   *)
(* is never used for two calls.                                            *)
GatedEffectsApproved ==
  \A f \in effects : f.tool \in Gated =>
    /\ EventAt(f.at - 2, "tool.requested", f.tool)
    /\ EventAt(f.at - 1, "approval.requested", f.tool)
    /\ EventAt(f.at, "approval.completed", "approved")

(* Every effect is a tool call the run's budget admitted, and was recorded *)
(* before it happened: an effect can be newer than the event log only by   *)
(* its own outcome row.                                                    *)
EffectsWithinBudget ==
  /\ Cardinality(effects) <= Count("tool.requested")
  /\ Count("tool.requested") <= MaxToolCalls
  /\ \A f \in effects : \E e \in OfType("tool.requested") :
       e.note = f.tool /\ e.sequence \in (f.at - 2)..f.at

=============================================================================
