---------------------------- MODULE ApprovalGate ----------------------------
(***************************************************************************)
(* The handshake by which a plan, a high-risk task or a tool call waits    *)
(* for the approval provider.  The code writes it out three times:         *)
(* PlanExecuteReviewWorkflow._approve_plan and _approve_high_risk_task,    *)
(* and ToolBroker.execute.  The caller sets approval to Asking(...) and    *)
(* goes on when it is granted.                                             *)
(***************************************************************************)
EXTENDS RunContext

CONSTANT Decisions   \* what the provider may answer: a subset of BOOLEAN

ASSUME DecisionsAssumption == Decisions \subseteq BOOLEAN

VARIABLE approval    \* the request in progress

gateVars == <<contextVars, approval>>

Asking(action, task) == [phase |-> "asking", action |-> action, task |-> task]
NoApproval == [phase |-> "idle", action |-> "none", task |-> 0]

GateInit == approval = NoApproval

RequestApproval ==
  /\ approval.phase = "asking" /\ Running
  /\ Emit("approval.requested", approval.task, approval.action)
  /\ approval' = [approval EXCEPT !.phase = "waiting"]
  /\ UNCHANGED budgetVars

(* Mutant: the decision is recorded and not looked at. *)
DecideAnyhow ==
  /\ approval.phase = "waiting" /\ Running
  /\ \E approved \in Decisions :
       Emit("approval.completed", approval.task, IF approved THEN "approved" ELSE "rejected")
  /\ approval' = [approval EXCEPT !.phase = "granted"]
  /\ UNCHANGED budgetVars

(* The decision is recorded before a rejection is raised. *)
Decide ==
  /\ approval.phase = "waiting" /\ Running
  /\ \E approved \in Decisions :
       /\ EmitThen("approval.completed", approval.task, IF approved THEN "approved" ELSE "rejected",
                   IF approved THEN raised ELSE "ApprovalRejectedError")
       /\ approval' = [approval EXCEPT !.phase = IF approved THEN "granted" ELSE "idle"]
  /\ UNCHANGED budgetVars

(* The provider itself raises: input() meets the end of its input.         *)
ProviderUnavailable ==
  /\ approval.phase = "waiting" /\ Running
  /\ Raise("ApprovalProviderError")
  /\ UNCHANGED <<approval, budgetVars>>

ApprovalStep == RequestApproval \/ Decide \/ ProviderUnavailable

(* Cancellation is delivered while the coroutine waits for the answer.     *)
CancelApproval ==
  /\ approval.phase = "waiting" /\ Running
  /\ Raise(Cancelled)
  /\ UNCHANGED <<approval, budgetVars>>

=============================================================================
