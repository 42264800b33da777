--------------------------- MODULE TaskExecution ----------------------------
(***************************************************************************)
(* One task from assignment to an accepted artifact:                       *)
(* ReviewedTaskExecutor.execute of workflows/task_execution.py.  The       *)
(* specialist works, asking for tools as often as it likes; its product    *)
(* becomes an artifact; the critic passes it, fails it, or sends it back.  *)
(*                                                                         *)
(* A WorkProduct is the sequence of the tool names it requests; the empty  *)
(* sequence is a final product.  A Review is its decision.                 *)
(***************************************************************************)
EXTENDS LLMAgent, ToolBroker, Sequences

CONSTANT MaxRevisions   \* limits.max_revisions_per_task

ASSUME RevisionsAssumption == MaxRevisions \in Nat

(* What the agents ask the model for. *)
ASSUME SchemasAssumption == {"WorkProduct", "Review"} \subseteq Schemas
ASSUME ReviewAssumption == Outputs["Review"] \subseteq {"pass", "revise", "fail"}

VARIABLES
  work,        \* the locals of execute
  artifacts    \* the rows of the artifacts table

taskVars == <<contextVars, approval, call, tool, effects, work, artifacts>>

Execute(task, allowed) ==
  [phase |-> "starting", task |-> task, allowed |-> allowed, revision |-> 0,
   results |-> <<>>, requests |-> <<>>, usage |-> 0]
NoWork ==
  [phase |-> "idle", task |-> 0, allowed |-> {}, revision |-> 0,
   results |-> <<>>, requests |-> <<>>, usage |-> 0]

TaskInit == work = NoWork /\ artifacts = {}

At(phase) == Running /\ work.phase = phase

(* The artifact of the current revision, with the observations it carries. *)
Artifact == [task |-> work.task, revision |-> work.revision, tool_results |-> work.results]

AskSpecialist == Calling("WorkProduct", work.task)   \* SpecialistAgent.run_task
AskCritic == Calling("Review", work.task)            \* CriticAgent.review

TaskDone == At("done")

-----------------------------------------------------------------------------

(* Mutant: tool_results is initialised once, before the loop. *)
BeginRevisionKeeping ==
  /\ At("starting")
  /\ Emit("agent.started", work.task, "")
  /\ work' = [work EXCEPT !.phase = "working"]
  /\ call' = AskSpecialist
  /\ UNCHANGED <<budgetVars, approval, tool, effects, artifacts>>

BeginRevision ==
  /\ At("starting")
  /\ Emit("agent.started", work.task, "")
  /\ work' = [work EXCEPT !.phase = "working", !.results = <<>>]
  /\ call' = AskSpecialist
  /\ UNCHANGED <<budgetVars, approval, tool, effects, artifacts>>

(* The product asks for tools: they run one after another. *)
StartTools ==
  /\ At("working") /\ Returned("WorkProduct")
  /\ call.value # <<>>
  /\ work' = [work EXCEPT !.phase = "tools", !.requests = call.value, !.usage = @ + call.usage]
  /\ tool' = ToolCall(Head(call.value), work.task, work.allowed)
  /\ call' = NoCall
  /\ UNCHANGED <<contextVars, approval, effects, artifacts>>

Observed == Append(work.results, tool.name)

NextTool ==
  /\ At("tools") /\ ToolDone
  /\ Len(work.requests) > 1
  /\ work' = [work EXCEPT !.requests = Tail(@), !.results = Observed]
  /\ tool' = ToolCall(work.requests[2], work.task, work.allowed)
  /\ UNCHANGED <<contextVars, approval, call, effects, artifacts>>

(* After the last tool the specialist is asked again: while True. *)
ContinueWork ==
  /\ At("tools") /\ ToolDone
  /\ Len(work.requests) = 1
  /\ work' = [work EXCEPT !.phase = "working", !.requests = <<>>, !.results = Observed]
  /\ tool' = NoTool
  /\ call' = AskSpecialist
  /\ UNCHANGED <<contextVars, approval, effects, artifacts>>

(* Mutant: the artifact is announced without having been saved. *)
AcceptProductUnsaved ==
  /\ At("working") /\ Returned("WorkProduct")
  /\ call.value = <<>>
  /\ work' = [work EXCEPT !.phase = "announcing", !.usage = @ + call.usage]
  /\ call' = NoCall
  /\ UNCHANGED <<contextVars, approval, tool, effects, artifacts>>

AcceptProduct ==
  /\ At("working") /\ Returned("WorkProduct")
  /\ call.value = <<>>
  /\ work' = [work EXCEPT !.phase = "saving", !.usage = @ + call.usage]
  /\ call' = NoCall
  /\ UNCHANGED <<contextVars, approval, tool, effects, artifacts>>

(* SQLiteStore.save_artifact: insert, then commit. *)
StoreArtifact ==
  \/ artifacts' = artifacts \cup {Artifact} /\ Quiet
  \/ /\ StoreRaises
     /\ artifacts' \in {artifacts, artifacts \cup {Artifact}}
     /\ UNCHANGED <<sequence, events>>

SaveArtifact ==
  /\ At("saving")
  /\ StoreArtifact
  /\ work' = [work EXCEPT !.phase = "announcing"]
  /\ UNCHANGED <<budgetVars, approval, call, tool, effects>>

AnnounceArtifact ==
  /\ At("announcing")
  /\ Emit("artifact.created", work.task, "")
  /\ work' = [work EXCEPT !.phase = "submitting"]
  /\ UNCHANGED <<budgetVars, approval, call, tool, effects, artifacts>>

RequestReview ==
  /\ At("submitting")
  /\ Emit("review.requested", work.task, "")
  /\ work' = [work EXCEPT !.phase = "reviewing"]
  /\ call' = AskCritic
  /\ UNCHANGED <<budgetVars, approval, tool, effects, artifacts>>

(* Mutant: one revision too many. *)
RevisionLimitExceeded == work.revision > MaxRevisions

RevisionLimitReached == work.revision >= MaxRevisions

(* Mutant: a failed review is handled like a request to revise. *)
ReviewErrorAtLimit(decision) ==
  IF decision # "pass" /\ RevisionLimitReached THEN "TeamAIError" ELSE raised

ReviewError(decision) ==
  IF decision = "fail" \/ (decision = "revise" /\ RevisionLimitReached)
    THEN "TeamAIError" ELSE raised

(* Mutant: anything but a failure passes. *)
PhaseUnlessFailed(decision) == IF decision # "fail" THEN "passed" ELSE "revising"

PhaseAfter(decision) == IF decision = "pass" THEN "passed" ELSE "revising"

(* The decision is recorded, then acted upon. *)
RecordReview ==
  /\ At("reviewing") /\ Returned("Review")
  /\ EmitThen("review.completed", work.task, call.value, ReviewError(call.value))
  /\ work' = [work EXCEPT !.phase = PhaseAfter(call.value), !.usage = @ + call.usage]
  /\ call' = NoCall
  /\ UNCHANGED <<budgetVars, approval, tool, effects, artifacts>>

CompleteTask ==
  /\ At("passed")
  /\ Emit("task.completed", work.task, "")
  /\ work' = [work EXCEPT !.phase = "done"]
  /\ UNCHANGED <<budgetVars, approval, call, tool, effects, artifacts>>

(* Mutant: the next attempt is counted as the one before. *)
RequestRevisionUncounted ==
  /\ At("revising")
  /\ Emit("task.revision_requested", work.task, "")
  /\ work' = [work EXCEPT !.phase = "starting"]
  /\ UNCHANGED <<budgetVars, approval, call, tool, effects, artifacts>>

RequestRevision ==
  /\ At("revising")
  /\ Emit("task.revision_requested", work.task, "")
  /\ work' = [work EXCEPT !.phase = "starting", !.revision = @ + 1]
  /\ UNCHANGED <<budgetVars, approval, call, tool, effects, artifacts>>

ExecutorStep ==
  \/ BeginRevision
  \/ StartTools
  \/ NextTool
  \/ ContinueWork
  \/ AcceptProduct
  \/ SaveArtifact
  \/ AnnounceArtifact
  \/ RequestReview
  \/ RecordReview
  \/ CompleteTask
  \/ RequestRevision

(* The run's coroutine: whichever frame is on top moves. *)
TaskStep ==
  \/ ExecutorStep
  \/ AgentStep /\ UNCHANGED <<approval, tool, effects, work, artifacts>>
  \/ BrokerStep /\ UNCHANGED <<call, work, artifacts>>
  \/ GateStep /\ UNCHANGED <<call, work, artifacts>>

Cancel ==
  \/ CancelCall /\ UNCHANGED <<approval, tool, effects, work, artifacts>>
  \/ CancelApproval /\ UNCHANGED <<call, tool, effects, work, artifacts>>

-----------------------------------------------------------------------------
(* The component on its own: one task, and any specialist's config.tools.  *)

AssignTask ==
  /\ work.phase = "idle"
  /\ \E allowed \in SUBSET Tools : work' = Execute(1, allowed)
  /\ UNCHANGED <<contextVars, approval, call, tool, effects, artifacts>>

TaskNext ==
  \/ AssignTask
  \/ TaskStep
  \/ Cancel
  \/ ClockPasses /\ UNCHANGED <<approval, call, tool, effects, work, artifacts>>
  \/ (TaskDone \/ ~Running) /\ UNCHANGED taskVars

TaskStart == ContextInit /\ GateInit /\ AgentInit /\ BrokerInit /\ TaskInit

TaskSpec == /\ TaskStart
            /\ [][TaskNext]_taskVars
            /\ WF_taskVars(TaskStep)

-----------------------------------------------------------------------------

WorkTypeOK ==
  /\ work.phase \in {"idle", "starting", "working", "tools", "saving", "announcing", "submitting",
                     "reviewing", "passed", "revising", "done"}
  /\ work.task \in Nat
  /\ work.revision \in 0..MaxRevisions
  /\ work.results \in Seq(Tools)
  /\ work.usage \in Nat
  /\ \A a \in artifacts : a.revision \in Nat /\ a.tool_results \in Seq(Tools)

TaskTypeOK == AgentTypeOK /\ BrokerTypeOK /\ WorkTypeOK

OfTask(type, task) == {e \in OfType(type) : e.task = task}

(* The rows of a task's n-th revision: from its n-th agent.started row to  *)
(* its next one.                                                           *)
Revision(task, e) ==
  Cardinality({f \in OfTask("agent.started", task) : f.sequence <= e.sequence}) - 1

InRevision(type, task, n) == {e \in OfTask(type, task) : Revision(task, e) = n}

(* The observations an artifact carries are those of the tools that        *)
(* completed in its own revision: none from an earlier revision, none      *)
(* missing, in the order of their rows.                                    *)
ObservationsOfRevision ==
  \A a \in artifacts :
    LET completed == InRevision("tool.completed", a.task, a.revision)
    IN  /\ Len(a.tool_results) = Cardinality(completed)
        /\ \A e \in completed :
             a.tool_results[Cardinality({f \in completed : f.sequence <= e.sequence})] = e.note

(* A revision leaves at most one artifact, and only the first              *)
(* max_revisions_per_task + 1 attempts leave one.                          *)
OneArtifactPerRevision ==
  /\ \A a \in artifacts : a.revision \in 0..MaxRevisions
  /\ \A a, b \in artifacts : a.task = b.task /\ a.revision = b.revision => a = b

(* The artifact execute returns is stored, is the one of the last attempt, *)
(* and the critic passed that attempt after the artifact was announced:    *)
(* a verdict on an earlier revision never completes the task.              *)
CompletedMeansReviewed ==
  \A e \in OfType("task.completed") :
    \E a \in artifacts :
      /\ a.task = e.task
      /\ a.revision = Revision(e.task, e)
      /\ \E c \in InRevision("artifact.created", a.task, a.revision),
            r \in InRevision("review.completed", a.task, a.revision) :
              c.sequence < r.sequence /\ r.sequence < e.sequence /\ r.note = "pass"

(* Every attempt after the first was asked for by a review of the attempt  *)
(* before it.                                                              *)
RevisionsOnRequest ==
  \A s \in OfType("agent.started") : Revision(s.task, s) > 0 =>
    \E r \in InRevision("review.completed", s.task, Revision(s.task, s) - 1) : r.note = "revise"

=============================================================================
