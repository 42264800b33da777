------------------------------ MODULE TeamRun -------------------------------
(***************************************************************************)
(* One run of a team, from goal to stored result: Conductor.run of         *)
(* conductor.py around one of the two workflows, plan_execute_review.py or *)
(* pipeline.py.  The run is one coroutine.  Its frames are the conductor   *)
(* and the workflow (run), plan validation (PlanValidation), the task      *)
(* executor (TaskExecution), and below it a model call (LLMAgent), a tool  *)
(* call (ToolBroker) or an approval (ApprovalGate); the frame on top moves. *)
(*                                                                         *)
(* An exception unwinds to the conductor, which catches every Exception    *)
(* raised after run.started.  Cancellation is no Exception: it ends the    *)
(* run with no further row.                                                *)
(***************************************************************************)
EXTENDS TaskExecution, PlanValidation

CONSTANTS
  Strategy,             \* workflow.strategy
  RequirePlanApproval,  \* security.require_plan_approval
  SpecialistTools       \* config.tools of each specialist

ASSUME StrategyAssumption == Strategy \in {"plan_execute_review", "pipeline"}
ASSUME PlanApprovalAssumption == RequirePlanApproval \in BOOLEAN
ASSUME SpecialistToolsAssumption ==
  SpecialistTools \in [DOMAIN SpecialistCaps -> SUBSET Tools]

(* What the planner answers is a plan; TeamConfig.validate_references asks *)
(* for a specialist, and names finitely many capabilities.                 *)
ASSUME RunSchemasAssumption == {"Plan", "FinalOutput"} \subseteq Schemas
ASSUME PlannerAssumption == Outputs["Plan"] \subseteq Plans
ASSUME TeamAssumption == SpecialistCaps # <<>> /\ IsFiniteSet(Capabilities)

VARIABLES
  run,   \* the locals of the conductor and of the workflow
  row    \* the run's row in the runs table

vars == <<taskVars, planVars, run, row>>

Init ==
  /\ ContextInit /\ GateInit /\ AgentInit /\ BrokerInit /\ TaskInit /\ PlanInit
  /\ run = [phase |-> "new", todo |-> <<>>, agent |-> 0, accepted |-> {}, usage |-> 0]
  /\ row = [status |-> "none", usage |-> 0, artifacts |-> {}]

On(phase) == Running /\ run.phase = phase

AskPlanner == Calling("Plan", 0)            \* PlannerAgent.create_plan
AskFinalizer == Calling("FinalOutput", 0)   \* FinalizerAgent.finalize

Goto(phase) == run' = [run EXCEPT !.phase = phase]

below == <<approval, call, tool, effects, work, artifacts>>

-----------------------------------------------------------------------------
(* Conductor.run up to the workflow.  The first two events are emitted     *)
(* outside its try statement: if one cannot be stored, nobody handles it.  *)

CreateRun ==
  /\ On("new")
  /\ Emit("run.created", 0, "")
  /\ Goto(IF raised' = "none" THEN "created" ELSE "ended")
  /\ UNCHANGED <<budgetVars, below, planVars, row>>

StartRun ==
  /\ On("created")
  /\ Emit("run.started", 0, "")
  /\ Goto(IF raised' = "none" THEN Strategy ELSE "ended")
  /\ UNCHANGED <<budgetVars, below, planVars, row>>

-----------------------------------------------------------------------------
(* PlanExecuteReviewWorkflow.run: the plan. *)

RequestPlan ==
  /\ On("plan_execute_review")
  /\ Emit("plan.requested", 0, "")
  /\ call' = AskPlanner
  /\ Goto("planning")
  /\ UNCHANGED <<budgetVars, approval, tool, effects, work, artifacts, planVars, row>>

ReceivePlan ==
  /\ On("planning") /\ Returned("Plan")
  /\ Emit("plan.created", 0, "")
  /\ Submit(call.value)
  /\ run' = [run EXCEPT !.phase = "validating", !.usage = @ + call.usage]
  /\ call' = NoCall
  /\ UNCHANGED <<budgetVars, approval, tool, effects, work, artifacts, row>>

ValidatePlan ==
  /\ On("validating")
  /\ ValidationStep
  /\ UNCHANGED <<taskVars, run, row>>

PlanRefused ==
  /\ On("validating")
  /\ verdict \in {"BudgetExceededError", "PlanValidationError"}
  /\ Raise(verdict)
  /\ UNCHANGED <<budgetVars, below, planVars, run, row>>

(* Mutant: tasks run as the plan lists them. *)
ListedOrder == [i \in DOMAIN plan |-> plan[i].id]

(* The plan's tasks in the order validate_plan returned. *)
ExecutionOrder == ordered

PlanValidated ==
  /\ On("validating")
  /\ verdict = "valid"
  /\ Emit("plan.validated", 0, "")
  /\ run' = [run EXCEPT !.phase = IF RequirePlanApproval THEN "approving" ELSE "scheduling",
                        !.todo = ExecutionOrder]
  /\ approval' = IF RequirePlanApproval THEN Asking("plan.execute", 0) ELSE approval
  /\ UNCHANGED <<budgetVars, call, tool, effects, work, artifacts, planVars, row>>

PlanApproved ==
  /\ On("approving")
  /\ approval.phase = "granted"
  /\ approval' = NoApproval
  /\ Goto("scheduling")
  /\ UNCHANGED <<contextVars, call, tool, effects, work, artifacts, planVars, row>>

-----------------------------------------------------------------------------
(* PipelineWorkflow.run builds the one-task plan itself. *)

PipelinePlan ==
  <<[id |-> 1, dependencies |-> <<>>, required |-> {}, criteria |-> TRUE, risk |-> "low"]>>

StartPipeline ==
  /\ On("pipeline")
  /\ plan' = PipelinePlan
  /\ IF TooManyTasks(plan')
       THEN Raise("BudgetExceededError")
       ELSE Emit("pipeline.started", 0, "")
  /\ run' = [run EXCEPT !.phase = "ready", !.todo = <<1>>]
  /\ UNCHANGED <<budgetVars, below, verdict, incoming, queue, ordered, row>>

-----------------------------------------------------------------------------
(* The task loop. *)

Current == Head(run.todo)
RiskOf(task) == {plan[i].risk : i \in {j \in DOMAIN plan : plan[j].id = task}}
RequiredBy(task) == UNION {plan[i].required : i \in {j \in DOMAIN plan : plan[j].id = task}}

(* Mutant: an approved plan is taken to approve its tasks. *)
HighRiskUnplanned(task) == ~RequirePlanApproval /\ "high" \in RiskOf(task)

HighRisk(task) == "high" \in RiskOf(task)

NextTask ==
  /\ On("scheduling")
  /\ run.todo # <<>>
  /\ Goto(IF HighRisk(Current) THEN "asking" ELSE "ready")
  /\ approval' = IF HighRisk(Current) THEN Asking("task.execute", Current) ELSE approval
  /\ UNCHANGED <<contextVars, call, tool, effects, work, artifacts, planVars, row>>

TaskApproved ==
  /\ On("asking")
  /\ approval.phase = "granted"
  /\ approval' = NoApproval
  /\ Goto("ready")
  /\ UNCHANGED <<contextVars, call, tool, effects, work, artifacts, planVars, row>>

TaskReady ==
  /\ On("ready")
  /\ Emit("task.ready", Current, "")
  /\ Goto("routing")
  /\ UNCHANGED <<budgetVars, below, planVars, row>>

(* CapabilityRoutingPolicy.select_agent: the eligible specialist with the  *)
(* fewest capabilities, the first by name among those.                     *)
Selected(task) ==
  {a \in Eligible(RequiredBy(task)) :
     \A b \in Eligible(RequiredBy(task)) :
       \/ Cardinality(SpecialistCaps[a]) < Cardinality(SpecialistCaps[b])
       \/ Cardinality(SpecialistCaps[a]) = Cardinality(SpecialistCaps[b]) /\ a <= b}

RouteTask ==
  /\ On("routing")
  /\ IF Selected(Current) = {}
       THEN Raise("RoutingError") /\ UNCHANGED run
       ELSE /\ Emit("task.assigned", Current, "")
            /\ \E a \in Selected(Current) : run' = [run EXCEPT !.phase = "assigned", !.agent = a]
  /\ UNCHANGED <<budgetVars, below, planVars, row>>

Accepted == {a.task : a \in run.accepted}

(* The dependency artifacts are looked up, and the task is executed. *)
StartTask ==
  /\ On("assigned")
  /\ IF Dependencies(plan, Current) \subseteq Accepted
       THEN /\ work' = Execute(Current, SpecialistTools[run.agent])
            /\ UNCHANGED raised
       ELSE /\ raised' = "KeyError"
            /\ UNCHANGED work
  /\ Goto("executing")
  /\ UNCHANGED <<sequence, events, store_faults, budgetVars, approval, call, tool, effects,
                 artifacts, planVars, row>>

ExecuteTask ==
  /\ On("executing")
  /\ ExecutorStep
  /\ UNCHANGED <<planVars, run, row>>

KeepArtifact ==
  /\ On("executing") /\ TaskDone
  /\ run' = [run EXCEPT !.phase = "scheduling", !.todo = Tail(@), !.usage = @ + work.usage,
                        !.accepted = @ \cup {Artifact}]
  /\ work' = NoWork
  /\ tool' = NoTool
  /\ UNCHANGED <<contextVars, approval, call, effects, artifacts, planVars, row>>

-----------------------------------------------------------------------------
(* The final output. *)

Finalize ==
  /\ On("scheduling")
  /\ run.todo = <<>>
  /\ call' = AskFinalizer
  /\ Goto("finalizing")
  /\ UNCHANGED <<contextVars, approval, tool, effects, work, artifacts, planVars, row>>

(* Mutant: the finalizer's usage is not added. *)
ReceiveFinalOutputOnly ==
  /\ On("finalizing") /\ Returned("FinalOutput")
  /\ Goto(IF Strategy = "pipeline" THEN "closing" ELSE "completing")
  /\ call' = NoCall
  /\ UNCHANGED <<contextVars, approval, tool, effects, work, artifacts, planVars, row>>

ReceiveFinalOutput ==
  /\ On("finalizing") /\ Returned("FinalOutput")
  /\ run' = [run EXCEPT !.phase = IF Strategy = "pipeline" THEN "closing" ELSE "completing",
                        !.usage = @ + call.usage]
  /\ call' = NoCall
  /\ UNCHANGED <<contextVars, approval, tool, effects, work, artifacts, planVars, row>>

ClosePipeline ==
  /\ On("closing")
  /\ Emit("pipeline.completed", 0, "")
  /\ Goto("completing")
  /\ UNCHANGED <<budgetVars, below, planVars, row>>

-----------------------------------------------------------------------------
(* Conductor.run after the workflow. *)

CompleteRun ==
  /\ On("completing")
  /\ Emit("run.completed", 0, "")
  /\ Goto("saving")
  /\ UNCHANGED <<budgetVars, below, planVars, row>>

SucceededRow == [status |-> "succeeded", usage |-> run.usage, artifacts |-> run.accepted]
FailedRow == [status |-> "failed", usage |-> 0, artifacts |-> {}]

(* Mutant: a result that cannot be saved is logged and forgotten. *)
SaveRunAnyhow(result) ==
  \/ row' = result /\ Quiet
  \/ /\ store_faults < MaxStoreFaults
     /\ store_faults' = store_faults + 1
     /\ row' \in {row, result}
     /\ UNCHANGED <<sequence, events, raised>>

(* SQLiteStore.save_run: insert or replace, then commit. *)
SaveRun(result) ==
  \/ row' = result /\ Quiet
  \/ StoreRaises /\ row' \in {row, result} /\ UNCHANGED <<sequence, events>>

SaveSucceeded ==
  /\ On("saving")
  /\ SaveRun(SucceededRow)
  /\ Goto(IF raised' = "none" THEN "ended" ELSE "saving")
  /\ UNCHANGED <<budgetVars, below, planVars>>

(* except Exception: everything raised between run.started and the end of  *)
(* the successful save comes here.                                         *)
Handled == raised \in Errors /\ run.phase \notin {"new", "created", "failing", "ended"}

(* Mutant: the failed result is not stored. *)
FailRunUnsaved ==
  /\ Handled
  /\ Emit("run.failed", 0, raised)
  /\ Goto("ended")
  /\ UNCHANGED <<budgetVars, below, planVars, row>>

FailRun ==
  /\ Handled
  /\ Emit("run.failed", 0, raised)
  /\ Goto(IF store_faults' = store_faults THEN "failing" ELSE "ended")
  /\ UNCHANGED <<budgetVars, below, planVars, row>>

SaveFailed ==
  /\ run.phase = "failing"
  /\ SaveRun(FailedRow)
  /\ Goto("ended")
  /\ UNCHANGED <<budgetVars, below, planVars>>

CancelledRun ==
  /\ raised = Cancelled
  /\ run.phase # "ended"
  /\ Goto("ended")
  /\ UNCHANGED <<contextVars, below, planVars, row>>

-----------------------------------------------------------------------------

ConductorStep ==
  \/ CreateRun
  \/ StartRun
  \/ CompleteRun
  \/ SaveSucceeded
  \/ FailRun
  \/ SaveFailed
  \/ CancelledRun

WorkflowStep ==
  \/ RequestPlan
  \/ ReceivePlan
  \/ ValidatePlan
  \/ PlanRefused
  \/ PlanValidated
  \/ PlanApproved
  \/ StartPipeline
  \/ NextTask
  \/ TaskApproved
  \/ TaskReady
  \/ RouteTask
  \/ StartTask
  \/ ExecuteTask
  \/ KeepArtifact
  \/ Finalize
  \/ ReceiveFinalOutput
  \/ ClosePipeline

CallStep ==
  \/ AgentStep /\ UNCHANGED <<approval, tool, effects, work, artifacts, planVars, run, row>>
  \/ BrokerStep /\ UNCHANGED <<call, work, artifacts, planVars, run, row>>
  \/ GateStep /\ UNCHANGED <<call, work, artifacts, planVars, run, row>>

RunStep == ConductorStep \/ WorkflowStep \/ CallStep

Ended == run.phase = "ended"

Next ==
  \/ RunStep
  \/ Cancel /\ UNCHANGED <<planVars, run, row>>
  \/ ~Ended /\ ClockPasses /\ UNCHANGED <<below, planVars, run, row>>
  \/ Ended /\ UNCHANGED vars

(* The event loop keeps running the coroutine, providers answer or time    *)
(* out, and an approval is eventually decided.                             *)
Spec == Init /\ [][Next]_vars /\ WF_vars(RunStep)

-----------------------------------------------------------------------------

RunTypeOK ==
  /\ TaskTypeOK
  /\ PlanTypeOK
  /\ run.todo \in Seq(Nat)
  /\ run.agent \in {0} \cup DOMAIN SpecialistCaps
  /\ run.usage \in Nat
  /\ run.accepted \subseteq artifacts
  /\ row.status \in {"none", "succeeded", "failed"}

(* A task becomes ready only after every task it depends on was completed, *)
(* whatever order the plan lists them in.                                  *)
DependenciesCompleteFirst ==
  \A e \in OfType("task.ready") : \A d \in Dependencies(plan, e.task) :
    \E f \in OfTask("task.completed", d) : f.sequence < e.sequence

(* Under require_plan_approval no task of a planned run becomes ready      *)
(* before the plan was approved; no high-risk task becomes ready without   *)
(* an approval of its own, given directly before.                          *)
ApprovedBeforeReady ==
  \A e \in OfType("task.ready") :
    /\ Strategy = "plan_execute_review" /\ RequirePlanApproval =>
         \E n \in 1..(e.sequence - 1) : /\ EventAt(n - 1, "approval.requested", "plan.execute")
                                        /\ EventAt(n, "approval.completed", "approved")
    /\ "high" \in RiskOf(e.task) =>
         /\ EventAt(e.sequence - 2, "approval.requested", "task.execute")
         /\ EventAt(e.sequence - 1, "approval.completed", "approved")

(* Whoever rejects - the plan, a task or a tool call - ends the run: the   *)
(* only row after a rejection is run.failed, and nothing is executed.      *)
RejectionEndsRun ==
  \A e \in OfType("approval.completed") : e.note = "rejected" =>
    /\ \A f \in events : f.sequence > e.sequence => f.type = "run.failed"
    /\ \A f \in effects : f.at < e.sequence
    /\ row.status # "succeeded"

(* What validate_plan checked still holds when the workflow relies on it:  *)
(* routing finds a specialist and every dependency artifact is there.      *)
ValidatedPlansNeverGetStuck == raised \notin {"RoutingError", "KeyError"}

(* A run stored as succeeded is complete: one accepted artifact per task   *)
(* of the plan, each on disk, and the usage of every model response.       *)
SucceededRunComplete ==
  row.status = "succeeded" =>
    /\ row.artifacts \subseteq artifacts
    /\ {a.task : a \in row.artifacts} = Ids(plan)
    /\ Cardinality(row.artifacts) = Len(plan)
    /\ row.usage = Count("model.completed")

LastEvent(type) == \E e \in OfType(type) : e.sequence = sequence

(* When the run is over, the caller, the runs row and the event log tell   *)
(* the same story.  A raised run that is not cancelled ends in run.failed  *)
(* with a failed row, unless the store raised as well; a returned run ends *)
(* in run.completed with a succeeded row.  Only a fault of the store while *)
(* it saved the success can leave both terminal events.                    *)
OutcomeConsistent ==
  /\ Ended /\ Running =>
       LastEvent("run.completed") /\ Count("run.failed") = 0 /\ row.status = "succeeded"
  /\ Ended /\ raised \in Errors /\ store_faults = 0 =>
       LastEvent("run.failed") /\ Count("run.completed") = 0 /\ row = FailedRow
  /\ row.status = "failed" => Count("run.failed") = 1
  /\ Count("run.failed") > 0 /\ Count("run.completed") > 0 => store_faults > 0

(* BudgetExceededError is "raised when a run exceeds a configured          *)
(* execution limit" (core/errors.py): a run that is over its               *)
(* max_runtime_seconds is not stored as succeeded.  The code looks at the  *)
(* clock only when a model or tool call starts, so a run that goes over    *)
(* the limit after its last call does succeed.                             *)
SucceededWithinRuntime == row.status = "succeeded" => ~overtime

(* Every run that is not cancelled ends, and so does a cancelled one. *)
RunEnds == <>Ended

Milestones ==
  {e.type : e \in events} \cap {"run.created", "run.started", "run.completed", "run.failed"}

Lifecycle == INSTANCE RunLifecycle WITH
  milestones <- Milestones,
  status <- row.status,
  outcome <- IF ~Ended THEN "pending" ELSE IF Running THEN "returned" ELSE "raised",
  disturbed <- store_faults > 0 \/ raised = Cancelled

(* Whatever workflow, agents, tools, approvals and budgets do, a run is    *)
(* seen from outside as a RunLifecycle: its milestones, its row and what   *)
(* its caller gets agree at every step, and the run ends.                  *)
KeepsLifecycle == Lifecycle!LifecycleSpec

=============================================================================
