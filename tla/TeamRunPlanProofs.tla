------------------------- MODULE TeamRunPlanProofs --------------------------
(***************************************************************************)
(* Proofs about TeamRun: what the components promise on their own still    *)
(* holds in a whole run, for every plan, team and answer.                  *)
(*                                                                         *)
(* First validate_plan.  The invariant of PlanValidation holds inside the  *)
(* run (PlannerInv), so the tasks still to do are in an order in which     *)
(* every dependency is either accepted already or listed earlier           *)
(* (LoopInv).  Accepted tasks have completed (WorkInv).                    *)
(*                                                                         *)
(* Then the types (RunTypesInv), and the calls of models and tools         *)
(* (RunCallsInv), whose guarantees rest on their callers waiting.  Last,   *)
(* what the executor guarantees of each of the tasks (RunTasksInv).        *)
(***************************************************************************)
EXTENDS TeamRunProofs, PlanValidationProofs, WellFoundedInduction

(* The errors of routing and of the lookup of dependency artifacts.        *)
Stuck == {"RoutingError", "KeyError"}

LEMMA EmitRaises ==
  ASSUME NEW type, NEW task, NEW note, NEW error, EmitThen(type, task, note, error)
  PROVE  raised' \in {error, "StoreError"}
BY DEF EmitThen, Appended, StoreRaises

(* Only RouteTask and StartTask can raise them.                            *)
LEMMA StepRaises ==
  ASSUME [Next]_vars, raised \notin Stuck
  PROVE  RouteTask \/ StartTask \/ raised' \notin Stuck
<1> USE DEF Stuck
<1>q. raised' = raised => raised' \notin Stuck
  OBVIOUS
<1>e. ASSUME NEW type, NEW task, NEW note, Emit(type, task, note)
      PROVE  raised' \notin Stuck
  BY <1>e, EmitRaises DEF Emit
<1>r. ASSUME NEW error \in Errors \cup {Cancelled}, error \notin Stuck, Raise(error)
      PROVE  raised' \notin Stuck
  BY <1>r DEF Raise
<1>1. CASE ConductorStep
  <2>1. CASE CreateRun \/ StartRun \/ CompleteRun \/ FailRun
    BY <2>1, <1>e DEF CreateRun, StartRun, CompleteRun, FailRun
  <2>2. CASE SaveSucceeded \/ SaveFailed \/ CancelledRun
    BY <2>2 DEF SaveSucceeded, SaveFailed, CancelledRun, SaveRun, Quiet, StoreRaises, contextVars
  <2> QED BY <1>1, <2>1, <2>2 DEF ConductorStep
<1>2. CASE WorkflowStep /\ ~RouteTask /\ ~StartTask
  <2>1. CASE RequestPlan \/ ReceivePlan \/ PlanValidated \/ TaskReady \/ ClosePipeline
    BY <2>1, <1>e DEF RequestPlan, ReceivePlan, PlanValidated, TaskReady, ClosePipeline
  <2>2. CASE ValidatePlan \/ PlanApproved \/ NextTask \/ TaskApproved
    BY <2>2 DEF ValidatePlan, PlanApproved, NextTask, TaskApproved, taskVars, contextVars
  <2>3. CASE KeepArtifact \/ Finalize \/ ReceiveFinalOutput
    BY <2>3 DEF KeepArtifact, Finalize, ReceiveFinalOutput, contextVars
  <2>4. CASE PlanRefused
    BY <2>4 DEF PlanRefused, Raise
  <2>5. CASE StartPipeline
    BY <2>5, <1>e DEF StartPipeline, Raise
  <2>6. CASE ExecuteTask
    <3>1. CASE BeginRevision \/ AnnounceArtifact \/ RequestReview \/ CompleteTask \/ RequestRevision
      BY <3>1, <1>e DEF BeginRevision, AnnounceArtifact, RequestReview, CompleteTask, RequestRevision
    <3>2. CASE RecordReview
      <4>1. raised' \in {ReviewError(call.value), "StoreError"}
        BY <3>2, EmitRaises DEF RecordReview
      <4> QED BY <4>1 DEF ReviewError
    <3>3. CASE StartTools \/ NextTool \/ ContinueWork \/ AcceptProduct \/ SaveArtifact
      BY <3>3 DEF StartTools, NextTool, ContinueWork, AcceptProduct, SaveArtifact, StoreArtifact,
                  StoreRaises, Quiet, contextVars
    <3> QED BY <2>6, <3>1, <3>2, <3>3 DEF ExecuteTask, ExecutorStep
  <2> QED BY <1>2, <2>1, <2>2, <2>3, <2>4, <2>5, <2>6 DEF WorkflowStep
<1>3. CASE CallStep
  <2>1. CASE AgentStep
    <3>1. CASE GuardRefuses
      BY <3>1 DEF GuardRefuses, Raise
    <3>2. CASE RequestModel \/ AnswerParses \/ AnswerMalformed
      BY <3>2, <1>e DEF RequestModel, AnswerParses, AnswerMalformed
    <3>3. CASE ProviderFails
      BY <3>3, EmitRaises DEF ProviderFails
    <3>4. CASE RejectOutput
      <4>1. raised' \in {IF RetriesExhausted THEN "ModelOutputError" ELSE raised, "StoreError"}
        BY <3>4, EmitRaises DEF RejectOutput
      <4> QED BY <4>1
    <3> QED BY <2>1, <3>1, <3>2, <3>3, <3>4 DEF AgentStep
  <2>2. CASE BrokerStep
    <3>1. CASE RefuseTool \/ BudgetRefusesTool \/ ToolApproved
      BY <3>1 DEF RefuseTool, BudgetRefusesTool, ToolApproved, Raise, contextVars
    <3>2. CASE RequestTool \/ ToolSucceeds
      BY <3>2, <1>e DEF RequestTool, ToolSucceeds
    <3>3. CASE ToolFails
      BY <3>3, <1>e, EmitRaises DEF ToolFails
    <3> QED BY <2>2, <3>1, <3>2, <3>3 DEF BrokerStep
  <2>3. CASE GateStep
    <3>1. CASE RequestApproval
      BY <3>1, <1>e DEF RequestApproval
    <3>2. CASE Decide
      <4>1. PICK approved \in Decisions :
              EmitThen("approval.completed", approval.task, IF approved THEN "approved" ELSE "rejected",
                       IF approved THEN raised ELSE "ApprovalRejectedError")
        BY <3>2 DEF Decide
      <4>2. raised' \in {IF approved THEN raised ELSE "ApprovalRejectedError", "StoreError"}
        BY <4>1, EmitRaises
      <4> QED BY <4>2
    <3>3. CASE ProviderUnavailable
      BY <3>3 DEF ProviderUnavailable, Raise
    <3> QED BY <2>3, <3>1, <3>2, <3>3 DEF GateStep, ApprovalStep
  <2> QED BY <1>3, <2>1, <2>2, <2>3 DEF CallStep
<1>4. CASE Cancel
  BY <1>4 DEF Cancel, CancelCall, CancelApproval, Raise, Cancelled
<1>5. CASE ClockPasses
  BY <1>5 DEF ClockPasses
<1>6. CASE UNCHANGED vars
  BY <1>6 DEF vars, taskVars, contextVars
<1> QED BY <1>1, <1>2, <1>3, <1>4, <1>5, <1>6 DEF Next, RunStep

-----------------------------------------------------------------------------
(* The plan of the run is validated as PlanValidation says.                *)

PlannerInv ==
  /\ PlanInv
  /\ run.phase \in Unplanned => verdict = "none"
  /\ call.phase = "returned" /\ call.schema = "Plan" => call.value \in Plans

LEMMA CallFields ==
  /\ \A schema, task : /\ Calling(schema, task).phase = "guard"
                       /\ Calling(schema, task).usage = 0
  /\ NoCall.phase = "idle" /\ NoCall.usage = 0
BY DEF Calling, NoCall

(* Whatever does not touch a call that has returned leaves its value.      *)
LEMMA CallValueStays ==
  ASSUME FramesInv, PlannerInv, [Next]_vars
  PROVE  (call.phase = "returned" /\ call.schema = "Plan" => call.value \in Plans)'
<1> DEFINE Fine == (call.phase = "returned" /\ call.schema = "Plan" => call.value \in Plans)'
<1>0. call = [phase |-> call.phase, schema |-> call.schema, task |-> call.task,
              attempt |-> call.attempt, usage |-> call.usage, value |-> call.value]
  BY DEF FramesInv, ShapeInv
<1>q. call' = call => Fine
  BY DEF PlannerInv
<1>n. call'.phase # "returned" => Fine
  OBVIOUS
<1>1. CASE ConductorStep
  BY <1>1, <1>q DEF ConductorStep, CreateRun, StartRun, CompleteRun, SaveSucceeded, FailRun,
                    SaveFailed, CancelledRun, below
<1>2. CASE WorkflowStep
  <2>1. CASE RequestPlan \/ ReceivePlan \/ Finalize \/ ReceiveFinalOutput
    <3>1. call'.phase \in {"guard", "idle"}
      BY <2>1, CallFields
         DEF RequestPlan, ReceivePlan, Finalize, ReceiveFinalOutput, AskPlanner, AskFinalizer
    <3> QED BY <3>1
  <2>2. CASE ExecuteTask
    <3>1. CASE BeginRevision \/ ContinueWork \/ RequestReview
      <4>1. call'.phase = "guard"
        <5>1. call' \in {Calling("WorkProduct", work.task), Calling("Review", work.task)}
          BY <3>1 DEF BeginRevision, ContinueWork, RequestReview, AskSpecialist, AskCritic
        <5> QED BY <5>1, CallFields
      <4> QED BY <4>1
    <3>2. CASE StartTools \/ AcceptProduct \/ RecordReview
      <4>1. call'.phase = "idle"
        BY <3>2, CallFields DEF StartTools, AcceptProduct, RecordReview
      <4> QED BY <4>1
    <3>3. CASE NextTool \/ SaveArtifact \/ AnnounceArtifact \/ CompleteTask \/ RequestRevision
      BY <3>3, <1>q DEF NextTool, SaveArtifact, AnnounceArtifact, CompleteTask, RequestRevision
    <3> QED BY <2>2, <3>1, <3>2, <3>3 DEF ExecuteTask, ExecutorStep
  <2> QED BY <1>2, <2>1, <2>2, <1>q
          DEF WorkflowStep, ValidatePlan, PlanRefused, PlanValidated, PlanApproved, StartPipeline,
              NextTask, TaskApproved, TaskReady, RouteTask, StartTask, KeepArtifact, ClosePipeline,
              below, taskVars
<1>3. CASE CallStep
  <2>1. CASE AnswerParses
    <3>1. PICK value \in Outputs[call.schema] :
            call' = [call EXCEPT !.phase = "returned", !.usage = @ + 1, !.value = value]
      BY <2>1 DEF AnswerParses
    <3>2. call'.schema = call.schema /\ call'.value = value
      BY <1>0, <3>1
    <3> QED BY <3>2, PlannerAssumption
  <2>2. CASE RequestModel \/ AnswerMalformed \/ RejectOutput
    <3>1. call'.phase \in {"waiting", "invalid", "guard"}
      BY <1>0, <2>2 DEF RequestModel, AnswerMalformed, RejectOutput
    <3> QED BY <3>1
  <2> QED BY <1>3, <2>1, <2>2, <1>q, GateAdds
          DEF CallStep, AgentStep, GuardRefuses, ProviderFails, GateStep
<1>4. CASE call' = call
  BY <1>4, <1>q
<1> QED BY <1>1, <1>2, <1>3, <1>4
        DEF Next, RunStep, Cancel, CancelCall, below, vars, taskVars

LEMMA PipelinePlanFits ==
  /\ PipelinePlan \in Seq(PlannedTask) /\ Len(PipelinePlan) = 1 /\ Ids(PipelinePlan) = {1}
  /\ Edges(PipelinePlan) = {}
  /\ WellFormed(PipelinePlan) /\ ~TooManyTasks(PipelinePlan)
<1> DEFINE task == [id |-> 1, dependencies |-> <<>>, required |-> {}, criteria |-> TRUE, risk |-> "low"]
<1>1. /\ task \in PlannedTask /\ task.id = 1 /\ task.dependencies = <<>> /\ task.required = {}
      /\ task.criteria
  BY EmptySeq DEF PlannedTask
<1>2. PipelinePlan = <<task>>
  BY DEF PipelinePlan
<1> HIDE DEF task
<1>3. /\ PipelinePlan \in Seq(PlannedTask) /\ Len(PipelinePlan) = 1 /\ DOMAIN PipelinePlan = {1}
      /\ PipelinePlan[1] = task /\ PipelinePlan # <<>>
  BY <1>1, <1>2
<1>4. Ids(PipelinePlan) = {1}
  BY <1>1, <1>3 DEF Ids
<1>5. Edges(PipelinePlan) = {}
  BY <1>1, <1>3, EmptySeq DEF Edges
<1>6. HasCandidates(PipelinePlan)
  <2>1. 1 \in DOMAIN SpecialistCaps
    BY SpecialistsAssumption, TeamAssumption, LenProperties, EmptySeq
  <2> QED BY <1>1, <1>3, <2>1 DEF HasCandidates, Eligible
<1>7. WellFormed(PipelinePlan)
  BY <1>1, <1>3, <1>5, <1>6 DEF WellFormed, UniqueIds, HasCriteria, KnownDependencies
<1>8. ~TooManyTasks(PipelinePlan)
  BY <1>3, MaxTasksAssumption DEF TooManyTasks
<1> QED BY <1>3, <1>4, <1>5, <1>7, <1>8

LEMMA StartPipelineInv ==
  ASSUME PlanInv, verdict = "none", plan' = PipelinePlan, UNCHANGED <<verdict, incoming, queue, ordered>>
  PROVE  PlanInv'
<1>1. queue = <<>> /\ ordered = <<>>
  BY DEF PlanInv, VerdictJustified
<1>2. Scheduled' = <<>> /\ DOMAIN <<>> = {}
  BY <1>1, ConcatEmptySeq, EmptySeq DEF Scheduled
<1>3. PlanTypeOK'
  BY <1>1, EmptySeq, PipelinePlanFits DEF PlanTypeOK, Verdicts
<1>4. CountersExact' /\ ScheduledIffMet' /\ VerdictJustified'
  BY <1>1 DEF CountersExact, ScheduledIffMet, VerdictJustified
<1>5. ScheduledOnce'
  BY <1>2 DEF ScheduledOnce, Distinct, Scheduled
<1>6. OrderedAfterDependencies'
  BY <1>1, <1>2 DEF OrderedAfterDependencies
<1>7. DeadlockedNeverScheduled'
  BY <1>2 DEF DeadlockedNeverScheduled, Entries
<1> QED BY <1>3, <1>4, <1>5, <1>6, <1>7 DEF PlanInv

LEMMA PlanVarsMove ==
  ASSUME [Next]_vars
  PROVE  \/ UNCHANGED planVars
         \/ ReceivePlan
         \/ ValidatePlan
         \/ StartPipeline
<1>1. CASE ConductorStep
  BY <1>1 DEF ConductorStep, CreateRun, StartRun, CompleteRun, SaveSucceeded, FailRun,
              SaveFailed, CancelledRun
<1>2. CASE WorkflowStep
  BY <1>2 DEF WorkflowStep, RequestPlan, PlanRefused, PlanValidated, PlanApproved, NextTask,
              TaskApproved, TaskReady, RouteTask, StartTask, ExecuteTask, KeepArtifact, Finalize,
              ReceiveFinalOutput, ClosePipeline
<1>3. CASE CallStep
  BY <1>3 DEF CallStep
<1>4. CASE UNCHANGED planVars
  BY <1>4
<1> QED BY <1>1, <1>2, <1>3, <1>4 DEF Next, RunStep, vars

LEMMA PlannerInvStep ==
  ASSUME FramesInv, TrailInv, PlannerInv, [Next]_vars
  PROVE  PlannerInv'
<1>1. (call.phase = "returned" /\ call.schema = "Plan" => call.value \in Plans)'
  BY CallValueStays
<1>2. run'.phase \in Unplanned => run.phase \in Unplanned
  BY PlanStays
<1>3. CASE UNCHANGED planVars
  <2>1. PlanInv'
    BY <1>3, PlanStepInv DEF PlannerInv
  <2> QED BY <1>1, <1>2, <1>3, <2>1 DEF PlannerInv, planVars
<1>4. CASE ReceivePlan
  <2>1. /\ call.value \in Plans /\ Submit(call.value) /\ run'.phase = "validating"
    BY <1>4 DEF ReceivePlan, Returned, PlannerInv, FramesInv, ShapeInv
  <2>2. PlanInv'
    BY <2>1, SubmitInv DEF PlannerInv
  <2> QED BY <1>1, <2>1, <2>2 DEF PlannerInv, Unplanned
<1>5. CASE ValidatePlan
  <2>1. ValidationStep /\ run.phase = "validating" /\ run' = run
    BY <1>5 DEF ValidatePlan, On
  <2>2. PlanInv'
    BY <2>1, PlanStepInv DEF PlannerInv, PlanNext
  <2> QED BY <1>1, <2>1, <2>2 DEF PlannerInv, Unplanned
<1>6. CASE StartPipeline
  <2>1. /\ run.phase = "pipeline" /\ run'.phase = "ready" /\ plan' = PipelinePlan
        /\ UNCHANGED <<verdict, incoming, queue, ordered>>
    BY <1>6 DEF StartPipeline, On, FramesInv, ShapeInv
  <2>2. PlanInv'
    BY <2>1, StartPipelineInv DEF PlannerInv, Unplanned
  <2> QED BY <1>1, <2>1, <2>2 DEF PlannerInv, Unplanned
<1> QED BY <1>3, <1>4, <1>5, <1>6, PlanVarsMove

-----------------------------------------------------------------------------
(* The tasks still to do, and the accepted artifacts of those that are done. *)

TasksOf(accepted) == {a.task : a \in accepted}

Loop(p, todo, accepted) ==
  /\ todo \in Seq(Ids(p)) /\ Distinct(todo)
  /\ Entries(todo) \cap TasksOf(accepted) = {}
  /\ Entries(todo) \cup TasksOf(accepted) = Ids(p)
  /\ \A i \in DOMAIN todo : \A d \in Dependencies(p, todo[i]) :
       d \in TasksOf(accepted) \/ \E j \in 1..(i - 1) : todo[j] = d
  /\ IsFiniteSet(accepted) /\ Cardinality(accepted) + Len(todo) = Len(p)

LEMMA IdsCount ==
  ASSUME NEW p \in Seq(PlannedTask), UniqueIds(p)
  PROVE  Len(p) = Cardinality(Ids(p)) /\ Len(p) \in Nat
<1> DEFINE ids == [i \in DOMAIN p |-> p[i].id]
           n == Len(p)
<1>1. DOMAIN p = 1..n /\ n \in Nat
  BY LenProperties
<1> HIDE DEF n
<1>2. IsFiniteSet(1..n) /\ Cardinality(1..n) = n
  BY <1>1, FS_Interval
<1>3. ids \in Surjection(1..n, Ids(p))
  BY <1>1 DEF Surjection, Ids
<1>4. ids \in Injection(1..n, Ids(p))
  BY <1>1, <1>3 DEF Surjection, Injection, IsInjective, UniqueIds
<1>5. Cardinality(Ids(p)) = Cardinality(1..n)
  BY <1>2, <1>3, <1>4, FS_Surjection
<1> QED BY <1>1, <1>2, <1>5 DEF n

LEMMA LoopStarts ==
  ASSUME PlanInv, verdict = "valid"
  PROVE  WellFormed(plan) /\ Loop(plan, ordered, {})
<1>1. /\ WellFormed(plan) /\ queue = <<>> /\ Len(ordered) = Cardinality(Ids(plan))
      /\ plan \in Seq(PlannedTask) /\ ordered \in Seq(Ids(plan))
  BY DEF PlanInv, PlanTypeOK, VerdictJustified, AllOrdered
<1>2. Distinct(ordered)
  <2>1. Scheduled = ordered
    BY <1>1, ConcatEmptySeq DEF Scheduled
  <2> QED BY <2>1 DEF PlanInv, ScheduledOnce, Scheduled
<1>3. IsFiniteSet(Ids(plan))
  BY <1>1, PlanFinite
<1>4. Entries(ordered) = Ids(plan)
  <2>1. IsFiniteSet(Entries(ordered)) /\ Cardinality(Entries(ordered)) = Cardinality(Ids(plan))
    BY <1>1, <1>2, DistinctCardinality
  <2>2. Entries(ordered) \subseteq Ids(plan)
    BY <1>1, LenProperties, ElementOfSeq DEF Entries
  <2> QED BY <1>3, <2>1, <2>2, FS_Subset
<1>5. Len(plan) = Cardinality(Ids(plan)) /\ Len(plan) \in Nat
  BY <1>1, IdsCount DEF WellFormed
<1>6. TasksOf({}) = {} /\ IsFiniteSet({}) /\ Cardinality({}) = 0
  BY FS_EmptySet DEF TasksOf
<1> QED BY <1>1, <1>2, <1>4, <1>5, <1>6 DEF Loop, PlanInv, OrderedAfterDependencies

LEMMA LoopStartsPipeline == WellFormed(PipelinePlan) /\ Loop(PipelinePlan, <<1>>, {})
<1>1. Dependencies(PipelinePlan, 1) = {}
  BY PipelinePlanFits DEF Dependencies, EdgesInto
<1>2. /\ <<1>> \in Seq({1}) /\ Distinct(<<1>>) /\ Entries(<<1>>) = {1} /\ Len(<<1>>) = 1
      /\ \A i \in DOMAIN <<1>> : <<1>>[i] = 1
  BY DEF Distinct, Entries
<1>3. TasksOf({}) = {} /\ IsFiniteSet({}) /\ Cardinality({}) = 0
  BY FS_EmptySet DEF TasksOf
<1> QED BY <1>1, <1>2, <1>3, PipelinePlanFits DEF Loop

LEMMA LoopAdvances ==
  ASSUME NEW p, NEW todo, NEW accepted, Loop(p, todo, accepted), todo # <<>>,
         NEW a, a.task = Head(todo)
  PROVE  Loop(p, Tail(todo), accepted \cup {a})
<1> DEFINE rest == Tail(todo)
           more == accepted \cup {a}
<1>1. /\ todo \in Seq(Ids(p)) /\ Distinct(todo)
      /\ Len(todo) \in Nat /\ DOMAIN todo = 1..Len(todo) /\ Len(todo) >= 1
      /\ IsFiniteSet(accepted) /\ Cardinality(accepted) \in Nat
  BY LenProperties, EmptySeq, FS_CardinalityType DEF Loop
<1>2. /\ rest \in Seq(Ids(p)) /\ Len(rest) = Len(todo) - 1 /\ DOMAIN rest = 1..(Len(todo) - 1)
      /\ Head(todo) = todo[1]
      /\ \A i \in 1..(Len(todo) - 1) : rest[i] = todo[i + 1]
  BY <1>1, HeadTailProperties, LenProperties
<1> HIDE DEF rest
<1>3. \A x : x \in Entries(todo) <=> x = todo[1] \/ x \in Entries(rest)
  <2>1. ASSUME NEW i \in DOMAIN todo PROVE todo[i] = todo[1] \/ todo[i] \in Entries(rest)
    <3>1. CASE i = 1
      BY <3>1
    <3>2. CASE i # 1
      <4>1. i - 1 \in 1..(Len(todo) - 1) /\ (i - 1) + 1 = i
        BY <1>1, <3>2
      <4> QED BY <1>2, <4>1 DEF Entries
    <3> QED BY <3>1, <3>2
  <2>2. todo[1] \in Entries(todo)
    BY <1>1 DEF Entries
  <2>3. ASSUME NEW i \in DOMAIN rest PROVE rest[i] \in Entries(todo)
    <3>1. i + 1 \in DOMAIN todo /\ rest[i] = todo[i + 1]
      BY <1>1, <1>2
    <3> QED BY <3>1 DEF Entries
  <2> QED BY <2>1, <2>2, <2>3 DEF Entries
<1>4. Distinct(rest) /\ todo[1] \notin Entries(rest)
  <2>1. ASSUME NEW i \in DOMAIN rest, NEW j \in DOMAIN rest, rest[i] = rest[j] PROVE i = j
    <3>1. i + 1 \in DOMAIN todo /\ j + 1 \in DOMAIN todo /\ todo[i + 1] = todo[j + 1]
      BY <1>1, <1>2, <2>1
    <3>2. i + 1 = j + 1 /\ i \in Int /\ j \in Int
      BY <1>1, <1>2, <3>1 DEF Distinct
    <3> QED BY <3>2
  <2>2. ASSUME NEW i \in DOMAIN rest, rest[i] = todo[1] PROVE FALSE
    <3>1. i + 1 \in DOMAIN todo /\ 1 \in DOMAIN todo /\ todo[i + 1] = todo[1] /\ i + 1 # 1
      BY <1>1, <1>2, <2>2
    <3> QED BY <1>1, <3>1 DEF Distinct
  <2> QED BY <2>1, <2>2 DEF Distinct, Entries
<1>5. TasksOf(more) = TasksOf(accepted) \cup {todo[1]}
  <2>1. \A x : x \in TasksOf(more) <=> x \in TasksOf(accepted) \/ x = a.task
    BY DEF TasksOf
  <2> QED BY <1>2, <2>1
<1>6. a \notin accepted
  <2>1. todo[1] \in Entries(todo)
    BY <1>3
  <2> QED BY <1>2, <2>1 DEF Loop, TasksOf
<1>7. IsFiniteSet(more) /\ Cardinality(more) = Cardinality(accepted) + 1
  BY <1>1, <1>6, FS_AddElement
<1>8. ASSUME NEW i \in DOMAIN rest, NEW d \in Dependencies(p, rest[i])
      PROVE  d \in TasksOf(more) \/ \E j \in 1..(i - 1) : rest[j] = d
  <2>1. i + 1 \in DOMAIN todo /\ rest[i] = todo[i + 1] /\ i \in Nat
    BY <1>1, <1>2
  <2>2. d \in TasksOf(accepted) \/ \E j \in 1..i : todo[j] = d
    BY <1>8, <2>1 DEF Loop
  <2>3. ASSUME NEW j \in 1..i, todo[j] = d, j # 1 PROVE \E k \in 1..(i - 1) : rest[k] = d
    <3>1. j - 1 \in 1..(i - 1) /\ j - 1 \in 1..(Len(todo) - 1) /\ (j - 1) + 1 = j
      BY <1>1, <2>1, <2>3
    <3>2. rest[j - 1] = d
      BY <1>2, <2>3, <3>1
    <3> QED BY <3>1, <3>2
  <2> QED BY <1>5, <2>2, <2>3
<1> HIDE DEF more
<1>9. Loop(p, rest, more)
  <2>1. Entries(rest) \cap TasksOf(more) = {} /\ Entries(rest) \cup TasksOf(more) = Ids(p)
    BY <1>3, <1>4, <1>5 DEF Loop
  <2>2. Cardinality(more) + Len(rest) = Len(p)
    BY <1>1, <1>2, <1>7 DEF Loop
  <2> QED BY <1>2, <1>4, <1>7, <1>8, <2>1, <2>2 DEF Loop
<1> QED BY <1>9 DEF rest, more

-----------------------------------------------------------------------------
(* How a step moves the workflow.                                          *)

Early == Unplanned \cup {"validating"}
Busy == {"asking", "ready", "routing", "assigned", "executing"}
LoopPhases == Busy \cup {"approving", "scheduling"}
DonePhases == {"finalizing", "closing", "completing", "saving"}

PhaseKept ==
  /\ run'.phase \in Early => run.phase \in Early
  /\ run'.phase \in LoopPhases => run.phase \in LoopPhases
  /\ run'.phase \in Busy => run.phase \in Busy \/ NextTask
  /\ run'.phase \in DonePhases => run.phase \in DonePhases \/ Finalize
  /\ run'.phase = "executing" => run.phase = "executing" \/ StartTask

TasksKept == run'.todo = run.todo /\ run'.accepted = run.accepted

LEMMA GoesOn ==
  ASSUME FramesInv, NEW phase, Goto(phase)
  PROVE  run'.phase = phase /\ TasksKept /\ run'.usage = run.usage
BY DEF FramesInv, ShapeInv, Goto, TasksKept

LEMMA RunMove ==
  ASSUME FramesInv, [Next]_vars
  PROVE  KeepArtifact \/ PlanValidated \/ StartPipeline \/ (PhaseKept /\ TasksKept)
<1> USE DEF Early, Unplanned, Busy, LoopPhases, DonePhases
<1>0. ShapeInv
  BY DEF FramesInv
<1>q. run' = run => PhaseKept /\ TasksKept
  BY DEF PhaseKept, TasksKept
<1>1. CASE ConductorStep
  <2>1. CASE CreateRun
    <3>1. run.phase = "new" /\ run'.phase \in {"created", "ended"} /\ TasksKept
      BY <2>1, GoesOn DEF CreateRun, On
    <3> QED BY <3>1 DEF PhaseKept
  <2>2. CASE StartRun
    <3>1. run.phase = "created" /\ run'.phase \in {Strategy, "ended"} /\ TasksKept
      BY <2>2, GoesOn DEF StartRun, On
    <3> QED BY <3>1, StrategyAssumption DEF PhaseKept
  <2>3. CASE CompleteRun \/ SaveSucceeded
    <3>1. run.phase \in DonePhases /\ run'.phase \in {"saving", "ended"} /\ TasksKept
      BY <2>3, GoesOn DEF CompleteRun, SaveSucceeded, On
    <3> QED BY <3>1 DEF PhaseKept
  <2>4. CASE FailRun \/ SaveFailed \/ CancelledRun
    <3>1. run'.phase \in {"failing", "ended"} /\ TasksKept
      BY <2>4, GoesOn DEF FailRun, SaveFailed, CancelledRun
    <3> QED BY <3>1 DEF PhaseKept
  <2> QED BY <1>1, <2>1, <2>2, <2>3, <2>4 DEF ConductorStep
<1>2. CASE WorkflowStep
  <2>1. CASE RequestPlan
    <3>1. run.phase = "plan_execute_review" /\ run'.phase = "planning" /\ TasksKept
      BY <2>1, GoesOn DEF RequestPlan, On
    <3> QED BY <3>1 DEF PhaseKept
  <2>2. CASE ReceivePlan
    <3>1. run.phase = "planning" /\ run'.phase = "validating" /\ TasksKept
      BY <1>0, <2>2 DEF ReceivePlan, On, ShapeInv, TasksKept
    <3> QED BY <3>1 DEF PhaseKept
  <2>3. CASE PlanApproved
    <3>1. run.phase = "approving" /\ run'.phase = "scheduling" /\ TasksKept
      BY <2>3, GoesOn DEF PlanApproved, On
    <3> QED BY <3>1 DEF PhaseKept
  <2>4. CASE NextTask
    <3>1. run.phase = "scheduling" /\ run'.phase \in {"asking", "ready"} /\ TasksKept
      BY <2>4, GoesOn DEF NextTask, On
    <3> QED BY <2>4, <3>1 DEF PhaseKept
  <2>5. CASE TaskApproved \/ TaskReady
    <3>1. run.phase \in {"asking", "ready"} /\ run'.phase \in {"ready", "routing"} /\ TasksKept
      BY <2>5, GoesOn DEF TaskApproved, TaskReady, On
    <3> QED BY <3>1 DEF PhaseKept
  <2>6. CASE RouteTask
    <3>1. run.phase = "routing" /\ (run' = run \/ \E a \in Selected(Current) :
                                      run' = [run EXCEPT !.phase = "assigned", !.agent = a])
      BY <2>6 DEF RouteTask, On
    <3>2. run' = run \/ (run'.phase = "assigned" /\ TasksKept)
      BY <1>0, <3>1 DEF ShapeInv, TasksKept
    <3> QED BY <1>q, <3>1, <3>2 DEF PhaseKept
  <2>7. CASE StartTask
    <3>1. run.phase = "assigned" /\ run'.phase = "executing" /\ TasksKept
      BY <2>7, GoesOn DEF StartTask, On
    <3> QED BY <2>7, <3>1 DEF PhaseKept
  <2>8. CASE Finalize
    <3>1. run.phase = "scheduling" /\ run'.phase = "finalizing" /\ TasksKept
      BY <2>8, GoesOn DEF Finalize, On
    <3> QED BY <2>8, <3>1 DEF PhaseKept
  <2>9. CASE ReceiveFinalOutput
    <3>1. run.phase = "finalizing" /\ run'.phase \in {"closing", "completing"} /\ TasksKept
      BY <1>0, <2>9 DEF ReceiveFinalOutput, On, ShapeInv, TasksKept
    <3> QED BY <3>1 DEF PhaseKept
  <2>10. CASE ClosePipeline
    <3>1. run.phase = "closing" /\ run'.phase = "completing" /\ TasksKept
      BY <2>10, GoesOn DEF ClosePipeline, On
    <3> QED BY <3>1 DEF PhaseKept
  <2> QED BY <1>2, <1>q, <2>1, <2>2, <2>3, <2>4, <2>5, <2>6, <2>7, <2>8, <2>9, <2>10
          DEF WorkflowStep, ValidatePlan, PlanRefused, ExecuteTask
<1>3. CASE run' = run
  BY <1>3, <1>q
<1> QED BY <1>1, <1>2, <1>3 DEF Next, RunStep, CallStep, vars

LEMMA WorkMove ==
  ASSUME [Next]_vars
  PROVE  StartTask \/ ExecuteTask \/ KeepArtifact \/ UNCHANGED <<work, artifacts>>
<1>1. CASE ConductorStep
  BY <1>1 DEF ConductorStep, CreateRun, StartRun, CompleteRun, SaveSucceeded, FailRun,
              SaveFailed, CancelledRun, below
<1>2. CASE WorkflowStep
  BY <1>2 DEF WorkflowStep, RequestPlan, ReceivePlan, ValidatePlan, PlanRefused, PlanValidated,
              PlanApproved, StartPipeline, NextTask, TaskApproved, TaskReady, RouteTask, Finalize,
              ReceiveFinalOutput, ClosePipeline, below, taskVars
<1>3. CASE UNCHANGED <<work, artifacts>>
  BY <1>3
<1> QED BY <1>1, <1>2, <1>3 DEF Next, RunStep, CallStep, Cancel, below, vars, taskVars

LEMMA RunningStays ==
  ASSUME RunInv, [Next]_vars, Running'
  PROVE  Running
<1>1. CASE FailRun
  BY <1>1, EmitRaises DEF FailRun, Handled, Emit, Running, Errors
<1>2. CASE SaveFailed \/ CancelledRun
  BY <1>2 DEF SaveFailed, SaveRun, Quiet, StoreRaises, CancelledRun, contextVars, Running
<1>3. CASE UNCHANGED raised
  BY <1>3 DEF Running
<1> QED BY <1>1, <1>2, <1>3, StepKinds
        DEF RunInv, ConductorKinds, WorkflowMove, CancelMove, CreateRun, StartRun, CompleteRun,
            SaveSucceeded, On

-----------------------------------------------------------------------------
(* The executor at work, and what is accepted.                             *)

CompletedIn(rows, task) == \E f \in rows : f.type = "task.completed" /\ f.task = task

WorkInv ==
  /\ Running =>
       /\ run.phase = "executing" => work.task = Current
       /\ work.phase \in {"announcing", "submitting", "reviewing", "passed", "done"} =>
            Artifact \in artifacts
       /\ work.phase = "done" => CompletedIn(events, work.task)
  /\ run.accepted \subseteq artifacts
  /\ \A task \in TasksOf(run.accepted) : CompletedIn(events, task)

LEMMA ExecutorWorks ==
  ASSUME FramesInv, LogInv, WorkInv, ExecuteTask, Running'
  PROVE  WorkInv'
<1> DEFINE Kept == /\ work'.task = work.task /\ work'.revision = work.revision
                   /\ work'.results = work.results
<1>0. /\ ShapeInv /\ Running /\ run.phase = "executing" /\ work.task = Current
      /\ run' = run /\ events \subseteq events'
  <2>1. events \subseteq events'
    BY LogInvStep DEF Next, RunStep, WorkflowStep
  <2> QED BY <2>1 DEF ExecuteTask, On, FramesInv, WorkInv
<1>1. ASSUME work'.task = work.task, artifacts \subseteq artifacts',
             work'.phase \in {"announcing", "submitting", "reviewing", "passed", "done"} =>
               Artifact' \in artifacts',
             work'.phase = "done" => CompletedIn(events', work.task)
      PROVE  WorkInv'
  BY <1>0, <1>1 DEF WorkInv, CompletedIn, Current
<1>2. CASE BeginRevision \/ StartTools \/ NextTool \/ ContinueWork \/ RequestRevision
  <2>1. /\ work'.phase \in {"working", "tools", "starting"} \/ work'.phase = work.phase
        /\ work'.task = work.task /\ artifacts' = artifacts
        /\ work'.phase \notin {"announcing", "submitting", "reviewing", "passed", "done"}
    BY <1>0, <1>2 DEF BeginRevision, StartTools, NextTool, ContinueWork, RequestRevision, ShapeInv, At
  <2> QED BY <1>1, <2>1
<1>3. CASE AcceptProduct
  <2>1. work'.phase = "saving" /\ work'.task = work.task /\ artifacts' = artifacts
    BY <1>0, <1>3 DEF AcceptProduct, ShapeInv
  <2> QED BY <1>1, <2>1
<1>4. CASE SaveArtifact
  <2>1. work'.phase = "announcing" /\ Kept
    BY <1>0, <1>4 DEF SaveArtifact, ShapeInv
  <2>2. artifacts' = artifacts \cup {Artifact}
    BY <1>4 DEF SaveArtifact, StoreArtifact, StoreRaises, Running
  <2>3. Artifact' = Artifact
    BY <2>1 DEF Artifact
  <2> QED BY <1>1, <2>1, <2>2, <2>3
<1>5. CASE AnnounceArtifact \/ RequestReview
  <2>1. /\ Kept /\ artifacts' = artifacts /\ Artifact \in artifacts
        /\ work'.phase \in {"submitting", "reviewing"}
    BY <1>0, <1>5 DEF AnnounceArtifact, RequestReview, ShapeInv, At, WorkInv
  <2>2. Artifact' = Artifact
    BY <2>1 DEF Artifact
  <2> QED BY <1>1, <2>1, <2>2
<1>6. CASE RecordReview
  <2>1. /\ Kept /\ artifacts' = artifacts /\ Artifact \in artifacts
        /\ work'.phase \in {"passed", "revising"}
    BY <1>0, <1>6 DEF RecordReview, PhaseAfter, ShapeInv, At, WorkInv
  <2>2. Artifact' = Artifact
    BY <2>1 DEF Artifact
  <2> QED BY <1>1, <2>1, <2>2
<1>7. CASE CompleteTask
  <2>1. Kept /\ artifacts' = artifacts /\ Artifact \in artifacts /\ work'.phase = "done"
    BY <1>0, <1>7 DEF CompleteTask, ShapeInv, At, WorkInv
  <2>2. Artifact' = Artifact
    BY <2>1 DEF Artifact
  <2>3. CompletedIn(events', work.task)
    <3> DEFINE completed == Row("task.completed", work.task, "")
    <3>1. completed.type = "task.completed" /\ completed.task = work.task
      BY DEF Row
    <3>2. events' = events \cup {completed}
      BY <1>7 DEF CompleteTask, Emit, EmitThen, Appended, StoreRaises, Running
    <3> HIDE DEF completed
    <3> QED BY <3>1, <3>2 DEF CompletedIn
  <2> QED BY <1>1, <2>1, <2>2, <2>3
<1> QED BY <1>2, <1>3, <1>4, <1>5, <1>6, <1>7 DEF ExecuteTask, ExecutorStep

LEMMA CompletedStays ==
  ASSUME NEW rows, NEW more, rows \subseteq more, NEW task, CompletedIn(rows, task)
  PROVE  CompletedIn(more, task)
BY DEF CompletedIn

LEMMA ArtifactsStay ==
  ASSUME [Next]_vars
  PROVE  artifacts \subseteq artifacts'
<1>1. CASE ExecuteTask
  BY <1>1 DEF ExecuteTask, ExecutorStep, BeginRevision, StartTools, NextTool, ContinueWork,
              AcceptProduct, SaveArtifact, StoreArtifact, AnnounceArtifact, RequestReview,
              RecordReview, CompleteTask, RequestRevision
<1> QED BY <1>1, WorkMove DEF StartTask, KeepArtifact

LEMMA WorkInvStep ==
  ASSUME RunInv, LogInv, WorkInv, [Next]_vars
  PROVE  WorkInv'
<1>1. FramesInv /\ ShapeInv /\ events \subseteq events'
  BY LogInvStep DEF RunInv, FramesInv
<1>2. artifacts \subseteq artifacts'
  BY ArtifactsStay
<1>3. ASSUME run'.accepted = run.accepted
      PROVE  /\ run'.accepted \subseteq artifacts'
             /\ \A task \in TasksOf(run'.accepted) : CompletedIn(events', task)
  BY <1>1, <1>2, <1>3, CompletedStays DEF WorkInv
<1>4. CASE KeepArtifact
  <2>1. /\ Running /\ run.phase = "executing" /\ work.phase = "done" /\ work' = NoWork
        /\ run'.phase = "scheduling" /\ run'.accepted = run.accepted \cup {Artifact}
        /\ UNCHANGED <<events, artifacts>>
    BY <1>1, <1>4 DEF KeepArtifact, On, TaskDone, At, ShapeInv, contextVars
  <2>2. Artifact.task = work.task
    BY DEF Artifact
  <2>3. TasksOf(run'.accepted) \subseteq TasksOf(run.accepted) \cup {work.task}
    BY <2>1, <2>2 DEF TasksOf
  <2>4. work'.phase = "idle"
    BY <2>1 DEF NoWork
  <2> QED BY <2>1, <2>3, <2>4 DEF WorkInv
<1>5. CASE StartTask
  <2>1. run'.todo = run.todo /\ run'.accepted = run.accepted /\ artifacts' = artifacts
    BY <1>1, <1>5, GoesOn DEF StartTask, TasksKept
  <2>2. CASE Running'
    <3>1. work' = Execute(Current, SpecialistTools[run.agent])
      BY <1>5, <2>2 DEF StartTask, Running
    <3>2. work'.task = Current /\ work'.phase = "starting"
      BY <3>1 DEF Execute
    <3> QED BY <1>3, <2>1, <3>2 DEF WorkInv, Current
  <2> QED BY <1>3, <2>1, <2>2 DEF WorkInv
<1>6. CASE ExecuteTask
  <2>1. CASE Running'
    BY <1>1, <1>6, <2>1, ExecutorWorks
  <2>2. CASE ~Running'
    <3>1. run'.accepted = run.accepted
      BY <1>6 DEF ExecuteTask
    <3> QED BY <1>3, <2>2, <3>1 DEF WorkInv
  <2> QED BY <2>1, <2>2
<1>7. CASE UNCHANGED <<work, artifacts>> /\ ~KeepArtifact /\ ~StartTask
  <2>1. run'.accepted = run.accepted /\ (run'.phase = "executing" => run.phase = "executing" /\ run'.todo = run.todo)
    <3>1. CASE PlanValidated \/ StartPipeline
      BY <1>1, <3>1 DEF PlanValidated, StartPipeline, ShapeInv
    <3>2. CASE PhaseKept /\ TasksKept
      BY <1>7, <3>2 DEF PhaseKept, TasksKept
    <3> QED BY <1>1, <1>7, <3>1, <3>2, RunMove
  <2>2. Running' => Running
    BY RunningStays
  <2>3. Artifact' = Artifact
    BY <1>7 DEF Artifact
  <2>4. CompletedIn(events, work.task) => CompletedIn(events', work.task)
    BY <1>1, CompletedStays
  <2> QED BY <1>3, <1>7, <2>1, <2>2, <2>3, <2>4 DEF WorkInv, Current
<1> QED BY <1>4, <1>5, <1>6, <1>7, WorkMove

(* Every dependency of a task still to do is accepted or to be done before *)
(* it, and the tasks accepted and to do are those of the plan.             *)
LoopInv ==
  /\ run.phase \in Early => run.accepted = {}
  /\ run.phase \in LoopPhases => WellFormed(plan) /\ Loop(plan, run.todo, run.accepted)
  /\ run.phase \in Busy => run.todo # <<>>
  /\ run.phase \in DonePhases => Loop(plan, <<>>, run.accepted)

LEMMA LoopInvStep ==
  ASSUME RunInv, PlannerInv, WorkInv, LoopInv, [Next]_vars
  PROVE  LoopInv'
<1> USE DEF Early, Unplanned, Busy, LoopPhases, DonePhases
<1>1. FramesInv /\ ShapeInv
  BY DEF RunInv, FramesInv
<1>2. CASE PlanValidated
  <2>1. /\ run.phase = "validating" /\ verdict = "valid" /\ run'.phase \in {"approving", "scheduling"}
        /\ run'.todo = ordered /\ run'.accepted = run.accepted /\ plan' = plan
    BY <1>1, <1>2 DEF PlanValidated, On, ExecutionOrder, ShapeInv, planVars
  <2>2. WellFormed(plan) /\ Loop(plan, ordered, {}) /\ run.accepted = {}
    BY <2>1, LoopStarts DEF PlannerInv, LoopInv
  <2> QED BY <2>1, <2>2 DEF LoopInv
<1>3. CASE StartPipeline
  <2>1. /\ run.phase = "pipeline" /\ run'.phase = "ready"
        /\ run'.todo = <<1>> /\ run'.accepted = run.accepted /\ plan' = PipelinePlan
    BY <1>1, <1>3 DEF StartPipeline, On, ShapeInv
  <2>2. /\ WellFormed(PipelinePlan) /\ Loop(PipelinePlan, <<1>>, {}) /\ run.accepted = {}
        /\ <<1>> # <<>>
    BY <2>1, LoopStartsPipeline DEF LoopInv
  <2> QED BY <2>1, <2>2 DEF LoopInv
<1>4. CASE KeepArtifact
  <2>1. /\ run.phase = "executing" /\ Running /\ run'.phase = "scheduling"
        /\ run'.todo = Tail(run.todo) /\ run'.accepted = run.accepted \cup {Artifact}
        /\ plan' = plan
    BY <1>1, <1>4 DEF KeepArtifact, On, ShapeInv, planVars
  <2>2. Artifact.task = Head(run.todo)
    BY <2>1 DEF Artifact, WorkInv, Current
  <2>3. Loop(plan, Tail(run.todo), run.accepted \cup {Artifact})
    BY <2>1, <2>2, LoopAdvances DEF LoopInv
  <2>4. WellFormed(plan)
    BY <2>1 DEF LoopInv
  <2> QED BY <2>1, <2>3, <2>4 DEF LoopInv
<1>5. CASE PhaseKept /\ TasksKept
  <2>1. run.phase \in LoopPhases \cup DonePhases => plan' = plan
    BY <1>1, PlanStays
  <2>2. NextTask => run.todo # <<>>
    BY DEF NextTask
  <2>3. Finalize => run.phase \in LoopPhases /\ run.todo = <<>>
    BY DEF Finalize, On
  <2> QED BY <1>5, <2>1, <2>2, <2>3 DEF LoopInv, PhaseKept, TasksKept
<1> QED BY <1>1, <1>2, <1>3, <1>4, <1>5, RunMove

(* Inside the loop the next task's dependencies are accepted, and it has a *)
(* specialist.                                                             *)
LEMMA CurrentFits ==
  ASSUME LoopInv, run.phase \in Busy
  PROVE  Current \in Ids(plan) /\ Dependencies(plan, Current) \subseteq Accepted
<1>1. Loop(plan, run.todo, run.accepted) /\ run.todo # <<>>
  BY DEF LoopInv, Busy, LoopPhases
<1>2. /\ run.todo \in Seq(Ids(plan)) /\ 1 \in DOMAIN run.todo /\ Current = run.todo[1]
      /\ run.todo[1] \in Ids(plan)
  BY <1>1, LenProperties, EmptySeq, HeadTailProperties, ElementOfSeq DEF Loop, Current
<1>3. \A d \in Dependencies(plan, run.todo[1]) :
        d \in TasksOf(run.accepted) \/ \E j \in 1..(1 - 1) : run.todo[j] = d
  BY <1>1, <1>2 DEF Loop
<1> QED BY <1>2, <1>3 DEF Accepted, TasksOf

LEMMA LeastNatural ==
  ASSUME NEW T \in SUBSET Nat, T # {}
  PROVE  \E x \in T : \A y \in T : x <= y
<1> DEFINE R == OpToRel(<, Nat)
<1>1. IsWellFoundedOn(R, Nat)
  BY NatLessThanWellFounded
<1>2. \A x, y \in Nat : y < x => <<y, x>> \in R
  BY DEF OpToRel
<1> HIDE DEF R
<1>3. PICK x \in T : \A y \in T : ~ (<<y, x>> \in R)
  BY <1>1, WFMin
<1>4. ASSUME NEW y \in T PROVE x <= y
  <2>1. ~(y < x)
    BY <1>2, <1>3
  <2>2. x \in Nat /\ y \in Nat
    OBVIOUS
  <2> QED BY <2>1, <2>2
<1> QED BY <1>4

(* select_agent finds somebody as soon as somebody is eligible: the first  *)
(* by name of those with the fewest capabilities.                          *)
LEMMA SomebodySelected ==
  ASSUME NEW task, Eligible(RequiredBy(task)) # {}
  PROVE  Selected(task) # {}
<1> DEFINE E == Eligible(RequiredBy(task))
           size(a) == Cardinality(SpecialistCaps[a])
           sizes == {size(a) : a \in E}
<1>1. /\ DOMAIN SpecialistCaps = 1..Len(SpecialistCaps) /\ Len(SpecialistCaps) \in Nat
      /\ \A a \in DOMAIN SpecialistCaps : SpecialistCaps[a] \subseteq Capabilities
  BY SpecialistsAssumption, LenProperties, ElementOfSeq
<1>2. E \subseteq DOMAIN SpecialistCaps /\ E # {}
  BY DEF Eligible
<1>3. \A a \in E : size(a) \in Nat
  BY <1>1, <1>2, TeamAssumption, FS_Subset, FS_CardinalityType
<1> HIDE DEF E, size
<1>4. sizes \in SUBSET Nat /\ sizes # {}
  BY <1>2, <1>3
<1>5. PICK least \in sizes : \A n \in sizes : least <= n
  BY <1>4, LeastNatural
<1> DEFINE smallest == {a \in E : size(a) = least}
<1>6. smallest \in SUBSET Nat /\ smallest # {}
  BY <1>1, <1>2, <1>5
<1>7. PICK a \in smallest : \A b \in smallest : a <= b
  BY <1>6, LeastNatural
<1>8. ASSUME NEW b \in E
      PROVE  size(a) < size(b) \/ (size(a) = size(b) /\ a <= b)
  <2>1. a \in E /\ size(a) = least /\ least <= size(b) /\ size(a) \in Nat /\ size(b) \in Nat
    BY <1>3, <1>5, <1>7
  <2>2. size(b) = least => a <= b
    BY <1>7
  <2> QED BY <2>1, <2>2
<1>9. a \in E
  BY <1>7
<1> QED BY <1>8, <1>9 DEF E, size, Selected

(* Routing and the lookup of dependencies never fail.                      *)
LEMMA NeverStuck ==
  ASSUME RunInv, PlannerInv, LoopInv, raised \notin Stuck, [Next]_vars
  PROVE  raised' \notin Stuck
<1>1. CASE RouteTask
  <2>1. run.phase \in Busy /\ run.phase \in LoopPhases
    BY <1>1 DEF RouteTask, On, Busy, LoopPhases
  <2>2. Current \in Ids(plan) /\ WellFormed(plan)
    BY <2>1, CurrentFits DEF LoopInv
  <2>3. PICK i \in DOMAIN plan : plan[i].id = Current
    BY <2>2 DEF Ids
  <2>4. {j \in DOMAIN plan : plan[j].id = Current} = {i}
    BY <2>2, <2>3 DEF WellFormed, UniqueIds
  <2>5. RequiredBy(Current) = plan[i].required
    BY <2>4 DEF RequiredBy
  <2>6. Selected(Current) # {}
    BY <2>2, <2>5, SomebodySelected DEF WellFormed, HasCandidates
  <2>7. Emit("task.assigned", Current, "")
    BY <1>1, <2>6 DEF RouteTask
  <2> QED BY <2>7, EmitRaises DEF Emit, Stuck
<1>2. CASE StartTask
  <2>1. run.phase \in Busy
    BY <1>2 DEF StartTask, On, Busy
  <2>2. raised' = raised
    BY <1>2, <2>1, CurrentFits DEF StartTask
  <2> QED BY <2>2
<1> QED BY <1>1, <1>2, StepRaises

-----------------------------------------------------------------------------
(* Dependencies complete first. *)

CompletedBefore(rows, task, n) ==
  \E f \in rows : f.type = "task.completed" /\ f.task = task /\ f.sequence < n

DepsInv ==
  \A e \in OfType("task.ready") : \A d \in Dependencies(plan, e.task) :
    CompletedBefore(events, d, e.sequence)

LEMMA DepsInvStep ==
  ASSUME RunInv, LogInv, TrailInv, ReadyInv, WorkInv, LoopInv, DepsInv, [Next]_vars
  PROVE  DepsInv'
<1> USE DEF RunInv
<1>1. /\ FramesInv /\ events \subseteq events' /\ sequence \in Nat
      /\ \A e \in events : e.sequence \in 1..sequence
  BY LogInvStep DEF LogInv
<1>2. \A task, n : CompletedBefore(events, task, n) => CompletedBefore(events', task, n)
  BY <1>1 DEF CompletedBefore
<1>3. CASE OfType("task.ready")' = OfType("task.ready")
  <2>1. run.phase \in Unplanned => DepsInv'
    BY <1>3 DEF ReadyInv, DepsInv
  <2>2. run.phase \notin Unplanned => plan' = plan
    BY <1>1, PlanStays
  <2> QED BY <1>2, <1>3, <2>1, <2>2 DEF DepsInv
<1>4. CASE TaskReady
  <2>1. run.phase = "ready" /\ plan' = plan /\ EmitThen("task.ready", Current, "", raised)
    BY <1>4 DEF TaskReady, On, Emit, planVars
  <2>2. \A e \in events' : e \in events \/ (e.sequence = sequence + 1 /\ e.task = Current)
    <3> DEFINE ready == Row("task.ready", Current, "")
    <3>1. ready.sequence = sequence + 1 /\ ready.task = Current
      BY DEF Row
    <3>2. events' \subseteq events \cup {ready}
      BY <2>1 DEF EmitThen, Appended
    <3> HIDE DEF ready
    <3> QED BY <3>1, <3>2
  <2>3. \A d \in Dependencies(plan, Current) : CompletedBefore(events, d, sequence + 1)
    <3>1. Dependencies(plan, Current) \subseteq TasksOf(run.accepted)
      BY <2>1, CurrentFits DEF Busy, Accepted, TasksOf
    <3>2. ASSUME NEW d \in Dependencies(plan, Current) PROVE CompletedBefore(events, d, sequence + 1)
      <4>1. CompletedIn(events, d)
        BY <3>1, <3>2 DEF WorkInv
      <4> QED BY <1>1, <4>1 DEF CompletedIn, CompletedBefore
    <3> QED BY <3>2
  <2>4. ASSUME NEW e \in OfType("task.ready")', NEW d \in Dependencies(plan, e.task)
        PROVE  CompletedBefore(events', d, e.sequence)
    <3>1. CASE e \in events
      BY <1>2, <2>4, <3>1 DEF DepsInv, OfType
    <3>2. CASE e.sequence = sequence + 1 /\ e.task = Current
      BY <1>2, <2>3, <2>4, <3>2
    <3> QED BY <2>2, <2>4, <3>1, <3>2 DEF OfType
  <2> QED BY <2>1, <2>4 DEF DepsInv
<1>5. ASSUME NEW types, Adds(types), "task.ready" \notin types
      PROVE  OfType("task.ready")' = OfType("task.ready")
  BY <1>5 DEF Adds, OfType
<1>6. CASE GateStep
  BY <1>3, <1>5, <1>6, GateAdds
<1>7. CASE Adds(Ordinarily)
  BY <1>3, <1>5, <1>7 DEF Ordinarily, Special
<1> QED BY <1>1, <1>4, <1>6, <1>7, StepAdds

-----------------------------------------------------------------------------

TaskInv == PlannerInv /\ WorkInv /\ LoopInv

LEMMA TaskInvInit == Init => LogInv /\ TrailInv /\ TaskInv
<1> SUFFICES ASSUME Init PROVE LogInv /\ TrailInv /\ TaskInv
  OBVIOUS
<1>1. LogInv /\ TrailInv
  BY DEF Init, ContextInit, LogInv, TrailInv, TaskPhases
<1>2. PlannerInv
  BY PlanInitInv, CallFields DEF Init, PlanInit, AgentInit, PlannerInv
<1>3. WorkInv
  BY DEF Init, TaskInit, NoWork, WorkInv, TasksOf
<1>4. LoopInv
  BY DEF Init, LoopInv, Early, Unplanned, LoopPhases, Busy, DonePhases
<1> QED BY <1>1, <1>2, <1>3, <1>4 DEF TaskInv

LEMMA TaskInvStep ==
  ASSUME RunInv, LogInv, TrailInv, TaskInv, [Next]_vars
  PROVE  RunInv' /\ LogInv' /\ TrailInv' /\ TaskInv'
BY RunInvStep, LogInvStep, TrailInvStep, PlannerInvStep, WorkInvStep, LoopInvStep
   DEF TaskInv, RunInv

(* What validate_plan checked stays true until the last task: routing      *)
(* finds a specialist, and every dependency artifact is there.             *)
THEOREM ValidatedPlansRun == Spec => []ValidatedPlansNeverGetStuck
<1> DEFINE Inv == RunInv /\ LogInv /\ TrailInv /\ TaskInv /\ raised \notin Stuck
<1>1. Init => Inv
  BY StoryInvInit, TaskInvInit DEF Init, ContextInit, Stuck
<1>2. Inv /\ [Next]_vars => Inv'
  BY TaskInvStep, NeverStuck DEF TaskInv
<1>3. Inv => ValidatedPlansNeverGetStuck
  BY DEF ValidatedPlansNeverGetStuck, Stuck
<1> QED BY <1>1, <1>2, <1>3, PTL DEF Spec

(* Tasks become ready in dependency order, however the plan lists them.    *)
THEOREM DependenciesAlwaysCompleteFirst == Spec => []DependenciesCompleteFirst
<1> DEFINE Inv == RunInv /\ LogInv /\ TrailInv /\ TaskInv /\ ReadyInv /\ DepsInv
<1>1. Init => Inv
  <2>1. Init => ReadyInv /\ DepsInv
    BY DEF Init, ContextInit, ReadyInv, DepsInv, OfType
  <2> QED BY <2>1, StoryInvInit, TaskInvInit
<1>2. Inv /\ [Next]_vars => Inv'
  BY TaskInvStep, ReadyInvStep, DepsInvStep DEF TaskInv
<1>3. Inv => DependenciesCompleteFirst
  BY DEF DepsInv, CompletedBefore, DependenciesCompleteFirst, OfTask, OfType
<1> QED BY <1>1, <1>2, <1>3, PTL DEF Spec

-----------------------------------------------------------------------------
(* Every model response is paid for. *)

Responses == OfType("model.completed")

LEMMA EmitsOther ==
  ASSUME NEW type, NEW task, NEW note, NEW error, type # "model.completed",
         EmitThen(type, task, note, error)
  PROVE  Responses' = Responses
<1> DEFINE new == Row(type, task, note)
<1>1. new.type # "model.completed"
  BY DEF Row
<1>2. events' = events \/ events' = events \cup {new}
  BY DEF EmitThen, Appended
<1> HIDE DEF new
<1> QED BY <1>1, <1>2 DEF Responses, OfType

LEMMA ResponseMove ==
  ASSUME [Next]_vars
  PROVE  \/ (AnswerParses \/ AnswerMalformed) /\ AgentFrame
         \/ Responses' = Responses
<1>q. events' = events => Responses' = Responses
  BY DEF Responses, OfType
<1>1. CASE ConductorStep
  <2>1. CASE CreateRun \/ StartRun \/ CompleteRun \/ FailRun
    BY <2>1, EmitsOther DEF CreateRun, StartRun, CompleteRun, FailRun, Emit
  <2>2. CASE SaveSucceeded \/ SaveFailed \/ CancelledRun
    BY <2>2, <1>q DEF SaveSucceeded, SaveFailed, CancelledRun, SaveRun, Quiet, contextVars
  <2> QED BY <1>1, <2>1, <2>2 DEF ConductorStep
<1>2. CASE WorkflowStep
  <2>1. CASE RequestPlan \/ ReceivePlan \/ PlanValidated \/ TaskReady \/ ClosePipeline
    BY <2>1, EmitsOther DEF RequestPlan, ReceivePlan, PlanValidated, TaskReady, ClosePipeline, Emit
  <2>2. CASE ValidatePlan \/ PlanRefused \/ PlanApproved \/ NextTask \/ TaskApproved \/ StartTask
    BY <2>2, <1>q DEF ValidatePlan, PlanRefused, PlanApproved, NextTask, TaskApproved, StartTask,
                      Raise, taskVars, contextVars
  <2>3. CASE StartPipeline
    BY <2>3, <1>q, EmitsOther DEF StartPipeline, Raise, Emit
  <2>4. CASE RouteTask
    BY <2>4, <1>q, EmitsOther DEF RouteTask, Raise, Emit
  <2>5. CASE KeepArtifact \/ Finalize \/ ReceiveFinalOutput
    BY <2>5, <1>q DEF KeepArtifact, Finalize, ReceiveFinalOutput, contextVars
  <2>6. CASE ExecuteTask
    <3>1. CASE BeginRevision \/ AnnounceArtifact \/ RequestReview
      BY <3>1, EmitsOther DEF BeginRevision, AnnounceArtifact, RequestReview, Emit
    <3>2. CASE RecordReview \/ CompleteTask \/ RequestRevision
      BY <3>2, EmitsOther DEF RecordReview, CompleteTask, RequestRevision, Emit
    <3>3. CASE StartTools \/ NextTool \/ ContinueWork \/ AcceptProduct \/ SaveArtifact
      BY <3>3, <1>q DEF StartTools, NextTool, ContinueWork, AcceptProduct, SaveArtifact,
                        StoreArtifact, Quiet, contextVars
    <3> QED BY <2>6, <3>1, <3>2, <3>3 DEF ExecuteTask, ExecutorStep
  <2> QED BY <1>2, <2>1, <2>2, <2>3, <2>4, <2>5, <2>6 DEF WorkflowStep
<1>3. CASE AgentStep /\ AgentFrame
  <2>1. CASE GuardRefuses
    BY <2>1, <1>q DEF GuardRefuses, Raise
  <2>2. CASE RequestModel \/ ProviderFails \/ RejectOutput
    BY <2>2, EmitsOther DEF RequestModel, ProviderFails, RejectOutput, Emit
  <2> QED BY <1>3, <2>1, <2>2 DEF AgentStep
<1>4. CASE BrokerStep
  <2>1. CASE RefuseTool \/ BudgetRefusesTool \/ ToolApproved
    BY <2>1, <1>q DEF RefuseTool, BudgetRefusesTool, ToolApproved, Raise, contextVars
  <2>2. CASE RequestTool \/ ToolSucceeds \/ ToolFails
    BY <2>2, EmitsOther DEF RequestTool, ToolSucceeds, ToolFails, Emit
  <2> QED BY <1>4, <2>1, <2>2 DEF BrokerStep
<1>5. CASE GateStep
  <2>1. Adds({"approval.requested", "approval.completed"})
    BY <1>5, GateAdds
  <2> QED BY <2>1 DEF Adds, Responses, OfType
<1>6. CASE Cancel
  BY <1>6, <1>q DEF Cancel, CancelCall, CancelApproval, Raise
<1>7. CASE ClockPasses
  BY <1>7, <1>q DEF ClockPasses
<1>8. CASE UNCHANGED vars
  BY <1>8, <1>q DEF vars, taskVars, contextVars
<1> QED BY <1>1, <1>2, <1>3, <1>4, <1>5, <1>6, <1>7, <1>8
        DEF Next, RunStep, CallStep, AgentFrame

(* What is counted of the responses: by the call in progress, by the task, *)
(* and by the run.                                                         *)
UsageInv ==
  /\ IsFiniteSet(events)
  /\ Running =>
       /\ run.usage \in Nat /\ work.usage \in Nat /\ call.usage \in Nat
       /\ run.usage + work.usage + call.usage = Cardinality(Responses)
       /\ call.phase = "idle" => call.usage = 0
       /\ run.phase # "executing" => work.usage = 0

UsageKept ==
  /\ run'.usage = run.usage /\ work'.usage = work.usage /\ call'.usage = call.usage
  /\ call'.phase = "idle" => call.phase = "idle"

(* A response is one row and one unit.                                     *)
LEMMA ResponseCounted ==
  ASSUME LogInv, UsageInv, Running', FramesInv, AnswerParses \/ AnswerMalformed
  PROVE  /\ Cardinality(Responses') = Cardinality(Responses) + 1
         /\ call'.usage = call.usage + 1 /\ call'.phase # "idle"
<1>1. call = [phase |-> call.phase, schema |-> call.schema, task |-> call.task,
              attempt |-> call.attempt, usage |-> call.usage, value |-> call.value]
  BY DEF FramesInv, ShapeInv
<1>2. call'.usage = call.usage + 1 /\ call'.phase \in {"returned", "invalid"}
  <2>1. CASE AnswerMalformed
    BY <1>1, <2>1 DEF AnswerMalformed
  <2>2. CASE AnswerParses
    <3>1. PICK value \in Outputs[call.schema] :
            call' = [call EXCEPT !.phase = "returned", !.usage = @ + 1, !.value = value]
      BY <2>2 DEF AnswerParses
    <3> QED BY <1>1, <3>1
  <2> QED BY <2>1, <2>2
<1> DEFINE new == Row("model.completed", call.task, call.schema)
<1>3. new.type = "model.completed" /\ new.sequence = sequence + 1
  BY DEF Row
<1>4. events' = events \cup {new}
  BY DEF AnswerParses, AnswerMalformed, Emit, EmitThen, Appended, StoreRaises, Running
<1> HIDE DEF new
<1>5. new \notin events
  BY <1>3 DEF LogInv
<1>6. Responses' = Responses \cup {new} /\ new \notin Responses
  BY <1>3, <1>4, <1>5 DEF Responses, OfType
<1>7. IsFiniteSet(Responses)
  BY FS_Subset DEF Responses, OfType, UsageInv
<1> QED BY <1>2, <1>6, <1>7, FS_AddElement

(* Units are handed on where a call or a task returns, and lost nowhere.   *)
UsageHandedOn ==
  /\ run'.usage \in Nat /\ work'.usage \in Nat /\ call'.usage \in Nat
  /\ run'.usage + work'.usage + call'.usage = run.usage + work.usage + call.usage
  /\ call'.phase = "idle" => call'.usage = 0
  /\ run'.phase # "executing" => work'.usage = 0

LEMMA ExecutorHandsOn ==
  ASSUME FramesInv, UsageInv, ExecuteTask, Running
  PROVE  UsageHandedOn
<1>1. /\ ShapeInv /\ run.phase = "executing" /\ run' = run
      /\ call.phase # "idle" => work.phase \in {"working", "reviewing"}
      /\ run.usage \in Nat /\ work.usage \in Nat /\ call.usage \in Nat
      /\ call.phase = "idle" => call.usage = 0
  BY DEF ExecuteTask, On, FramesInv, CallWaitedFor, UsageInv
<1>2. CASE BeginRevision \/ ContinueWork \/ RequestReview
  <2>1. call'.usage = 0 /\ call'.phase = "guard"
    <3>1. call' \in {Calling("WorkProduct", work.task), Calling("Review", work.task)}
      BY <1>2 DEF BeginRevision, ContinueWork, RequestReview, AskSpecialist, AskCritic
    <3> QED BY <3>1, CallFields
  <2>2. call.usage = 0 /\ work'.usage = work.usage
    BY <1>1, <1>2 DEF BeginRevision, ContinueWork, RequestReview, At, ShapeInv
  <2> QED BY <1>1, <2>1, <2>2 DEF UsageHandedOn
<1>3. CASE StartTools \/ AcceptProduct \/ RecordReview
  <2>1. call'.usage = 0
    BY <1>3, CallFields DEF StartTools, AcceptProduct, RecordReview
  <2>2. work'.usage = work.usage + call.usage
    BY <1>1, <1>3 DEF StartTools, AcceptProduct, RecordReview, ShapeInv
  <2> QED BY <1>1, <2>1, <2>2 DEF UsageHandedOn
<1>4. CASE NextTool \/ SaveArtifact \/ AnnounceArtifact \/ CompleteTask \/ RequestRevision
  <2>1. call' = call /\ work'.usage = work.usage
    BY <1>1, <1>4 DEF NextTool, SaveArtifact, AnnounceArtifact, CompleteTask, RequestRevision, ShapeInv
  <2> QED BY <1>1, <2>1 DEF UsageHandedOn
<1> QED BY <1>2, <1>3, <1>4 DEF ExecuteTask, ExecutorStep

LEMMA WorkflowHandsOn ==
  ASSUME FramesInv, UsageInv, WorkflowStep, Running, Running'
  PROVE  UsageHandedOn
<1>1. /\ ShapeInv
      /\ run.usage \in Nat /\ work.usage \in Nat /\ call.usage \in Nat
      /\ call.phase = "idle" => call.usage = 0
      /\ run.phase # "executing" => work.usage = 0
  BY DEF FramesInv, UsageInv
<1>2. CASE RequestPlan \/ Finalize
  <2>1. Idle /\ run.phase # "executing" /\ work' = work
    BY <1>2, IdleFrames DEF RequestPlan, Finalize, On, Waiting
  <2>2. call'.usage = 0 /\ call'.phase = "guard"
    BY <1>2, CallFields DEF RequestPlan, Finalize, AskPlanner, AskFinalizer
  <2>3. run'.usage = run.usage
    BY <1>2, GoesOn DEF RequestPlan, Finalize
  <2> QED BY <1>1, <2>1, <2>2, <2>3 DEF UsageHandedOn, Idle
<1>3. CASE ReceivePlan \/ ReceiveFinalOutput
  <2>1. call'.usage = 0 /\ work' = work /\ run.phase # "executing"
    BY <1>3, CallFields DEF ReceivePlan, ReceiveFinalOutput, On
  <2>2. run'.usage = run.usage + call.usage
    BY <1>1, <1>3 DEF ReceivePlan, ReceiveFinalOutput, ShapeInv
  <2> QED BY <1>1, <2>1, <2>2 DEF UsageHandedOn
<1>4. CASE StartTask
  <2>1. work' = Execute(Current, SpecialistTools[run.agent])
    BY <1>4 DEF StartTask, Running
  <2>2. work'.usage = 0 /\ call' = call /\ run.phase # "executing" /\ run'.usage = run.usage
    BY <1>4, <2>1, GoesOn DEF StartTask, Execute, On
  <2> QED BY <1>1, <2>2 DEF UsageHandedOn
<1>5. CASE KeepArtifact
  <2>1. work' = NoWork /\ call' = call /\ run'.usage = run.usage + work.usage
    BY <1>1, <1>5 DEF KeepArtifact, ShapeInv
  <2>2. work'.usage = 0
    BY <2>1 DEF NoWork
  <2> QED BY <1>1, <2>1, <2>2 DEF UsageHandedOn
<1>6. CASE ExecuteTask
  BY <1>6, ExecutorHandsOn
<1>7. CASE \/ ValidatePlan \/ PlanRefused \/ PlanValidated \/ PlanApproved \/ StartPipeline
           \/ NextTask \/ TaskApproved \/ TaskReady \/ RouteTask \/ ClosePipeline
  <2>1. UNCHANGED <<call, work>> /\ run.phase # "executing"
    BY <1>7 DEF ValidatePlan, PlanRefused, PlanValidated, PlanApproved, StartPipeline, NextTask,
                TaskApproved, TaskReady, RouteTask, ClosePipeline, On, taskVars, below
  <2>2. run'.usage = run.usage
    <3>1. CASE PlanApproved \/ NextTask \/ TaskApproved \/ TaskReady \/ ClosePipeline
      BY <3>1, GoesOn DEF PlanApproved, NextTask, TaskApproved, TaskReady, ClosePipeline
    <3>2. CASE ValidatePlan \/ PlanRefused
      BY <3>2 DEF ValidatePlan, PlanRefused
    <3>3. CASE PlanValidated \/ StartPipeline
      BY <1>1, <3>3 DEF PlanValidated, StartPipeline, ShapeInv
    <3>4. CASE RouteTask
      <4>1. run' = run \/ \E a \in Selected(Current) : run' = [run EXCEPT !.phase = "assigned", !.agent = a]
        BY <3>4 DEF RouteTask
      <4> QED BY <1>1, <4>1 DEF ShapeInv
    <3> QED BY <1>7, <3>1, <3>2, <3>3, <3>4
  <2> QED BY <1>1, <2>1, <2>2 DEF UsageHandedOn
<1> QED BY <1>2, <1>3, <1>4, <1>5, <1>6, <1>7 DEF WorkflowStep

LEMMA UsageInvStep ==
  ASSUME RunInv, LogInv, UsageInv, [Next]_vars
  PROVE  UsageInv'
<1>1. FramesInv /\ ShapeInv
  BY DEF RunInv, FramesInv
<1>2. IsFiniteSet(events')
  <2>1. events' = events \/ \E e : events' = events \cup {e}
    <3>1. CASE TaskReady
      BY <3>1, EmitAdds DEF TaskReady, Emit, Adds
    <3>2. CASE GateStep
      BY <3>2, GateAdds DEF Adds
    <3>3. CASE Adds(Ordinarily)
      BY <3>3 DEF Adds
    <3> QED BY <1>1, <3>1, <3>2, <3>3, StepAdds
  <2> QED BY <2>1, FS_AddElement DEF UsageInv
<1>3. CASE ~Running'
  BY <1>2, <1>3 DEF UsageInv
<1> SUFFICES ASSUME Running' PROVE UsageInv'
  BY <1>3
<1>4. /\ Running
      /\ run.usage \in Nat /\ work.usage \in Nat /\ call.usage \in Nat
      /\ run.usage + work.usage + call.usage = Cardinality(Responses)
      /\ call.phase = "idle" => call.usage = 0
      /\ run.phase # "executing" => work.usage = 0
  BY RunningStays DEF UsageInv
<1>5. CASE (AnswerParses \/ AnswerMalformed) /\ AgentFrame
  <2>1. UNCHANGED <<run, work>>
    BY <1>5 DEF AgentFrame
  <2>2. /\ Cardinality(Responses') = Cardinality(Responses) + 1
        /\ call'.usage = call.usage + 1 /\ call'.phase # "idle"
    BY <1>1, <1>5, ResponseCounted
  <2> QED BY <1>2, <1>4, <2>1, <2>2 DEF UsageInv
<1>6. ASSUME UsageHandedOn, Responses' = Responses
      PROVE  UsageInv'
  BY <1>2, <1>4, <1>6 DEF UsageInv, UsageHandedOn
<1>7. CASE ~((AnswerParses \/ AnswerMalformed) /\ AgentFrame)
  <2>1. Responses' = Responses
    BY <1>7, ResponseMove
  <2>2. UNCHANGED <<call, work, run>> => UsageHandedOn
    BY <1>4 DEF UsageHandedOn
  <2>3. CASE ConductorStep
    <3>1. /\ UNCHANGED <<call, work>> /\ run'.usage = run.usage
          /\ run.phase # "executing"
      <4>1. CASE CreateRun \/ StartRun \/ CompleteRun \/ SaveSucceeded
        BY <1>1, <4>1, GoesOn DEF CreateRun, StartRun, CompleteRun, SaveSucceeded, On, below
      <4>2. CASE SaveFailed
        BY <1>1, <4>2, GoesOn DEF SaveFailed, below
      <4>3. CASE FailRun \/ CancelledRun
        BY <1>4, <4>3 DEF FailRun, Handled, CancelledRun, Running, Errors, Cancelled
      <4> QED BY <2>3, <4>1, <4>2, <4>3 DEF ConductorStep
    <3> QED BY <1>4, <1>6, <2>1, <3>1 DEF UsageHandedOn
  <2>4. CASE WorkflowStep
    BY <1>1, <1>4, <1>6, <2>1, <2>4, WorkflowHandsOn
  <2>5. CASE AgentStep /\ AgentFrame
    <3>1. UNCHANGED <<work, run>>
      BY <2>5 DEF AgentFrame
    <3>2. RequestModel \/ RejectOutput
      <4>1. ASSUME GuardRefuses PROVE FALSE
        BY <4>1 DEF GuardRefuses, Raise, Running
      <4>2. ASSUME ProviderFails PROVE FALSE
        BY <4>2, EmitRaises DEF ProviderFails, Running
      <4> QED BY <1>7, <2>5, <4>1, <4>2 DEF AgentStep
    <3>3. call'.usage = call.usage /\ call'.phase # "idle"
      BY <1>1, <3>2 DEF RequestModel, RejectOutput, ShapeInv
    <3> QED BY <1>4, <1>6, <2>1, <3>1, <3>3 DEF UsageHandedOn
  <2>6. CASE UNCHANGED <<call, work, run>>
    BY <1>6, <2>1, <2>2, <2>6
  <2> QED BY <2>3, <2>4, <2>5, <2>6
          DEF Next, RunStep, CallStep, AgentFrame, Cancel, CancelCall, below, vars, taskVars
<1> QED BY <1>5, <1>7

-----------------------------------------------------------------------------
(* A succeeded row is complete. *)

RowInv ==
  row.status = "succeeded" =>
    /\ row.artifacts \subseteq artifacts
    /\ TasksOf(row.artifacts) = Ids(plan)
    /\ Cardinality(row.artifacts) = Len(plan)
    /\ row.usage = Cardinality(Responses)

LEMMA RowInvStep ==
  ASSUME RunInv, LogInv, WorkInv, LoopInv, UsageInv, RowInv, [Next]_vars
  PROVE  RowInv'
<1>1. /\ FramesInv /\ artifacts \subseteq artifacts'
      /\ row.status = "succeeded" => run.phase \in {"saving", "failing", "ended"}
  BY ArtifactsStay DEF RunInv, StoryInv, RowFits
<1>2. run.phase \in {"saving", "failing", "ended"} => plan' = plan
  BY <1>1, PlanStays DEF Unplanned
<1>3. ASSUME row' = row, Responses' = Responses
      PROVE  RowInv'
  BY <1>1, <1>2, <1>3 DEF RowInv
<1>4. CASE SaveSucceeded
  <2>1. /\ Running /\ run.phase = "saving" /\ row' \in {row, SucceededRow}
        /\ UNCHANGED <<events, artifacts, plan>>
    BY <1>4 DEF SaveSucceeded, SaveRun, Quiet, On, below, planVars
  <2>2. Responses' = Responses
    BY <2>1 DEF Responses, OfType
  <2>3. Idle
    BY <1>1, <2>1, IdleFrames DEF Waiting
  <2>4. run.usage = Cardinality(Responses)
    BY <2>1, <2>3 DEF UsageInv, Idle
  <2>5. /\ TasksOf(run.accepted) = Ids(plan) /\ Cardinality(run.accepted) = Len(plan)
        /\ run.accepted \subseteq artifacts
    <3>1. Loop(plan, <<>>, run.accepted)
      BY <2>1 DEF LoopInv, DonePhases
    <3>2. Entries(<<>>) = {} /\ Len(<<>>) = 0
      BY EmptySeq DEF Entries
    <3>3. Cardinality(run.accepted) \in Nat
      BY <3>1, FS_CardinalityType DEF Loop
    <3>4. /\ Entries(<<>>) \cup TasksOf(run.accepted) = Ids(plan)
          /\ Cardinality(run.accepted) + Len(<<>>) = Len(plan)
      BY <3>1 DEF Loop
    <3>5. run.accepted \subseteq artifacts
      BY DEF WorkInv
    <3>6. TasksOf(run.accepted) = Ids(plan)
      BY <3>2, <3>4
    <3>7. Cardinality(run.accepted) = Len(plan)
      BY <3>2, <3>3, <3>4
    <3> QED BY <3>5, <3>6, <3>7
  <2>6. /\ SucceededRow.artifacts = run.accepted /\ SucceededRow.usage = run.usage
    BY DEF SucceededRow
  <2>7. CASE row' = SucceededRow
    BY <2>1, <2>2, <2>4, <2>5, <2>6, <2>7 DEF RowInv
  <2> QED BY <1>3, <2>1, <2>2, <2>7
<1>5. CASE SaveFailed
  <2>1. row' \in {row, FailedRow} /\ events' = events
    BY <1>5 DEF SaveFailed, SaveRun, Quiet
  <2>2. FailedRow.status = "failed"
    BY DEF FailedRow
  <2>3. Responses' = Responses
    BY <2>1 DEF Responses, OfType
  <2> QED BY <1>3, <2>1, <2>2, <2>3 DEF RowInv
<1>6. CASE row' = row
  <2>1. CASE row.status = "succeeded"
    <3>1. Responses' = Responses
      <4>1. CASE FailRun
        BY <4>1, EmitsOther DEF FailRun, Emit
      <4>2. CASE SaveFailed \/ CancelledRun \/ CancelMove
        BY <4>2 DEF SaveFailed, SaveRun, Quiet, CancelledRun, contextVars, CancelMove, Responses, OfType
      <4>3. CASE UNCHANGED <<sequence, events, store_faults, raised, run, row>>
        BY <4>3 DEF Responses, OfType
      <4>4. CASE SaveSucceeded
        BY <4>4 DEF SaveSucceeded, SaveRun, Quiet, Responses, OfType
      <4>5. run.phase \in {"saving", "failing", "ended"}
        BY <1>1, <2>1
      <4>6. ~CreateRun /\ ~StartRun /\ ~CompleteRun /\ ~WorkflowMove
        BY <4>5 DEF CreateRun, StartRun, CompleteRun, WorkflowMove, Workflow, On
      <4> QED BY <1>1, <4>1, <4>2, <4>3, <4>4, <4>6, StepKinds DEF ConductorKinds
    <3> QED BY <1>3, <1>6, <3>1
  <2> QED BY <1>6, <2>1 DEF RowInv
<1> QED BY <1>1, <1>4, <1>5, <1>6, StepKinds
        DEF ConductorKinds, CreateRun, StartRun, CompleteRun, FailRun, CancelledRun, WorkflowMove,
            CancelMove

(* Whatever the store, the providers and the approver do, a run stored as  *)
(* succeeded has one stored artifact for each task of its plan, and the    *)
(* usage of every response it received.                                    *)
THEOREM SucceededRunsAreComplete == Spec => []SucceededRunComplete
<1> DEFINE Inv == RunInv /\ LogInv /\ TrailInv /\ TaskInv /\ UsageInv /\ RowInv
<1>1. Init => Inv
  <2>1. ASSUME Init PROVE UsageInv /\ RowInv
    <3>1. Responses = {} /\ Cardinality({}) = 0 /\ IsFiniteSet({})
      BY <2>1, FS_EmptySet DEF Init, ContextInit, Responses, OfType
    <3>2. run.usage = 0 /\ work.usage = 0 /\ call.usage = 0 /\ row.status = "none" /\ events = {}
      BY <2>1, CallFields DEF Init, ContextInit, TaskInit, NoWork, AgentInit
    <3> QED BY <3>1, <3>2 DEF UsageInv, RowInv
  <2> QED BY <2>1, StoryInvInit, TaskInvInit
<1>2. Inv /\ [Next]_vars => Inv'
  BY TaskInvStep, UsageInvStep, RowInvStep DEF TaskInv
<1>3. Inv => SucceededRunComplete
  BY DEF RowInv, SucceededRunComplete, TasksOf, Responses, Count
<1> QED BY <1>1, <1>2, <1>3, PTL DEF Spec

-----------------------------------------------------------------------------
(* The types of a whole run: those of the frames (FrameTypes), of the plan *)
(* (PlanInv) and of the workflow's locals.  That the next task is a number *)
(* needs LoopInv: a task is only taken from a list that is not empty.      *)

RunTypesInv ==
  /\ FrameTypes
  /\ run.todo \in Seq(Nat)
  /\ run.agent \in {0} \cup DOMAIN SpecialistCaps
  /\ run.phase = "assigned" => run.agent \in DOMAIN SpecialistCaps
  /\ run.usage \in Nat

LEMMA CurrentIsNat ==
  ASSUME RunTypesInv, run.todo # <<>>
  PROVE  Current \in Nat
BY HeadTailProperties DEF RunTypesInv, Current

WorkflowRows ==
  {"run.created", "run.started", "run.completed", "run.failed",
   "plan.requested", "plan.created", "plan.validated", "pipeline.started", "pipeline.completed",
   "task.ready", "task.assigned"}

(* What the conductor and the workflow themselves do to the log.           *)
LEMMA WorkflowKeepsHistory ==
  ASSUME RunInv, LoopInv, RunTypesInv, ConductorStep \/ (WorkflowStep /\ ~ExecuteTask)
  PROVE  /\ HistoryInv' /\ BudgetTypeOK' /\ sequence \in Nat
         /\ sequence' \in {sequence, sequence + 1}
<1>0. /\ HistoryInv /\ BudgetTypeOK /\ sequence \in Nat /\ raised \in Raisable
  BY DEF RunTypesInv, FrameTypes, CallInv, HistoryInv, HistoryTypeOK, Raisable
<1>b. UNCHANGED budgetVars
  BY DEF ConductorStep, CreateRun, StartRun, CompleteRun, SaveSucceeded, FailRun, SaveFailed,
         CancelledRun, WorkflowStep, RequestPlan, ReceivePlan, ValidatePlan, PlanRefused,
         PlanValidated, PlanApproved, StartPipeline, NextTask, TaskApproved, TaskReady, RouteTask,
         StartTask, KeepArtifact, Finalize, ReceiveFinalOutput, ClosePipeline, taskVars,
         contextVars, budgetVars
<1>1. BudgetTypeOK'
  BY <1>0, <1>b DEF budgetVars, BudgetTypeOK
<1>e. ASSUME NEW type \in WorkflowRows, NEW task \in Nat, NEW note, Emit(type, task, note)
      PROVE  HistoryInv' /\ sequence' = sequence + 1
  <2>1. RowOK(Row(type, task, note))
    BY <1>0 DEF RowOK, Row, EventTypes, WorkflowRows
  <2> QED BY <1>0, <1>e, <2>1, EmitKeepsHistory DEF Emit, EmitThen
<1>r. ASSUME NEW error \in Raisable, Raise(error)
      PROVE  HistoryInv' /\ sequence' = sequence
  BY <1>0, <1>r, RaiseKeepsHistory DEF Raise
<1>q. ASSUME UNCHANGED <<sequence, events, raised, store_faults>>
      PROVE  HistoryInv' /\ sequence' = sequence
  BY <1>0, <1>q, QuietKeepsHistory
<1>s. ASSUME NEW result, SaveRun(result)
      PROVE  HistoryInv' /\ sequence' = sequence
  <2>1. Quiet \/ (StoreRaises /\ UNCHANGED <<sequence, events>>)
    BY <1>s DEF SaveRun
  <2> QED BY <1>0, <1>q, <2>1, FaultKeepsHistory DEF Quiet
<1>2. CASE \/ CreateRun \/ StartRun \/ CompleteRun \/ FailRun
           \/ RequestPlan \/ ReceivePlan \/ PlanValidated \/ ClosePipeline
  <2>1. \E type \in WorkflowRows : \E note : Emit(type, 0, note)
    BY <1>2 DEF CreateRun, StartRun, CompleteRun, FailRun, RequestPlan, ReceivePlan,
                PlanValidated, ClosePipeline, WorkflowRows
  <2> QED BY <1>0, <1>1, <1>e, <2>1
<1>3. CASE SaveSucceeded \/ SaveFailed
  BY <1>0, <1>1, <1>3, <1>s DEF SaveSucceeded, SaveFailed
<1>4. CASE \/ CancelledRun \/ ValidatePlan \/ PlanApproved \/ NextTask \/ TaskApproved
           \/ KeepArtifact \/ Finalize \/ ReceiveFinalOutput
  <2>1. UNCHANGED <<sequence, events, raised, store_faults>>
    BY <1>4 DEF CancelledRun, ValidatePlan, PlanApproved, NextTask, TaskApproved, KeepArtifact,
                Finalize, ReceiveFinalOutput, taskVars, contextVars
  <2> QED BY <1>0, <1>1, <1>q, <2>1
<1>5. CASE PlanRefused
  <2>1. verdict \in Raisable /\ Raise(verdict)
    BY <1>5 DEF PlanRefused, Raisable, Errors
  <2> QED BY <1>0, <1>1, <1>r, <2>1
<1>6. CASE StartPipeline
  <2>1. Raise("BudgetExceededError") \/ Emit("pipeline.started", 0, "")
    BY <1>6 DEF StartPipeline
  <2>2. "BudgetExceededError" \in Raisable /\ "pipeline.started" \in WorkflowRows
    BY DEF Raisable, Errors, WorkflowRows
  <2> QED BY <1>0, <1>1, <1>e, <1>r, <2>1, <2>2
<1>7. CASE TaskReady \/ RouteTask
  <2>1. Current \in Nat
    BY <1>7, CurrentIsNat DEF TaskReady, RouteTask, On, LoopInv, Busy
  <2>2. Raise("RoutingError") \/ \E type \in WorkflowRows : Emit(type, Current, "")
    BY <1>7 DEF TaskReady, RouteTask, WorkflowRows
  <2>3. "RoutingError" \in Raisable
    BY DEF Raisable, Errors
  <2> QED BY <1>0, <1>1, <1>e, <1>r, <2>1, <2>2, <2>3
<1>8. CASE StartTask
  <2>1. /\ UNCHANGED <<sequence, events, store_faults>>
        /\ raised' = raised \/ raised' = "KeyError"
    BY <1>8 DEF StartTask
  <2>2. "KeyError" \in Raisable
    BY DEF Raisable, Errors
  <2> QED BY <1>0, <1>1, <1>q, <1>r, <2>1, <2>2 DEF Raise
<1> QED BY <1>2, <1>3, <1>4, <1>5, <1>6, <1>7, <1>8 DEF ConductorStep, WorkflowStep

(* The frames the workflow sets up, drops or leaves.                       *)
LEMMA WorkflowKeepsTypes ==
  ASSUME RunInv, LoopInv, RunTypesInv, [Next]_vars, Running' => Running,
         ConductorStep \/ (WorkflowStep /\ ~ExecuteTask)
  PROVE  FrameTypes'
<1>0. /\ CallInv /\ BrokerTypes /\ WorkTypes /\ approval \in Requests
  BY DEF RunTypesInv, FrameTypes, BrokerTypes
<1>1. /\ HistoryInv' /\ BudgetTypeOK' /\ sequence \in Nat
      /\ sequence' \in {sequence, sequence + 1}
  BY WorkflowKeepsHistory
<1>2. /\ StartTask => run.agent \in DOMAIN SpecialistCaps /\ Current \in Nat
      /\ NextTask => Current \in Nat
  BY CurrentIsNat DEF RunTypesInv, StartTask, NextTask, On, LoopInv, Busy
<1>3. \/ call' \in {call, NoCall}
      \/ \E schema \in Schemas, task \in Nat : call' = Calling(schema, task)
  BY RunSchemasAssumption
     DEF ConductorStep, CreateRun, StartRun, CompleteRun, SaveSucceeded, FailRun, SaveFailed,
         CancelledRun, WorkflowStep, RequestPlan, ReceivePlan, ValidatePlan, PlanRefused,
         PlanValidated, PlanApproved, StartPipeline, NextTask, TaskApproved, TaskReady, RouteTask,
         StartTask, KeepArtifact, Finalize, ReceiveFinalOutput, ClosePipeline, taskVars, below,
         AskPlanner, AskFinalizer
<1>4. tool' \in {tool, NoTool} /\ UNCHANGED <<effects, artifacts>>
  BY DEF ConductorStep, CreateRun, StartRun, CompleteRun, SaveSucceeded, FailRun, SaveFailed,
         CancelledRun, WorkflowStep, RequestPlan, ReceivePlan, ValidatePlan, PlanRefused,
         PlanValidated, PlanApproved, StartPipeline, NextTask, TaskApproved, TaskReady, RouteTask,
         StartTask, KeepArtifact, Finalize, ReceiveFinalOutput, ClosePipeline, taskVars, below
<1>5. approval' \in Requests
  <2>1. \/ approval' \in {approval, NoApproval}
        \/ \E action \in {"plan.execute", "task.execute"}, task \in Nat :
             approval' = Asking(action, task)
    BY <1>2
       DEF ConductorStep, CreateRun, StartRun, CompleteRun, SaveSucceeded, FailRun, SaveFailed,
           CancelledRun, WorkflowStep, RequestPlan, ReceivePlan, ValidatePlan, PlanRefused,
           PlanValidated, PlanApproved, StartPipeline, NextTask, TaskApproved, TaskReady, RouteTask,
           StartTask, KeepArtifact, Finalize, ReceiveFinalOutput, ClosePipeline, taskVars, below
  <2> QED BY <1>0, <2>1 DEF NoApproval, Asking, Requests
<1>6. WorkTypes'
  <2>1. CASE StartTask
    <3>1. work' = work \/ work' = Execute(Current, SpecialistTools[run.agent])
      BY <2>1 DEF StartTask
    <3>2. SpecialistTools[run.agent] \in SUBSET Tools
      BY <1>2, <2>1, SpecialistToolsAssumption
    <3>3. CASE work' = work
      BY <1>0, <1>4, <3>3, OthersKeepWork
    <3>4. CASE work' = Execute(Current, SpecialistTools[run.agent])
      BY <1>0, <1>2, <1>4, <2>1, <3>2, <3>4, RevisionsAssumption
         DEF Execute, WorkTypes, WorkTypeOK
    <3> QED BY <3>1, <3>3, <3>4
  <2>2. CASE KeepArtifact
    BY <1>0, <1>4, <2>2, RevisionsAssumption DEF KeepArtifact, NoWork, WorkTypes, WorkTypeOK
  <2>3. CASE ~StartTask /\ ~KeepArtifact
    <3>1. ~ExecuteTask
      BY DEF ConductorStep, CreateRun, StartRun, CompleteRun, SaveSucceeded, FailRun, SaveFailed,
             CancelledRun, ExecuteTask, On, Handled, Running, Errors, Cancelled
    <3> QED BY <1>0, <2>3, <3>1, WorkMove, OthersKeepWork
  <2> QED BY <2>1, <2>2, <2>3
<1>7. CallInv'
  BY <1>0, <1>1, <1>3, CallerKeepsTypes
<1>8. BrokerTypes'
  BY <1>0, <1>1, <1>4, <1>5, CallerKeepsBrokerTypes
<1> QED BY <1>6, <1>7, <1>8 DEF FrameTypes

(* The workflow's locals.                                                  *)
LEMMA RunLocalsStep ==
  ASSUME RunInv, PlannerInv, LoopInv, RunTypesInv, [Next]_vars
  PROVE  /\ run'.todo \in Seq(Nat)
         /\ run'.agent \in {0} \cup DOMAIN SpecialistCaps
         /\ run'.phase = "assigned" => run'.agent \in DOMAIN SpecialistCaps
         /\ run'.usage \in Nat
<1>0. /\ FramesInv /\ ShapeInv /\ run.todo \in Seq(Nat) /\ run.usage \in Nat
      /\ call.usage \in Nat /\ work.usage \in Nat
  BY DEF RunInv, FramesInv, RunTypesInv, FrameTypes, CallInv, CallTypeOK, WorkTypes, WorkTypeOK
<1>1. run'.todo \in Seq(Nat)
  <2>1. CASE TasksKept
    BY <1>0, <2>1 DEF TasksKept
  <2>2. CASE PlanValidated
    <3>1. run'.todo = ordered /\ ordered \in Seq(Ids(plan)) /\ plan \in Seq(PlannedTask)
      BY <1>0, <2>2 DEF PlanValidated, ExecutionOrder, ShapeInv, PlannerInv, PlanInv, PlanTypeOK
    <3>2. Ids(plan) \subseteq Nat
      <4>1. \A i \in DOMAIN plan : plan[i] \in PlannedTask
        BY <3>1, ElementOfSeq
      <4> QED BY <4>1 DEF Ids, PlannedTask
    <3> QED BY <3>1, <3>2
  <2>3. CASE StartPipeline
    <3>1. run'.todo = <<1>>
      BY <1>0, <2>3 DEF StartPipeline, ShapeInv
    <3> QED BY <3>1
  <2>4. CASE KeepArtifact
    <3>1. run'.todo = Tail(run.todo) /\ run.todo # <<>>
      BY <1>0, <2>4 DEF KeepArtifact, On, ShapeInv, LoopInv, Busy
    <3> QED BY <1>0, <3>1, HeadTailProperties
  <2> QED BY <1>0, <2>1, <2>2, <2>3, <2>4, RunMove
<1>2. /\ run'.agent \in {0} \cup DOMAIN SpecialistCaps
      /\ run'.phase = "assigned" => run'.agent \in DOMAIN SpecialistCaps
      /\ run'.usage \in Nat
  <2>1. CASE RouteTask
    <3>1. run' = run \/ \E a \in Selected(Current) :
                          run' = [run EXCEPT !.phase = "assigned", !.agent = a]
      BY <2>1 DEF RouteTask
    <3>2. Selected(Current) \subseteq DOMAIN SpecialistCaps
      BY DEF Selected, Eligible
    <3>3. run' = run \/ (run'.agent \in DOMAIN SpecialistCaps /\ run'.usage = run.usage)
      BY <1>0, <3>1, <3>2 DEF ShapeInv
    <3> QED BY <1>0, <3>3 DEF RunTypesInv
  <2>2. CASE ReceivePlan \/ ReceiveFinalOutput \/ KeepArtifact
    <3>1. /\ run'.agent = run.agent /\ run'.phase # "assigned"
          /\ run'.usage \in {run.usage + call.usage, run.usage + work.usage}
      BY <1>0, <2>2 DEF ReceivePlan, ReceiveFinalOutput, KeepArtifact, ShapeInv
    <3>2. run.usage + call.usage \in Nat /\ run.usage + work.usage \in Nat
      BY <1>0
    <3> QED BY <3>1, <3>2 DEF RunTypesInv
  <2>3. CASE PlanValidated \/ StartPipeline
    <3>1. run'.agent = run.agent /\ run'.phase # "assigned" /\ run'.usage = run.usage
      BY <1>0, <2>3 DEF PlanValidated, StartPipeline, ShapeInv
    <3> QED BY <1>0, <3>1 DEF RunTypesInv
  <2>4. ASSUME NEW phase, phase # "assigned", Goto(phase)
        PROVE  run'.agent = run.agent /\ run'.phase # "assigned" /\ run'.usage = run.usage
    BY <1>0, <2>4 DEF Goto, ShapeInv
  <2>5. CASE \/ ConductorStep \/ RequestPlan \/ PlanApproved \/ NextTask \/ TaskApproved
             \/ TaskReady \/ StartTask \/ Finalize \/ ClosePipeline
    <3>1. \E phase : phase # "assigned" /\ Goto(phase)
      BY <2>5, StrategyAssumption
         DEF ConductorStep, CreateRun, StartRun, CompleteRun, SaveSucceeded, FailRun, SaveFailed,
             CancelledRun, RequestPlan, PlanApproved, NextTask, TaskApproved, TaskReady,
             StartTask, Finalize, ClosePipeline
    <3> QED BY <1>0, <2>4, <3>1 DEF RunTypesInv
  <2>6. CASE run' = run
    BY <2>6 DEF RunTypesInv
  <2> QED BY <2>1, <2>2, <2>3, <2>5, <2>6
          DEF Next, RunStep, WorkflowStep, ValidatePlan, PlanRefused, ExecuteTask, CallStep, vars
<1> QED BY <1>1, <1>2

LEMMA RunTypesStep ==
  ASSUME RunInv, PlannerInv, LoopInv, RunTypesInv, [Next]_vars
  PROVE  RunTypesInv'
<1>1. (Running' => Running) /\ FrameTypes
  BY RunningStays DEF RunTypesInv
<1>2. FrameTypes'
  <2>1. CASE ConductorStep \/ (WorkflowStep /\ ~ExecuteTask)
    BY <1>1, <2>1, WorkflowKeepsTypes
  <2>2. CASE ExecuteTask \/ CallStep \/ Cancel
    <3>1. TaskStep \/ Cancel
      BY <2>2 DEF ExecuteTask, CallStep, TaskStep
    <3> QED BY <1>1, <3>1, TaskStepKeepsTypes
  <2>3. CASE ClockPasses /\ UNCHANGED <<below, planVars, run, row>>
    <3>1. BudgetTypeOK'
      BY <1>1, <2>3 DEF ClockPasses, FrameTypes, CallInv, BudgetTypeOK
    <3> QED BY <1>1, <2>3, <3>1, QuietKeepsTypes DEF ClockPasses, below
  <2>4. CASE UNCHANGED vars
    <3>1. BudgetTypeOK'
      BY <1>1, <2>4 DEF vars, taskVars, contextVars, FrameTypes, CallInv, BudgetTypeOK
    <3> QED BY <1>1, <2>4, <3>1, QuietKeepsTypes DEF vars, taskVars, contextVars
  <2> QED BY <2>1, <2>2, <2>3, <2>4 DEF Next, RunStep
<1> QED BY <1>2, RunLocalsStep DEF RunTypesInv

LEMMA RunTypesInit ==
  ASSUME Init
  PROVE  RunTypesInv
<1>1. FrameTypes
  BY FrameTypesInit DEF Init
<1>2. run.todo = <<>> /\ run.agent = 0 /\ run.usage = 0 /\ run.phase = "new"
  BY DEF Init
<1> QED BY <1>1, <1>2 DEF RunTypesInv

-----------------------------------------------------------------------------
(* What the calls of a whole run guarantee.  The invariants of a model     *)
(* call (AuditInv) and of a tool call (EffectInv, CountInv) speak of the   *)
(* end of the log while the call is in progress.  They hold in a run       *)
(* because whoever made the call stays where it is until the call is over: *)
(* the conductor, the workflow and the executor move when it is their turn *)
(* or when an exception unwinds to them, and otherwise only the clock does. *)

CallerRows == WorkflowRows \cup ExecutorRows
ToolRows ==
  {"tool.requested", "tool.completed", "tool.failed", "approval.requested", "approval.completed"}

CallersTurn == Running /\ call.phase \in {"idle", "returned"} /\ tool.phase \in {"idle", "done"}

CallerMove ==
  /\ Adds(CallerRows)
  /\ UNCHANGED <<model_calls, tool_calls, effects>>
  /\ store_faults' \in {store_faults, store_faults + 1}
  /\ \/ CallersTurn
     \/ raised \in Errors
     \/ UNCHANGED <<sequence, events, raised, store_faults, approval, call, tool>>
  /\ call' = call \/ call'.phase \in {"idle", "guard"}
  /\ tool' = tool \/ tool'.phase \in {"idle", "called"}

LEMMA PhasesOfCalls ==
  /\ NoCall.phase = "idle" /\ NoTool.phase = "idle"
  /\ \A schema, task : Calling(schema, task).phase = "guard"
  /\ \A name, task, allowed : ToolCall(name, task, allowed).phase = "called"
BY DEF NoCall, NoTool, Calling, ToolCall

LEMMA CallerEmits ==
  ASSUME NEW type \in CallerRows, NEW task, NEW note, NEW error,
         EmitThen(type, task, note, error)
  PROVE  Adds(CallerRows) /\ store_faults' \in {store_faults, store_faults + 1}
<1>1. Adds({type})
  BY EmitAdds
<1>2. Adds(CallerRows)
  <2> HIDE DEF CallerRows
  <2> QED BY <1>1, AddsMore
<1> QED BY <1>2 DEF EmitThen, Appended, StoreRaises

LEMMA QuietAdds ==
  ASSUME UNCHANGED <<sequence, events>>, NEW types
  PROVE  Adds(types)
BY DEF Adds

LEMMA ConductorCalls ==
  ASSUME RunInv, ConductorStep
  PROVE  CallerMove
<1>1. UNCHANGED <<model_calls, tool_calls, approval, call, tool, effects>>
  BY DEF ConductorStep, CreateRun, StartRun, CompleteRun, SaveSucceeded, FailRun, SaveFailed,
         CancelledRun, below, budgetVars, contextVars
<1>2. CallersTurn \/ raised \in Errors \/ UNCHANGED contextVars
  <2>1. CASE CreateRun \/ StartRun \/ CompleteRun \/ SaveSucceeded
    <3>1. Running /\ run.phase \notin Waiting
      BY <2>1 DEF CreateRun, StartRun, CompleteRun, SaveSucceeded, On, Waiting
    <3> QED BY <3>1, IdleFrames DEF RunInv, Idle, CallersTurn
  <2>2. CASE FailRun \/ SaveFailed
    BY <2>2 DEF FailRun, Handled, SaveFailed, RunInv, StoryInv, RaisedFits
  <2>3. CASE CancelledRun
    BY <2>3 DEF CancelledRun
  <2> QED BY <2>1, <2>2, <2>3 DEF ConductorStep
<1>3. Adds(CallerRows) /\ store_faults' \in {store_faults, store_faults + 1}
  <2>1. CASE CreateRun \/ StartRun \/ CompleteRun \/ FailRun
    <3>1. \E type \in CallerRows : \E note : Emit(type, 0, note)
      BY <2>1 DEF CreateRun, StartRun, CompleteRun, FailRun, CallerRows, WorkflowRows
    <3> QED BY <3>1, CallerEmits DEF Emit
  <2>2. CASE SaveSucceeded \/ SaveFailed \/ CancelledRun
    BY <2>2, QuietAdds DEF SaveSucceeded, SaveFailed, SaveRun, Quiet, StoreRaises, CancelledRun,
                           contextVars
  <2> QED BY <2>1, <2>2 DEF ConductorStep
<1> QED BY <1>1, <1>2, <1>3 DEF CallerMove, contextVars

LEMMA WorkflowCalls ==
  ASSUME RunInv, WorkflowStep, ~ExecuteTask
  PROVE  CallerMove
<1>1. UNCHANGED <<model_calls, tool_calls, effects>>
  BY DEF WorkflowStep, RequestPlan, ReceivePlan, ValidatePlan, PlanRefused, PlanValidated,
         PlanApproved, StartPipeline, NextTask, TaskApproved, TaskReady, RouteTask, StartTask,
         KeepArtifact, Finalize, ReceiveFinalOutput, ClosePipeline, below, taskVars, contextVars,
         budgetVars
<1>2. CallersTurn
  <2>1. Running /\ FramesInv
    BY DEF RunInv, WorkflowStep, RequestPlan, ReceivePlan, ValidatePlan, PlanRefused,
           PlanValidated, PlanApproved, StartPipeline, NextTask, TaskApproved, TaskReady,
           RouteTask, StartTask, KeepArtifact, Finalize, ReceiveFinalOutput, ClosePipeline, On
  <2>2. CASE ReceivePlan \/ ReceiveFinalOutput
    BY <2>1, <2>2 DEF ReceivePlan, ReceiveFinalOutput, On, Returned, FramesInv, ToolWaitedFor,
                      CallersTurn
  <2>3. CASE PlanApproved \/ TaskApproved
    BY <2>1, <2>3 DEF PlanApproved, TaskApproved, On, FramesInv, CallWaitedFor, ToolWaitedFor,
                      CallersTurn
  <2>4. CASE KeepArtifact
    BY <2>1, <2>4 DEF KeepArtifact, On, TaskDone, At, FramesInv, CallWaitedFor, ToolWaitedFor,
                      CallersTurn
  <2>5. CASE \/ RequestPlan \/ ValidatePlan \/ PlanRefused \/ PlanValidated \/ StartPipeline
             \/ NextTask \/ TaskReady \/ RouteTask \/ StartTask \/ Finalize \/ ClosePipeline
    <3>1. run.phase \notin Waiting
      BY <2>5 DEF RequestPlan, ValidatePlan, PlanRefused, PlanValidated, StartPipeline, NextTask,
                  TaskReady, RouteTask, StartTask, Finalize, ClosePipeline, On, Waiting
    <3> QED BY <2>1, <3>1, IdleFrames DEF Idle, CallersTurn
  <2> QED BY <2>2, <2>3, <2>4, <2>5 DEF WorkflowStep
<1>3. call' = call \/ call'.phase \in {"idle", "guard"}
  <2>1. call' \in {call, NoCall, Calling("Plan", 0), Calling("FinalOutput", 0)}
    BY DEF WorkflowStep, RequestPlan, ReceivePlan, ValidatePlan, PlanRefused, PlanValidated,
           PlanApproved, StartPipeline, NextTask, TaskApproved, TaskReady, RouteTask, StartTask,
           KeepArtifact, Finalize, ReceiveFinalOutput, ClosePipeline, below, taskVars,
           AskPlanner, AskFinalizer
  <2> QED BY <2>1, PhasesOfCalls
<1>4. tool' = tool \/ tool'.phase = "idle"
  <2>1. tool' \in {tool, NoTool}
    BY DEF WorkflowStep, RequestPlan, ReceivePlan, ValidatePlan, PlanRefused, PlanValidated,
           PlanApproved, StartPipeline, NextTask, TaskApproved, TaskReady, RouteTask, StartTask,
           KeepArtifact, Finalize, ReceiveFinalOutput, ClosePipeline, below, taskVars
  <2> QED BY <2>1, PhasesOfCalls
<1>5. Adds(CallerRows) /\ store_faults' \in {store_faults, store_faults + 1}
  <2>1. ASSUME NEW type \in CallerRows, NEW task, Emit(type, task, "")
        PROVE  Adds(CallerRows) /\ store_faults' \in {store_faults, store_faults + 1}
    BY <2>1, CallerEmits DEF Emit
  <2>2. CASE \/ RequestPlan \/ ReceivePlan \/ PlanValidated \/ TaskReady \/ ClosePipeline
    <3>1. \E type \in CallerRows, task \in {0, Current} : Emit(type, task, "")
      BY <2>2 DEF RequestPlan, ReceivePlan, PlanValidated, TaskReady, ClosePipeline, CallerRows,
                  WorkflowRows
    <3> QED BY <2>1, <3>1
  <2>3. CASE StartPipeline \/ RouteTask
    <3>1. \/ \E type \in CallerRows, task \in {0, Current} : Emit(type, task, "")
          \/ \E error : Raise(error)
      BY <2>3 DEF StartPipeline, RouteTask, CallerRows, WorkflowRows
    <3> QED BY <2>1, <3>1, QuietAdds DEF Raise
  <2>4. CASE \/ ValidatePlan \/ PlanRefused \/ PlanApproved \/ NextTask \/ TaskApproved
             \/ StartTask \/ KeepArtifact \/ Finalize \/ ReceiveFinalOutput
    BY <2>4, QuietAdds DEF ValidatePlan, PlanRefused, PlanApproved, NextTask, TaskApproved,
                           StartTask, KeepArtifact, Finalize, ReceiveFinalOutput, Raise,
                           taskVars, contextVars
  <2> QED BY <2>2, <2>3, <2>4 DEF WorkflowStep
<1> QED BY <1>1, <1>2, <1>3, <1>4, <1>5 DEF CallerMove

LEMMA ExecutorCalls ==
  ASSUME RunInv, ExecuteTask
  PROVE  CallerMove
<1> USE DEF At
<1>0. FramesInv /\ Running /\ run.phase = "executing" /\ ExecutorStep
  BY DEF RunInv, ExecuteTask, On
<1>1. UNCHANGED <<model_calls, tool_calls, effects>>
  BY <1>0 DEF ExecutorStep, BeginRevision, StartTools, NextTool, ContinueWork, AcceptProduct,
              SaveArtifact, AnnounceArtifact, RequestReview, RecordReview, CompleteTask,
              RequestRevision, budgetVars, contextVars
<1>2. CallersTurn
  <2>1. CASE StartTools \/ AcceptProduct \/ RecordReview
    BY <1>0, <2>1 DEF StartTools, AcceptProduct, RecordReview, Returned, FramesInv, ToolWaitedFor,
                      CallersTurn
  <2>2. CASE NextTool \/ ContinueWork
    BY <1>0, <2>2 DEF NextTool, ContinueWork, ToolDone, Phase, FramesInv, CallWaitedFor,
                      CallersTurn
  <2>3. CASE \/ BeginRevision \/ SaveArtifact \/ AnnounceArtifact \/ RequestReview
             \/ CompleteTask \/ RequestRevision
    BY <1>0, <2>3 DEF BeginRevision, SaveArtifact, AnnounceArtifact, RequestReview, CompleteTask,
                      RequestRevision, FramesInv, CallWaitedFor, ToolWaitedFor, CallersTurn
  <2> QED BY <1>0, <2>1, <2>2, <2>3 DEF ExecutorStep
<1>3. call' = call \/ call'.phase \in {"idle", "guard"}
  <2>1. call' \in {call, NoCall, Calling("WorkProduct", work.task), Calling("Review", work.task)}
    BY <1>0 DEF ExecutorStep, BeginRevision, StartTools, NextTool, ContinueWork, AcceptProduct,
                SaveArtifact, AnnounceArtifact, RequestReview, RecordReview, CompleteTask,
                RequestRevision, AskSpecialist, AskCritic
  <2> QED BY <2>1, PhasesOfCalls
<1>4. tool' = tool \/ tool'.phase \in {"idle", "called"}
  <2>1. CASE StartTools \/ NextTool
    BY <2>1, PhasesOfCalls DEF StartTools, NextTool
  <2>2. CASE ContinueWork
    BY <2>2, PhasesOfCalls DEF ContinueWork
  <2>3. CASE ~StartTools /\ ~NextTool /\ ~ContinueWork
    BY <1>0, <2>3 DEF ExecutorStep, BeginRevision, AcceptProduct, SaveArtifact, AnnounceArtifact,
                      RequestReview, RecordReview, CompleteTask, RequestRevision
  <2> QED BY <2>1, <2>2, <2>3
<1>5. Adds(CallerRows) /\ store_faults' \in {store_faults, store_faults + 1}
  <2>1. CASE \/ BeginRevision \/ AnnounceArtifact \/ RequestReview \/ RecordReview
             \/ CompleteTask \/ RequestRevision
    <3>1. \E type \in CallerRows : \E note, error : EmitThen(type, work.task, note, error)
      BY <2>1 DEF BeginRevision, AnnounceArtifact, RequestReview, RecordReview, CompleteTask,
                  RequestRevision, Emit, CallerRows, ExecutorRows
    <3> QED BY <3>1, CallerEmits
  <2>2. CASE StartTools \/ NextTool \/ ContinueWork \/ AcceptProduct \/ SaveArtifact
    BY <2>2, QuietAdds DEF StartTools, NextTool, ContinueWork, AcceptProduct, SaveArtifact,
                           StoreArtifact, Quiet, StoreRaises, contextVars
  <2> QED BY <1>0, <2>1, <2>2 DEF ExecutorStep
<1> QED BY <1>1, <1>2, <1>3, <1>4, <1>5 DEF CallerMove

(* A step is of the agent's call, of the tool call, or of a caller.        *)
AgentMove ==
  (AgentStep \/ CancelCall) /\ UNCHANGED <<approval, tool, effects, tool_calls>>
ToolMove == ToolStep /\ UNCHANGED <<call, model_calls>>

LEMMA MoveKinds ==
  ASSUME RunInv, [Next]_vars
  PROVE  AgentMove \/ ToolMove \/ CallerMove
<1>1. CASE ConductorStep \/ WorkflowStep
  BY <1>1, ConductorCalls, WorkflowCalls, ExecutorCalls
<1>2. CASE AgentStep /\ AgentFrame
  <2>1. UNCHANGED tool_calls
    BY <1>2 DEF AgentStep, GuardRefuses, RequestModel, AnswerParses, AnswerMalformed,
                ProviderFails, RejectOutput, budgetVars
  <2> QED BY <1>2, <2>1 DEF AgentFrame, AgentMove
<1>3. CASE CancelCall /\ UNCHANGED <<approval, tool, effects, work, artifacts>>
  BY <1>3 DEF CancelCall, budgetVars, AgentMove
<1>4. CASE ToolStep /\ UNCHANGED call
  <2>1. UNCHANGED model_calls
    BY <1>4 DEF ToolStep, BrokerStep, RefuseTool, BudgetRefusesTool, RequestTool, ToolApproved,
                ToolSucceeds, ToolFails, ApprovalStep, RequestApproval, Decide,
                ProviderUnavailable, CancelApproval, budgetVars, contextVars
  <2> QED BY <1>4, <2>1 DEF ToolMove
<1>5. CASE (ClockPasses /\ UNCHANGED below) \/ UNCHANGED vars
  BY <1>5, QuietAdds DEF ClockPasses, below, vars, taskVars, contextVars, CallerMove
<1> QED BY <1>1, <1>2, <1>3, <1>4, <1>5
        DEF Next, RunStep, CallStep, AgentFrame, Cancel, ToolStep, GateStep

LEMMA AgentEmits ==
  ASSUME AgentMove
  PROVE  Adds(CallRows) /\ Running /\ call.phase # "idle"
<1>1. CASE GuardRefuses \/ CancelCall
  BY <1>1, QuietAdds DEF GuardRefuses, CancelCall, Raise
<1>2. CASE \/ RequestModel \/ AnswerParses \/ AnswerMalformed \/ ProviderFails \/ RejectOutput
  <2>1. PICK type \in CallRows : \E error : EmitThen(type, call.task, call.schema, error)
    BY <1>2 DEF RequestModel, AnswerParses, AnswerMalformed, ProviderFails, RejectOutput, Emit,
                CallRows
  <2>2. Adds({type})
    BY <2>1, EmitAdds
  <2>3. Adds(CallRows)
    BY <2>2, AddsMore
  <2> QED BY <1>2, <2>3
          DEF RequestModel, AnswerParses, AnswerMalformed, ProviderFails, RejectOutput
<1> QED BY <1>1, <1>2 DEF AgentMove, AgentStep

LEMMA ToolEmitsRows ==
  ASSUME ToolMove
  PROVE  /\ Adds(ToolRows) /\ Running
         /\ tool.phase # "idle" \/ approval.phase # "idle"
         /\ store_faults' \in {store_faults, store_faults + 1}
<1> USE DEF Phase
<1>1. CASE \/ RefuseTool \/ BudgetRefusesTool \/ ToolApproved
           \/ ProviderUnavailable \/ CancelApproval
  BY <1>1, QuietAdds DEF RefuseTool, BudgetRefusesTool, ToolApproved, ProviderUnavailable,
                         CancelApproval, Raise, contextVars
<1>2. ASSUME NEW type \in ToolRows, NEW task, NEW note, NEW error,
             EmitThen(type, task, note, error)
      PROVE  Adds(ToolRows) /\ store_faults' \in {store_faults, store_faults + 1}
  <2>1. Adds({type})
    BY <1>2, EmitAdds
  <2>2. Adds(ToolRows)
    BY <2>1, AddsMore
  <2> QED BY <1>2, <2>2 DEF EmitThen, Appended, StoreRaises
<1>3. CASE RequestTool \/ ToolSucceeds \/ ToolFails \/ RequestApproval \/ Decide
  <2>1. \E type \in ToolRows : \E task, note, error : EmitThen(type, task, note, error)
    BY <1>3 DEF RequestTool, ToolSucceeds, ToolFails, RequestApproval, Decide, Emit, ToolRows
  <2> QED BY <1>2, <1>3, <2>1
          DEF RequestTool, ToolSucceeds, ToolFails, RequestApproval, Decide
<1> QED BY <1>1, <1>3 DEF ToolMove, ToolStep, BrokerStep, ApprovalStep

(* Only rows of its own kind move a count or the audit of a kind of rows.  *)
LEMMA OthersNotCounted ==
  ASSUME NEW type, NEW types, Adds(types), type \notin types
  PROVE  OfType(type)' = OfType(type) /\ Count(type)' = Count(type)
<1>1. OfType(type)' = OfType(type)
  BY DEF Adds, OfType
<1> QED BY <1>1 DEF Count

LEMMA AuditStays ==
  ASSUME AuditInv, LogInv, store_faults \in Nat, store_faults' \in {store_faults, store_faults + 1},
         NEW types, Adds(types), types \cap CallRows = {}, Running' => Running,
         \/ call.phase \notin {"waiting", "invalid"}
         \/ raised \in Errors
         \/ UNCHANGED <<sequence, events, raised, store_faults, call>>,
         call' = call \/ call'.phase \in {"idle", "guard"}
  PROVE  AuditInv'
<1>1. events \subseteq events' /\ sequence \in Nat
  BY AddsKeepsLog DEF LogInv
<1>2. \A e \in events' : e.type \in CallRows => e \in events
  BY DEF Adds
<1>3. \A t \in CallRows : OfType(t)' = OfType(t)
  BY OthersNotCounted
<1>4. RequestsAnswered'
  <2>1. SUFFICES ASSUME NEW e \in OfType("model.requested")
                 PROVE  \/ \E f \in events' : /\ f.sequence = e.sequence + 1
                                              /\ f.type \in Outcomes /\ f.note = e.note
                        \/ /\ e.sequence = sequence' /\ call'.phase = "waiting"
                           /\ raised' \in {"none", Cancelled}
                        \/ store_faults' > 0
    BY <1>3 DEF RequestsAnswered, CallRows
  <2>2. CASE \E f \in events : f.sequence = e.sequence + 1 /\ f.type \in Outcomes /\ f.note = e.note
    BY <1>1, <2>2
  <2>3. CASE e.sequence = sequence /\ call.phase = "waiting" /\ raised \in {"none", Cancelled}
    BY <2>3 DEF Errors, Cancelled
  <2>4. CASE store_faults > 0
    BY <2>4
  <2> QED BY <2>1, <2>2, <2>3, <2>4 DEF AuditInv, AuditTrailComplete, RequestsAnswered
<1>5. OutcomesRequested' /\ InvalidsCompleted'
  BY <1>2, <1>3 DEF AuditInv, AuditTrailComplete, OutcomesRequested, InvalidsCompleted, OfType,
                    CallRows, Outcomes
<1>6. Awaited' /\ InvalidLast'
  <2>1. CASE Running' /\ call'.phase \in {"waiting", "invalid"}
    <3>1. UNCHANGED <<sequence, events, call>> /\ Running
      BY <2>1 DEF Running, Errors
    <3> QED BY <3>1 DEF AuditInv, Awaited, InvalidLast, OfType
  <2> QED BY <2>1 DEF Awaited, InvalidLast
<1> QED BY <1>4, <1>5, <1>6 DEF AuditInv, AuditTrailComplete

(* One at a time: a model call or a tool call with its approval.           *)
LEMMA OneCallAtATime ==
  ASSUME FramesInv, Running
  PROVE  call.phase = "idle" \/ (tool.phase = "idle" /\ approval.phase = "idle")
BY DEF FramesInv, CallWaitedFor, ApprovalWaitedFor, ToolWaitedFor

RunCallsInv == EffectInv /\ CountInv /\ ModelCallsWithinBudget /\ AuditInv

LEMMA RunCallsStep ==
  ASSUME RunInv, RunInv', LogInv, RunTypesInv, RunCallsInv, [Next]_vars
  PROVE  RunCallsInv'
<1>0. /\ FramesInv /\ OwnApproval' /\ CallInv /\ ToolTypes /\ store_faults \in Nat
      /\ EffectInv /\ CountInv /\ ModelCallsWithinBudget /\ AuditInv
  <2>1. CallInv /\ ToolTypes
    BY DEF RunTypesInv, FrameTypes, CallInv, ToolTypes
  <2>2. store_faults \in Nat
    BY <2>1, BudgetAssumption DEF CallInv, HistoryInv, HistoryTypeOK
  <2>3. FramesInv /\ OwnApproval'
    BY DEF RunInv, FramesInv, ApprovalWaitedFor, ToolWaitedFor, OwnApproval
  <2> QED BY <2>1, <2>2, <2>3 DEF RunCallsInv
<1>r. Running' => Running
  BY RunningStays
<1>m. ASSUME NEW types, Adds(types), "model.requested" \notin types, model_calls' = model_calls
      PROVE  ModelCallsWithinBudget'
  BY <1>0, <1>m, OthersNotCounted DEF ModelCallsWithinBudget
<1>1. CASE AgentMove
  <2>1. Adds(CallRows) /\ Running /\ tool.phase = "idle"
    BY <1>0, <1>1, AgentEmits, OneCallAtATime
  <2>2. AgentNext /\ UNCHANGED <<tool, effects, tool_calls>>
    BY <1>1 DEF AgentMove, AgentNext
  <2>3. ModelCallsWithinBudget' /\ AuditInv'
    BY <1>0, <2>2, BudgetStep, AuditStep
  <2>4. events \subseteq events' /\ Count("tool.requested")' = Count("tool.requested")
    BY <2>1, AddsKeepsLog, OthersNotCounted DEF CallRows
  <2>5. EffectInv' /\ CountInv'
    BY <1>0, <1>r, <2>1, <2>2, <2>4, CallerKeepsEffects, CallerKeepsCount
  <2> QED BY <2>3, <2>5 DEF RunCallsInv
<1>2. CASE ToolMove
  <2>1. /\ Adds(ToolRows) /\ call.phase = "idle" /\ UNCHANGED <<call, model_calls>>
        /\ store_faults' \in {store_faults, store_faults + 1} /\ ToolStep
    BY <1>0, <1>2, ToolEmitsRows, OneCallAtATime DEF ToolMove
  <2>2. EffectInv' /\ CountInv'
    BY <1>0, <2>1, ToolKeepsEffects, ToolKeepsCount
  <2>3. ModelCallsWithinBudget'
    BY <1>m, <2>1 DEF ToolRows
  <2>4. ToolRows \cap CallRows = {}
    BY DEF ToolRows, CallRows
  <2>5. AuditInv'
    BY <1>0, <1>r, <2>1, <2>4, AuditStays
  <2> QED BY <2>2, <2>3, <2>5 DEF RunCallsInv
<1>3. CASE CallerMove
  <2>1. /\ Adds(CallerRows) /\ UNCHANGED <<model_calls, tool_calls, effects>>
        /\ store_faults' \in {store_faults, store_faults + 1}
        /\ call' = call \/ call'.phase \in {"idle", "guard"}
        /\ tool' = tool \/ tool'.phase \in {"idle", "called"}
    BY <1>3 DEF CallerMove
  <2>2. CallerRows \cap CallRows = {} /\ "tool.requested" \notin CallerRows
    BY DEF CallerRows, WorkflowRows, ExecutorRows, CallRows
  <2>3. events \subseteq events' /\ Count("tool.requested")' = Count("tool.requested")
    BY <2>1, <2>2, AddsKeepsLog, OthersNotCounted
  <2>4. \/ Running' => tool'.phase \notin {"approving", "executing"}
        \/ UNCHANGED <<sequence, approval, tool>>
    BY <1>r, <1>3, <2>1 DEF CallerMove, CallersTurn, Running, Errors
  <2>5. EffectInv' /\ CountInv'
    BY <1>0, <1>r, <2>1, <2>3, <2>4, CallerKeepsEffects, CallerKeepsCount
  <2>6. \/ call.phase \notin {"waiting", "invalid"}
        \/ raised \in Errors
        \/ UNCHANGED <<sequence, events, raised, store_faults, call>>
    BY <1>3 DEF CallerMove, CallersTurn
  <2>7. AuditInv'
    BY <1>0, <1>r, <2>1, <2>2, <2>6, AuditStays
  <2>8. ModelCallsWithinBudget'
    <3>1. "model.requested" \notin CallerRows
      BY DEF CallerRows, WorkflowRows, ExecutorRows
    <3> QED BY <1>m, <2>1, <3>1
  <2> QED BY <2>5, <2>7, <2>8 DEF RunCallsInv
<1> QED BY <1>1, <1>2, <1>3, MoveKinds

LEMMA RunCallsInit ==
  ASSUME Init
  PROVE  RunCallsInv
<1>1. OfType("model.requested") = {}
  BY DEF Init, ContextInit, OfType
<1>2. ModelCallsWithinBudget
  <2>1. Count("model.requested") = 0
    BY <1>1, FS_EmptySet DEF Count
  <2> QED BY <2>1, BudgetAssumption DEF Init, ContextInit, ModelCallsWithinBudget
<1>3. AuditInv
  BY DEF Init, ContextInit, AgentInit, NoCall, AuditInv, AuditTrailComplete, RequestsAnswered,
         OutcomesRequested, InvalidsCompleted, Awaited, InvalidLast, OfType
<1> QED BY <1>2, <1>3, ToolInvInit DEF Init, RunCallsInv

(* All of it together, for the runs of a team. *)
RunGuarantees == RunInv /\ LogInv /\ TrailInv /\ TaskInv /\ RunTypesInv /\ RunCallsInv

LEMMA RunGuaranteesInit == Init => RunGuarantees
BY RunTypesInit, StoryInvInit, TaskInvInit, RunCallsInit DEF RunGuarantees

LEMMA RunGuaranteesStep == RunGuarantees /\ [Next]_vars => RunGuarantees'
BY TaskInvStep, RunTypesStep, RunCallsStep DEF RunGuarantees, TaskInv

LEMMA RunGuaranteed == Spec => []RunGuarantees
BY RunGuaranteesInit, RunGuaranteesStep, PTL DEF Spec

(* Types, for a whole run: among them that what was accepted is stored,    *)
(* and that whoever runs a task is one of the team.                        *)
THEOREM RunTypeCorrect == Spec => []RunTypeOK
<1>1. RunGuarantees => RunTypeOK
  BY FrameTypesOK DEF RunGuarantees, TaskInv, PlannerInv, PlanInv, WorkInv, RunInv, StoryInv,
                      RowFits, RunTypesInv, RunTypeOK
<1> QED BY <1>1, RunGuaranteed, PTL

(* The log of a whole run stays sound whatever the store does: numbers are *)
(* unique, and a missing one is a store fault.                             *)
THEOREM RunHistoryIntact == Spec => []HistoryIntact
<1>1. RunGuarantees => HistoryIntact
  BY DEF RunGuarantees, RunTypesInv, FrameTypes, CallInv, HistoryInv
<1> QED BY <1>1, RunGuaranteed, PTL

(* Whichever task asks for it, a gated tool takes effect only after an     *)
(* approval of that very call was requested and given.                     *)
THEOREM RunEffectsApproved == Spec => []GatedEffectsApproved
<1>1. RunGuarantees => GatedEffectsApproved
  BY EffectInvImplies DEF RunGuarantees, RunTypesInv, FrameTypes, CallInv, ToolTypes, RunCallsInv
<1> QED BY <1>1, RunGuaranteed, PTL

(* All the tasks of a run together stay within its tool call budget.       *)
THEOREM RunEffectsWithinBudget == Spec => []EffectsWithinBudget
<1>1. RunGuarantees => EffectsWithinBudget
  BY EffectInvImplies DEF RunGuarantees, RunTypesInv, FrameTypes, CallInv, ToolTypes, RunCallsInv
<1> QED BY <1>1, RunGuaranteed, PTL

(* Planner, specialists, critic and finalizer together stay within the     *)
(* model call budget of the run.                                           *)
THEOREM RunModelCallsWithinBudget == Spec => []ModelCallsWithinBudget
<1>1. RunGuarantees => ModelCallsWithinBudget
  BY DEF RunGuarantees, RunCallsInv
<1> QED BY <1>1, RunGuaranteed, PTL

(* Every model call of a run is accounted for in its log, in order, unless *)
(* the call is in progress, was cut short by a cancellation, or the store  *)
(* raised.                                                                 *)
THEOREM RunAuditTrailComplete == Spec => []AuditTrailComplete
<1>1. RunGuarantees => AuditTrailComplete
  BY DEF RunGuarantees, RunCallsInv, AuditInv
<1> QED BY <1>1, RunGuaranteed, PTL

-----------------------------------------------------------------------------
(* What the executor guarantees in a whole run, where it executes task     *)
(* after task on one log (ExecutorInv is about one of them).  It starts    *)
(* each with a log that says nothing of it: a task still to do has left no *)
(* row and no artifact, because a plan's tasks are done once each, and     *)
(* while one is done the rows are its own.                                 *)

Untouched(id) ==
  \/ run.phase \in Early
  \/ /\ run.phase \in LoopPhases
     /\ \E i \in DOMAIN run.todo : run.todo[i] = id /\ (i = 1 => run.phase # "executing")

ToolOfTask == Running /\ tool.phase # "idle" => tool.task = work.task

FreshInv == ToolOfTask /\ \A id : Untouched(id) => Fresh(id)

LEMMA FreshStays ==
  ASSUME NEW id, Fresh(id), EmitsNone(id), ArtifactsOf(id)' = ArtifactsOf(id)
  PROVE  Fresh(id)'
BY DEF Fresh, EmitsNone

LEMMA ExecutesUntilDone ==
  ASSUME FramesInv, [Next]_vars, run.phase = "executing", run'.phase \in LoopPhases
  PROVE  KeepArtifact \/ run'.phase = "executing"
<1> USE DEF LoopPhases, Busy
<1>1. CASE FailRun \/ SaveFailed \/ CancelledRun
  BY <1>1, GoesOn DEF FailRun, SaveFailed, CancelledRun
<1>2. CASE run' = run
  BY <1>2
<1> QED BY <1>1, <1>2
        DEF Next, RunStep, ConductorStep, CreateRun, StartRun, CompleteRun, SaveSucceeded,
            WorkflowStep, RequestPlan, ReceivePlan, ValidatePlan, PlanRefused, PlanValidated,
            PlanApproved, StartPipeline, NextTask, TaskApproved, TaskReady, RouteTask, StartTask,
            ExecuteTask, Finalize, ReceiveFinalOutput, ClosePipeline, CallStep, On, vars

LEMMA UntouchedBefore ==
  ASSUME RunInv, LoopInv, [Next]_vars, NEW id, Untouched(id)'
  PROVE  Untouched(id)
<1>1. FramesInv /\ ShapeInv
  BY DEF RunInv, FramesInv
<1>2. CASE KeepArtifact
  <2>1. /\ run.phase = "executing" /\ run'.phase = "scheduling" /\ run'.todo = Tail(run.todo)
        /\ run.phase \in LoopPhases /\ run.todo # <<>> /\ run.todo \in Seq(Ids(plan))
    BY <1>1, <1>2 DEF KeepArtifact, On, ShapeInv, LoopInv, Loop, LoopPhases, Busy
  <2>2. PICK i \in DOMAIN Tail(run.todo) : Tail(run.todo)[i] = id
    BY <2>1 DEF Untouched, Early, Unplanned
  <2>3. i + 1 \in DOMAIN run.todo /\ run.todo[i + 1] = id /\ i + 1 # 1
    BY <2>1, <2>2, LenProperties, HeadTailProperties
  <2> QED BY <2>1, <2>3 DEF Untouched
<1>3. CASE PlanValidated \/ StartPipeline
  <2>1. run.phase \in {"validating", "pipeline"}
    BY <1>3 DEF PlanValidated, StartPipeline, On
  <2> QED BY <2>1 DEF Untouched, Early, Unplanned
<1>4. CASE PhaseKept /\ TasksKept /\ ~KeepArtifact
  <2>1. CASE run'.phase \in Early
    BY <1>4, <2>1 DEF PhaseKept, Untouched
  <2>2. CASE run'.phase \notin Early
    <3>1. /\ run'.phase \in LoopPhases
          /\ \E i \in DOMAIN run.todo : run.todo[i] = id /\ (i = 1 => run'.phase # "executing")
      BY <1>4, <2>2 DEF Untouched, TasksKept
    <3>2. run.phase \in LoopPhases /\ (run.phase = "executing" => run'.phase = "executing")
      BY <1>1, <1>4, <3>1, ExecutesUntilDone DEF PhaseKept
    <3> QED BY <3>1, <3>2 DEF Untouched
  <2> QED BY <2>1, <2>2
<1> QED BY <1>1, <1>2, <1>3, <1>4, RunMove

LEMMA CurrentTouched ==
  ASSUME LoopInv, run.phase = "executing"
  PROVE  ~Untouched(Current)
<1>1. /\ run.todo \in Seq(Ids(plan)) /\ Distinct(run.todo) /\ run.todo # <<>>
      /\ run.phase \notin Early
  BY DEF LoopInv, Loop, LoopPhases, Busy, Early, Unplanned
<1>2. 1 \in DOMAIN run.todo /\ Current = run.todo[1]
  BY <1>1, LenProperties, EmptySeq, HeadTailProperties DEF Current
<1> QED BY <1>1, <1>2 DEF Untouched, Distinct

(* No row of the conductor or of the workflow is about an attempt.         *)
LEMMA WorkflowSilent ==
  ASSUME ConductorStep \/ (WorkflowStep /\ ~ExecuteTask), NEW id
  PROVE  EmitsNone(id)
<1>1. ASSUME NEW type \in WorkflowRows, NEW task, NEW note, Emit(type, task, note)
      PROVE  EmitsNone(id)
  BY <1>1, OtherRowEmitted DEF Emit, WorkflowRows, TaskRows
<1>2. CASE \/ CreateRun \/ StartRun \/ CompleteRun \/ FailRun
           \/ RequestPlan \/ ReceivePlan \/ PlanValidated \/ ClosePipeline
  <2>1. \E type \in WorkflowRows : \E note : Emit(type, 0, note)
    BY <1>2 DEF CreateRun, StartRun, CompleteRun, FailRun, RequestPlan, ReceivePlan,
                PlanValidated, ClosePipeline, WorkflowRows
  <2> QED BY <1>1, <2>1
<1>3. CASE StartPipeline \/ TaskReady \/ RouteTask
  <2>1. \/ \E type \in WorkflowRows : \E task \in {0, Current} : Emit(type, task, "")
        \/ \E error : Raise(error)
    BY <1>3 DEF StartPipeline, TaskReady, RouteTask, WorkflowRows
  <2>2. CASE \E error : Raise(error)
    BY <2>2 DEF Raise, EmitsNone
  <2> QED BY <1>1, <2>1, <2>2
<1>4. CASE \/ SaveSucceeded \/ SaveFailed \/ CancelledRun \/ ValidatePlan \/ PlanRefused
           \/ PlanApproved \/ NextTask \/ TaskApproved \/ StartTask \/ KeepArtifact
           \/ Finalize \/ ReceiveFinalOutput
  BY <1>4 DEF SaveSucceeded, SaveFailed, SaveRun, Quiet, StoreRaises, CancelledRun, ValidatePlan,
              PlanRefused, Raise, PlanApproved, NextTask, TaskApproved, StartTask, KeepArtifact,
              Finalize, ReceiveFinalOutput, taskVars, contextVars, EmitsNone
<1> QED BY <1>2, <1>3, <1>4 DEF ConductorStep, WorkflowStep

LEMMA FramesLeft ==
  ASSUME ConductorStep \/ (WorkflowStep /\ ~ExecuteTask /\ ~StartTask /\ ~KeepArtifact)
  PROVE  UNCHANGED <<tool, work, artifacts>>
<1>1. CASE ConductorStep
  BY <1>1 DEF ConductorStep, CreateRun, StartRun, CompleteRun, SaveSucceeded, FailRun,
              SaveFailed, CancelledRun, below
<1>2. CASE WorkflowStep /\ ~ExecuteTask /\ ~StartTask /\ ~KeepArtifact
  BY <1>2 DEF WorkflowStep, RequestPlan, ReceivePlan, ValidatePlan, PlanRefused, PlanValidated,
              PlanApproved, StartPipeline, NextTask, TaskApproved, TaskReady, RouteTask, Finalize,
              ReceiveFinalOutput, ClosePipeline, below, taskVars
<1> QED BY <1>1, <1>2

LEMMA ToolOfTaskStep ==
  ASSUME RunInv, ToolOfTask, [Next]_vars
  PROVE  ToolOfTask'
<1>1. FramesInv /\ ShapeInv /\ (Running' => Running)
  BY RunningStays DEF RunInv, FramesInv
<1>2. CASE UNCHANGED <<tool, work>>
  BY <1>1, <1>2 DEF ToolOfTask
<1>3. CASE tool'.phase = "idle"
  BY <1>3 DEF ToolOfTask
<1>4. CASE ExecuteTask
  <2>0. /\ ExecutorStep
        /\ work = [phase |-> work.phase, task |-> work.task, allowed |-> work.allowed,
                   revision |-> work.revision, results |-> work.results,
                   requests |-> work.requests, usage |-> work.usage]
    BY <1>1, <1>4 DEF ShapeInv, ExecuteTask
  <2>1. work'.task = work.task
    BY <2>0 DEF ExecutorStep, BeginRevision, StartTools, NextTool, ContinueWork, AcceptProduct,
                SaveArtifact, AnnounceArtifact, RequestReview, RecordReview, CompleteTask,
                RequestRevision
  <2>2. CASE StartTools \/ NextTool
    <3>1. \E name : tool' = ToolCall(name, work.task, work.allowed)
      BY <2>2 DEF StartTools, NextTool
    <3>2. tool'.task = work.task
      BY <3>1 DEF ToolCall
    <3> QED BY <2>1, <3>2 DEF ToolOfTask
  <2>3. CASE ContinueWork
    BY <1>3, <2>3 DEF ContinueWork, NoTool
  <2>4. CASE ~StartTools /\ ~NextTool /\ ~ContinueWork
    <3>1. tool' = tool
      BY <2>0, <2>4 DEF ExecutorStep, BeginRevision, AcceptProduct, SaveArtifact,
                        AnnounceArtifact, RequestReview, RecordReview, CompleteTask,
                        RequestRevision
    <3> QED BY <1>1, <2>1, <3>1 DEF ToolOfTask
  <2> QED BY <2>2, <2>3, <2>4
<1>5. CASE BrokerStep /\ UNCHANGED work
  <2>1. Running /\ tool.phase # "idle" /\ tool'.task = tool.task
    BY <1>1, <1>5 DEF ShapeInv, BrokerStep, RefuseTool, BudgetRefusesTool, RequestTool,
              ToolApproved, ToolSucceeds, ToolFails, Phase
  <2> QED BY <1>5, <2>1 DEF ToolOfTask
<1>6. CASE StartTask
  <2>1. tool' = tool /\ tool.phase = "idle"
    BY <1>1, <1>6, IdleFrames DEF StartTask, On, Waiting, Idle
  <2> QED BY <1>3, <2>1
<1>7. CASE KeepArtifact
  BY <1>3, <1>7 DEF KeepArtifact, NoTool
<1>8. CASE ConductorStep \/ (WorkflowStep /\ ~ExecuteTask /\ ~StartTask /\ ~KeepArtifact)
  <2>1. UNCHANGED <<tool, work>>
    BY <1>8, FramesLeft
  <2> QED BY <1>2, <2>1
<1> QED BY <1>2, <1>4, <1>5, <1>6, <1>7, <1>8
        DEF Next, RunStep, CallStep, GateStep, Cancel, below, vars, taskVars

(* A step of a run is, to each task, what the executor's invariant takes   *)
(* it for.                                                                 *)
LEMMA RunMoves ==
  ASSUME RunInv, WorkInv, LoopInv, RunTypesInv, FreshInv, [Next]_vars, NEW id
  PROVE  Moves(id) /\ (Untouched(id)' => Fresh(id)')
<1>1. FramesInv /\ ShapeInv /\ Shapes /\ (Running' => Running)
  BY RunningStays, FrameShapes DEF RunInv, FramesInv, RunTypesInv
<1>2. Untouched(id)' => Fresh(id)
  BY UntouchedBefore DEF FreshInv
<1>3. ASSUME EmitsNone(id), UNCHANGED artifacts
      PROVE  ArtifactsOf(id)' = ArtifactsOf(id) /\ (Untouched(id)' => Fresh(id)')
  <2>1. ArtifactsOf(id)' = ArtifactsOf(id)
    BY <1>3 DEF ArtifactsOf
  <2> QED BY <1>2, <1>3, <2>1, FreshStays
<1>4. CASE ExecuteTask
  <2>1. Executes(id) \/ Elsewhere(id)
    BY <1>1, <1>4, ExecutorSeen DEF ExecuteTask
  <2>2. CASE Executes(id)
    <3>1. run.phase = "executing" /\ id = Current
      BY <1>4, <2>2 DEF ExecuteTask, On, Executes, Live, WorkInv
    <3> QED BY <2>2, <3>1, CurrentTouched, UntouchedBefore DEF Moves
  <2>3. CASE Elsewhere(id)
    BY <1>2, <2>3, FreshStays DEF Elsewhere, Moves
  <2> QED BY <2>1, <2>2, <2>3
<1>5. CASE StartTask
  <2>1. EmitsNone(id) /\ UNCHANGED <<sequence, events, artifacts, tool>>
    BY <1>5 DEF StartTask, EmitsNone
  <2>2. CASE UNCHANGED work
    BY <1>1, <1>3, <2>1, <2>2 DEF Waits, Moves
  <2>3. CASE work' = Execute(Current, SpecialistTools[run.agent])
    <3>1. /\ work'.phase = "starting" /\ work'.task = Current
          /\ work'.revision = 0 /\ work'.results = <<>>
      BY <2>3 DEF Execute
    <3>2. CASE id = Current
      <4>1. Untouched(Current)
        <5>1. /\ run.phase = "assigned" /\ run.phase \in LoopPhases /\ run.phase \in Busy
              /\ run.todo \in Seq(Ids(plan)) /\ run.todo # <<>>
          BY <1>5 DEF StartTask, On, LoopInv, Loop, LoopPhases, Busy
        <5>2. 1 \in DOMAIN run.todo /\ Current = run.todo[1]
          BY <5>1, LenProperties, EmptySeq, HeadTailProperties DEF Current
        <5> QED BY <5>1, <5>2 DEF Untouched
      <4>2. Fresh(id)
        BY <3>2, <4>1 DEF FreshInv
      <4> QED BY <1>3, <2>1, <3>1, <3>2, <4>2 DEF Assigns, Moves
    <3>3. CASE id # Current
      BY <1>3, <2>1, <3>1, <3>3 DEF Elsewhere, Live, Moves
    <3> QED BY <3>2, <3>3
  <2> QED BY <1>5, <2>2, <2>3 DEF StartTask
<1>6. CASE KeepArtifact
  <2>1. EmitsNone(id) /\ UNCHANGED artifacts /\ work'.phase = "idle"
    BY <1>6 DEF KeepArtifact, contextVars, EmitsNone, NoWork
  <2> QED BY <1>3, <2>1 DEF Elsewhere, Live, Moves
<1>7. CASE ConductorStep \/ (WorkflowStep /\ ~ExecuteTask /\ ~StartTask /\ ~KeepArtifact)
  <2>1. UNCHANGED <<tool, work, artifacts>>
    BY <1>7, FramesLeft
  <2>2. EmitsNone(id)
    BY <1>7, WorkflowSilent
  <2> QED BY <1>1, <1>3, <2>1, <2>2 DEF Waits, Moves
<1>8. CASE (AgentStep \/ CancelCall) /\ UNCHANGED <<tool, work, artifacts>>
  <2>1. Waits(id)
    BY <1>8, AgentStays
  <2> QED BY <1>3, <1>8, <2>1 DEF Waits, Moves
<1>9. CASE ToolStep /\ UNCHANGED <<work, artifacts>>
  <2>1. Running /\ (tool.phase # "idle" => ToolWaitedFor /\ tool.task = work.task)
    BY <1>1, <1>9, ToolRuns DEF FramesInv, FreshInv, ToolOfTask
  <2>2. Waits(id) \/ CompletesTool(id)
    BY <1>1, <1>9, <2>1, ToolMoves DEF ToolWaitedFor
  <2>3. CASE Waits(id)
    BY <1>3, <1>9, <2>3 DEF Waits, Moves
  <2>4. CASE CompletesTool(id)
    <3>1. run.phase = "executing" /\ id = Current
      BY <2>1, <2>4 DEF CompletesTool, Live, ToolSucceeds, Phase, ToolWaitedFor, WorkInv
    <3> QED BY <2>4, <3>1, CurrentTouched, UntouchedBefore DEF Moves
  <2> QED BY <2>2, <2>3, <2>4
<1>10. CASE UNCHANGED <<sequence, events, raised, tool, work, artifacts>>
  BY <1>1, <1>3, <1>10 DEF EmitsNone, Waits, Moves
<1> QED BY <1>4, <1>5, <1>6, <1>7, <1>8, <1>9, <1>10
        DEF Next, RunStep, CallStep, ToolStep, GateStep, Cancel, ClockPasses, below, vars,
            taskVars, contextVars

LEMMA FreshInit ==
  ASSUME Init
  PROVE  FreshInv /\ \A id : ExecutorInv(id)
<1>1. /\ events = {} /\ artifacts = {} /\ work.phase = "idle" /\ tool.phase = "idle"
  BY DEF Init, ContextInit, BrokerInit, TaskInit, NoWork, NoTool
<1> QED BY <1>1, ExecutorInvInit DEF FreshInv, ToolOfTask, Fresh, ArtifactsOf

RunTasksInv == RunGuarantees /\ FreshInv /\ \A id : ExecutorInv(id)

LEMMA RunTasksGuaranteed == Spec => []RunTasksInv
<1>1. Init => RunTasksInv
  BY FreshInit, RunGuaranteesInit DEF RunTasksInv
<1>2. RunTasksInv /\ [Next]_vars => RunTasksInv'
  <2> SUFFICES ASSUME RunTasksInv, [Next]_vars PROVE RunTasksInv'
    OBVIOUS
  <2>1. /\ RunGuarantees /\ RunGuarantees' /\ RunInv /\ WorkInv /\ LoopInv /\ RunTypesInv
        /\ FreshInv /\ ToolOfTask /\ FrameTypes /\ FrameTypes'
    BY RunGuaranteesStep DEF RunTasksInv, RunGuarantees, TaskInv, RunTypesInv, FreshInv
  <2>2. ToolOfTask' /\ \A id : Moves(id) /\ (Untouched(id)' => Fresh(id)')
    BY <2>1, ToolOfTaskStep, RunMoves
  <2>3. \A id : ExecutorInv(id)'
    BY <2>1, <2>2, ExecutorInvStep DEF RunTasksInv
  <2> QED BY <2>1, <2>2, <2>3 DEF RunTasksInv, FreshInv
<1> QED BY <1>1, <1>2, PTL DEF Spec

(* No task of a run is attempted again unless its review asked for it,     *)
(* whatever was executed on the same log before.                           *)
THEOREM RunRevisionsOnRequest == Spec => []RevisionsOnRequest
<1>1. RunTasksInv => RevisionsOnRequest
  BY ExecutorInvImplies DEF RunTasksInv, RunGuarantees, RunTypesInv
<1> QED BY <1>1, RunTasksGuaranteed, PTL

(* Each revision of each task of a run leaves at most one artifact.        *)
THEOREM RunArtifactsStaySingle == Spec => []OneArtifactPerRevision
<1>1. RunTasksInv => OneArtifactPerRevision
  BY ExecutorInvImplies DEF RunTasksInv, RunGuarantees, RunTypesInv
<1> QED BY <1>1, RunTasksGuaranteed, PTL

(* Every task a run completes was passed by the review of the artifact of  *)
(* its own last attempt, never on another task's review.                   *)
THEOREM RunCompletionsReviewed == Spec => []CompletedMeansReviewed
<1>1. RunTasksInv => CompletedMeansReviewed
  BY ExecutorInvImplies DEF RunTasksInv, RunGuarantees, RunTypesInv
<1> QED BY <1>1, RunTasksGuaranteed, PTL

(* An artifact carries the tool observations of its own task and revision. *)
THEOREM RunObservationsInRevision == Spec => []ObservationsOfRevision
<1>1. RunTasksInv => ObservationsOfRevision
  BY ExecutorInvImplies DEF RunTasksInv, RunGuarantees, RunTypesInv
<1> QED BY <1>1, RunTasksGuaranteed, PTL
=============================================================================
