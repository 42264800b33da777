--------------------------- MODULE TeamRunProofs ----------------------------
(***************************************************************************)
(* Proofs about TeamRun, for any plans, answers, tools, limits and number  *)
(* of store faults: the run, its row and its log tell one story            *)
(* (OutcomeConsistent), and they are a RunLifecycle.                       *)
(*                                                                         *)
(* Two facts carry the rest.  Only the frame on top moves (FramesInv): a   *)
(* model call, a tool call or an approval is in progress only while the    *)
(* workflow waits for it, so nothing below can raise once the conductor    *)
(* records an outcome.  And what the log and the row may say follows from  *)
(* how far the conductor is and whether the store has failed (StoryInv).   *)
(***************************************************************************)
EXTENDS TeamRun, TaskExecutionProofs

RunTypes == {"run.created", "run.started", "run.completed", "run.failed"}
Begun == {"run.created", "run.started"}

(* Where the workflow is, or where the conductor waits for its result. *)
Waiting == {"planning", "approving", "asking", "executing", "finalizing"}
Workflow ==
  {"plan_execute_review", "pipeline", "planning", "validating", "approving", "scheduling",
   "asking", "ready", "routing", "assigned", "executing", "finalizing", "closing"}
RunPhases == Workflow \cup {"new", "created", "completing", "saving", "failing", "ended"}

ShapeInv ==
  /\ run = [phase |-> run.phase, todo |-> run.todo, agent |-> run.agent,
            accepted |-> run.accepted, usage |-> run.usage]
  /\ work = [phase |-> work.phase, task |-> work.task, allowed |-> work.allowed,
             revision |-> work.revision, results |-> work.results, requests |-> work.requests,
             usage |-> work.usage]
  /\ call = [phase |-> call.phase, schema |-> call.schema, task |-> call.task,
             attempt |-> call.attempt, usage |-> call.usage, value |-> call.value]
  /\ tool = [phase |-> tool.phase, name |-> tool.name, task |-> tool.task,
             allowed |-> tool.allowed]
  /\ approval = [phase |-> approval.phase, action |-> approval.action, task |-> approval.task]

CallWaitedFor ==
  \/ run.phase \in {"planning", "finalizing"}
  \/ run.phase = "executing" /\ work.phase \in {"working", "reviewing"}
ToolWaitedFor == run.phase = "executing" /\ work.phase = "tools"
ApprovalWaitedFor ==
  \/ run.phase \in {"approving", "asking"}
  \/ ToolWaitedFor /\ tool.phase = "approving"

FramesInv ==
  /\ ShapeInv
  /\ run.phase \in RunPhases
  /\ Running => /\ call.phase # "idle" => CallWaitedFor
                /\ tool.phase # "idle" => ToolWaitedFor
                /\ approval.phase # "idle" => ApprovalWaitedFor

(* What a step of the workflow or of the frames below it may do to the log *)
(* and to the exception in flight.                                         *)
Ordinary ==
  /\ \/ UNCHANGED <<sequence, events>>
     \/ /\ sequence' = sequence + 1
        /\ \/ events' = events
           \/ \E e : events' = events \cup {e} /\ e.sequence = sequence + 1 /\ e.type \notin RunTypes
  /\ \/ raised' \in Errors \cup {"none"} /\ store_faults' = store_faults
     \/ StoreRaises

-----------------------------------------------------------------------------
LEMMA OrdinaryEmit ==
  ASSUME NEW type, NEW task, NEW note, NEW error, type \notin RunTypes,
         error \in Errors \cup {"none"}, EmitThen(type, task, note, error)
  PROVE  Ordinary
BY DEF EmitThen, Appended, Row, Ordinary

LEMMA OrdinaryRaise ==
  ASSUME NEW error \in Errors, Raise(error)
  PROVE  Ordinary
BY DEF Raise, Ordinary

LEMMA OrdinaryQuiet ==
  ASSUME Running, UNCHANGED <<sequence, events, raised, store_faults>>
  PROVE  Ordinary
BY DEF Running, Ordinary

AgentFrame == UNCHANGED <<approval, tool, effects, work, artifacts, planVars, run, row>>

LEMMA AgentMoves ==
  ASSUME FramesInv, AgentStep, AgentFrame
  PROVE  /\ Running /\ run.phase \in Waiting /\ Ordinary
         /\ FramesInv'
<1> USE DEF FramesInv, ShapeInv, CallWaitedFor, Waiting, Running, ToolWaitedFor, ApprovalWaitedFor
<1>0. Running /\ call.phase # "idle" /\ run.phase \in Waiting
  BY DEF AgentStep, GuardRefuses, RequestModel, AnswerParses, AnswerMalformed, ProviderFails,
         RejectOutput
<1>1. Ordinary
  <2>1. CASE GuardRefuses
    BY <2>1, OrdinaryRaise DEF GuardRefuses, Errors
  <2>2. CASE RequestModel
    BY <2>2, OrdinaryEmit DEF RequestModel, Emit, RunTypes
  <2>3. CASE AnswerParses
    BY <2>3, OrdinaryEmit DEF AnswerParses, Emit, RunTypes
  <2>4. CASE AnswerMalformed
    BY <2>4, OrdinaryEmit DEF AnswerMalformed, Emit, RunTypes
  <2>5. CASE ProviderFails
    BY <2>5, OrdinaryEmit DEF ProviderFails, RunTypes, Errors
  <2>6. CASE RejectOutput
    BY <2>6, OrdinaryEmit DEF RejectOutput, RunTypes, Errors
  <2> QED BY <2>1, <2>2, <2>3, <2>4, <2>5, <2>6 DEF AgentStep
<1>2. call' = [phase |-> call'.phase, schema |-> call'.schema, task |-> call'.task,
               attempt |-> call'.attempt, usage |-> call'.usage, value |-> call'.value]
  BY DEF AgentStep, GuardRefuses, RequestModel, AnswerParses, AnswerMalformed, ProviderFails,
         RejectOutput
<1> QED BY <1>0, <1>1, <1>2 DEF AgentFrame

BrokerFrame == UNCHANGED <<call, work, artifacts, planVars, run, row>>

LEMMA BrokerMoves ==
  ASSUME FramesInv, BrokerStep, BrokerFrame
  PROVE  /\ Running /\ run.phase \in Waiting /\ Ordinary
         /\ FramesInv'
<1> USE DEF Running, Phase
<1>0. /\ Running /\ ToolWaitedFor /\ run.phase \in Waiting
      /\ tool.phase \in {"called", "approving", "executing"}
      /\ approval.phase # "idle" => tool.phase = "approving"
      /\ call.phase = "idle"
  BY DEF FramesInv, BrokerStep, RefuseTool, BudgetRefusesTool, RequestTool, ToolApproved,
         ToolSucceeds, ToolFails, ToolWaitedFor, ApprovalWaitedFor, CallWaitedFor, Waiting
<1>1. Ordinary
  <2>1. CASE RefuseTool
    BY <2>1, OrdinaryRaise DEF RefuseTool, Errors
  <2>2. CASE BudgetRefusesTool
    BY <2>2, OrdinaryRaise DEF BudgetRefusesTool, Errors
  <2>3. CASE RequestTool
    BY <2>3, OrdinaryEmit DEF RequestTool, Emit, RunTypes
  <2>4. CASE ToolApproved
    BY <2>4, OrdinaryQuiet DEF ToolApproved, contextVars
  <2>5. CASE ToolSucceeds
    BY <2>5, OrdinaryEmit DEF ToolSucceeds, Emit, RunTypes
  <2>6. CASE ToolFails
    BY <2>6, OrdinaryEmit DEF ToolFails, RunTypes, Errors
  <2> QED BY <2>1, <2>2, <2>3, <2>4, <2>5, <2>6 DEF BrokerStep
<1>2. /\ tool' = [phase |-> tool'.phase, name |-> tool'.name, task |-> tool'.task,
                  allowed |-> tool'.allowed]
      /\ approval' = [phase |-> approval'.phase, action |-> approval'.action,
                      task |-> approval'.task]
  <2>1. ShapeInv
    BY DEF FramesInv
  <2> QED BY <2>1 DEF ShapeInv, BrokerStep, RefuseTool, BudgetRefusesTool, RequestTool,
          ToolApproved, ToolSucceeds, ToolFails, Asking, NoApproval
<1>3. Running' /\ approval'.phase # "idle" => tool'.phase = "approving"
  <2> USE DEF FramesInv, ShapeInv
  <2>1. CASE RefuseTool \/ BudgetRefusesTool
    BY <2>1 DEF RefuseTool, BudgetRefusesTool, Raise
  <2>2. CASE RequestTool
    BY <1>0, <2>2 DEF RequestTool
  <2>3. CASE ToolApproved
    BY <2>3 DEF ToolApproved, NoApproval
  <2>4. CASE ToolSucceeds
    BY <1>0, <2>4 DEF ToolSucceeds
  <2>5. CASE ToolFails
    BY <1>0, <2>5 DEF ToolFails
  <2> QED BY <2>1, <2>2, <2>3, <2>4, <2>5 DEF BrokerStep
<1> QED BY <1>0, <1>1, <1>2, <1>3
        DEF FramesInv, ShapeInv, BrokerFrame, ToolWaitedFor, ApprovalWaitedFor, CallWaitedFor

GateFrame == UNCHANGED <<call, work, artifacts, planVars, run, row>>

LEMMA GateMoves ==
  ASSUME FramesInv, GateStep, GateFrame
  PROVE  /\ Running /\ run.phase \in Waiting /\ Ordinary
         /\ FramesInv'
<1> USE DEF Running
<1>0. /\ Running /\ approval.phase \in {"asking", "waiting"}
      /\ run.phase \in Waiting /\ ApprovalWaitedFor
  BY DEF FramesInv, GateStep, ApprovalStep, RequestApproval, Decide, ProviderUnavailable,
         ToolWaitedFor, ApprovalWaitedFor, Waiting
<1>1. Ordinary
  <2>1. CASE RequestApproval
    BY <2>1, OrdinaryEmit DEF RequestApproval, Emit, RunTypes
  <2>2. CASE Decide
    <3>1. PICK approved \in Decisions :
            EmitThen("approval.completed", approval.task,
                     IF approved THEN "approved" ELSE "rejected",
                     IF approved THEN raised ELSE "ApprovalRejectedError")
      BY <2>2 DEF Decide
    <3> QED BY <1>0, <3>1, OrdinaryEmit DEF RunTypes, Errors
  <2>3. CASE ProviderUnavailable
    BY <2>3, OrdinaryRaise DEF ProviderUnavailable, Errors
  <2> QED BY <2>1, <2>2, <2>3 DEF GateStep, ApprovalStep
<1>2. approval' = [phase |-> approval'.phase, action |-> approval'.action, task |-> approval'.task]
  BY DEF FramesInv, ShapeInv, GateStep, ApprovalStep, RequestApproval, Decide,
         ProviderUnavailable
<1> QED BY <1>0, <1>1, <1>2
        DEF FramesInv, ShapeInv, GateStep, GateFrame, ToolWaitedFor, ApprovalWaitedFor, CallWaitedFor

-----------------------------------------------------------------------------
(* The executor's own steps. *)
LEMMA ExecutorMoves ==
  ASSUME FramesInv, On("executing"), ExecutorStep, UNCHANGED <<planVars, run, row>>
  PROVE  Ordinary /\ FramesInv'
<1> USE DEF Running, On, At, Returned, ToolDone, Phase
<1>0. /\ Running /\ run.phase = "executing"
      /\ call.phase # "idle" => work.phase \in {"working", "reviewing"}
      /\ tool.phase # "idle" => work.phase = "tools"
      /\ approval.phase # "idle" => work.phase = "tools" /\ tool.phase = "approving"
  BY DEF FramesInv, CallWaitedFor, ToolWaitedFor, ApprovalWaitedFor
<1>1. Ordinary
  <2>1. CASE BeginRevision
    BY <2>1, OrdinaryEmit DEF BeginRevision, Emit, RunTypes
  <2>2. CASE StartTools \/ NextTool \/ ContinueWork \/ AcceptProduct
    BY <2>2, OrdinaryQuiet DEF StartTools, NextTool, ContinueWork, AcceptProduct, contextVars
  <2>3. CASE SaveArtifact
    BY <2>3 DEF SaveArtifact, StoreArtifact, Quiet, Ordinary
  <2>4. CASE AnnounceArtifact
    BY <2>4, OrdinaryEmit DEF AnnounceArtifact, Emit, RunTypes
  <2>5. CASE RequestReview
    BY <2>5, OrdinaryEmit DEF RequestReview, Emit, RunTypes
  <2>6. CASE RecordReview
    BY <2>6, OrdinaryEmit DEF RecordReview, ReviewError, RunTypes, Errors
  <2>7. CASE CompleteTask
    BY <2>7, OrdinaryEmit DEF CompleteTask, Emit, RunTypes
  <2>8. CASE RequestRevision
    BY <2>8, OrdinaryEmit DEF RequestRevision, Emit, RunTypes
  <2> QED BY <2>1, <2>2, <2>3, <2>4, <2>5, <2>6, <2>7, <2>8 DEF ExecutorStep
<1>2. ShapeInv'
  <2>1. ShapeInv
    BY DEF FramesInv
  <2> USE DEF ShapeInv
  <2>2. CASE BeginRevision \/ RequestReview
    BY <2>1, <2>2 DEF BeginRevision, RequestReview, AskSpecialist, AskCritic, Calling
  <2>3. CASE StartTools \/ NextTool \/ ContinueWork
    BY <2>1, <2>3 DEF StartTools, NextTool, ContinueWork, ToolCall, NoTool, NoCall, AskSpecialist, Calling
  <2>4. CASE AcceptProduct \/ SaveArtifact \/ AnnounceArtifact
    BY <2>1, <2>4 DEF AcceptProduct, SaveArtifact, AnnounceArtifact, NoCall
  <2>5. CASE RecordReview \/ CompleteTask \/ RequestRevision
    BY <2>1, <2>5 DEF RecordReview, CompleteTask, RequestRevision, NoCall
  <2> QED BY <2>2, <2>3, <2>4, <2>5 DEF ExecutorStep
<1>3. /\ call'.phase # "idle" => work'.phase \in {"working", "reviewing"}
      /\ tool'.phase # "idle" => work'.phase = "tools"
      /\ approval'.phase # "idle" => work'.phase = "tools" /\ tool'.phase = "approving"
  <2>1. work = [phase |-> work.phase, task |-> work.task, allowed |-> work.allowed,
                revision |-> work.revision, results |-> work.results, requests |-> work.requests,
                usage |-> work.usage]
    BY DEF FramesInv, ShapeInv
  <2>2. CASE BeginRevision \/ RequestReview
    BY <1>0, <2>1, <2>2 DEF BeginRevision, RequestReview
  <2>3. CASE StartTools
    BY <1>0, <2>1, <2>3 DEF StartTools, NoCall
  <2>4. CASE NextTool
    BY <1>0, <2>1, <2>4 DEF NextTool
  <2>5. CASE ContinueWork
    BY <1>0, <2>1, <2>5 DEF ContinueWork, NoTool
  <2>6. CASE AcceptProduct
    BY <1>0, <2>1, <2>6 DEF AcceptProduct, NoCall
  <2>7. CASE SaveArtifact \/ AnnounceArtifact
    BY <1>0, <2>1, <2>7 DEF SaveArtifact, AnnounceArtifact
  <2>8. CASE RecordReview
    BY <1>0, <2>1, <2>8 DEF RecordReview, NoCall
  <2>9. CASE CompleteTask \/ RequestRevision
    BY <1>0, <2>1, <2>9 DEF CompleteTask, RequestRevision
  <2> QED BY <2>2, <2>3, <2>4, <2>5, <2>6, <2>7, <2>8, <2>9 DEF ExecutorStep
<1> QED BY <1>0, <1>1, <1>2, <1>3
        DEF FramesInv, CallWaitedFor, ToolWaitedFor, ApprovalWaitedFor

-----------------------------------------------------------------------------
(* The workflow's own steps. *)
Idle == call.phase = "idle" /\ tool.phase = "idle" /\ approval.phase = "idle"

LEMMA IdleFrames ==
  ASSUME FramesInv, Running, run.phase \notin Waiting
  PROVE  Idle
BY DEF FramesInv, CallWaitedFor, ToolWaitedFor, ApprovalWaitedFor, Waiting, Idle

LEMMA FramesKept ==
  ASSUME ShapeInv', run'.phase \in RunPhases, Running' => Idle'
  PROVE  FramesInv'
BY DEF FramesInv, Idle

RunShape == run = [phase |-> run.phase, todo |-> run.todo, agent |-> run.agent,
                   accepted |-> run.accepted, usage |-> run.usage]

LEMMA PlanningMoves ==
  ASSUME FramesInv,
         RequestPlan \/ ReceivePlan \/ ValidatePlan \/ PlanRefused \/ PlanValidated \/ PlanApproved
  PROVE  /\ Running /\ run.phase \in Workflow /\ run'.phase \in Workflow
         /\ Ordinary /\ row' = row
         /\ FramesInv'
<1> USE DEF On, Running, RunShape
<1>0. ShapeInv /\ RunShape
  BY DEF FramesInv, ShapeInv
<1>1. CASE RequestPlan
  <2>1. Ordinary /\ Idle
    BY <1>1, OrdinaryEmit, IdleFrames DEF RequestPlan, Emit, RunTypes, Waiting
  <2>2. run'.phase = "planning" /\ ShapeInv'
    BY <1>0, <1>1 DEF RequestPlan, Goto, ShapeInv, AskPlanner, Calling
  <2> QED BY <1>1, <2>1, <2>2
          DEF RequestPlan, Workflow, RunPhases, FramesInv, Idle, CallWaitedFor
<1>2. CASE ReceivePlan
  <2>1. Ordinary
    BY <1>2, OrdinaryEmit DEF ReceivePlan, Emit, RunTypes
  <2>2. run'.phase = "validating" /\ ShapeInv'
    BY <1>0, <1>2 DEF ReceivePlan, ShapeInv, NoCall
  <2>3. Idle'
    BY <1>2 DEF ReceivePlan, NoCall, Idle, FramesInv, ToolWaitedFor, ApprovalWaitedFor
  <2> QED BY <1>2, <2>1, <2>2, <2>3, FramesKept DEF ReceivePlan, Workflow, RunPhases
<1>3. CASE ValidatePlan
  <2>1. Ordinary /\ Idle /\ UNCHANGED <<call, tool, approval, work, run, row>>
    BY <1>3, OrdinaryQuiet, IdleFrames DEF ValidatePlan, taskVars, contextVars, Waiting
  <2> QED BY <1>0, <1>3, <2>1, FramesKept
          DEF ValidatePlan, Workflow, RunPhases, ShapeInv, Idle
<1>4. CASE PlanRefused
  <2>1. Ordinary /\ Idle /\ UNCHANGED <<call, tool, approval, work, run, row>>
    BY <1>4, OrdinaryRaise, IdleFrames DEF PlanRefused, below, Errors, Waiting
  <2> QED BY <1>0, <1>4, <2>1, FramesKept
          DEF PlanRefused, Workflow, RunPhases, ShapeInv, Idle
<1>5. CASE PlanValidated
  <2>1. Ordinary /\ Idle
    BY <1>5, OrdinaryEmit, IdleFrames DEF PlanValidated, Emit, RunTypes, Waiting
  <2>2. run'.phase = (IF RequirePlanApproval THEN "approving" ELSE "scheduling") /\ ShapeInv'
    BY <1>0, <1>5 DEF PlanValidated, ShapeInv, Asking
  <2>3. CASE RequirePlanApproval
    BY <1>5, <2>1, <2>2, <2>3
       DEF PlanValidated, Workflow, RunPhases, FramesInv, Idle, ApprovalWaitedFor
  <2>4. CASE ~RequirePlanApproval
    BY <1>5, <2>1, <2>2, <2>4, FramesKept DEF PlanValidated, Workflow, RunPhases, Idle
  <2> QED BY <2>3, <2>4
<1>6. CASE PlanApproved
  <2>1. Ordinary
    BY <1>6, OrdinaryQuiet DEF PlanApproved, contextVars
  <2>2. run'.phase = "scheduling" /\ ShapeInv'
    BY <1>0, <1>6 DEF PlanApproved, Goto, ShapeInv, NoApproval
  <2>3. Idle'
    BY <1>6 DEF PlanApproved, NoApproval, Idle, FramesInv, ToolWaitedFor, CallWaitedFor
  <2> QED BY <1>6, <2>1, <2>2, <2>3, FramesKept DEF PlanApproved, Workflow, RunPhases
<1> QED BY <1>1, <1>2, <1>3, <1>4, <1>5, <1>6

LEMMA TaskLoopMoves ==
  ASSUME FramesInv,
         \/ StartPipeline \/ NextTask \/ TaskApproved \/ TaskReady \/ RouteTask \/ StartTask
         \/ ExecuteTask \/ KeepArtifact
  PROVE  /\ Running /\ run.phase \in Workflow /\ run'.phase \in Workflow
         /\ Ordinary /\ row' = row
         /\ FramesInv'
<1> USE DEF On, Running, RunShape
<1>0. ShapeInv /\ RunShape
  BY DEF FramesInv, ShapeInv
<1>1. CASE StartPipeline
  <2>1. Ordinary /\ Idle
    BY <1>1, OrdinaryEmit, OrdinaryRaise, IdleFrames
       DEF StartPipeline, Emit, RunTypes, Errors, Waiting
  <2>2. run'.phase = "ready" /\ ShapeInv'
    BY <1>0, <1>1 DEF StartPipeline, ShapeInv, below
  <2> QED BY <1>1, <2>1, <2>2, FramesKept DEF StartPipeline, below, Workflow, RunPhases, Idle
<1>2. CASE NextTask
  <2>1. Ordinary /\ Idle
    BY <1>2, OrdinaryQuiet, IdleFrames DEF NextTask, contextVars, Waiting
  <2>2. run'.phase = (IF HighRisk(Current) THEN "asking" ELSE "ready") /\ ShapeInv'
    BY <1>0, <1>2 DEF NextTask, Goto, ShapeInv, Asking
  <2>3. CASE HighRisk(Current)
    BY <1>2, <2>1, <2>2, <2>3
       DEF NextTask, Workflow, RunPhases, FramesInv, Idle, ApprovalWaitedFor
  <2>4. CASE ~HighRisk(Current)
    BY <1>2, <2>1, <2>2, <2>4, FramesKept DEF NextTask, Workflow, RunPhases, Idle
  <2> QED BY <2>3, <2>4 DEF HighRisk
<1>3. CASE TaskApproved
  <2>1. Ordinary
    BY <1>3, OrdinaryQuiet DEF TaskApproved, contextVars
  <2>2. run'.phase = "ready" /\ ShapeInv'
    BY <1>0, <1>3 DEF TaskApproved, Goto, ShapeInv, NoApproval
  <2>3. Idle'
    BY <1>3 DEF TaskApproved, NoApproval, Idle, FramesInv, ToolWaitedFor, CallWaitedFor
  <2> QED BY <1>3, <2>1, <2>2, <2>3, FramesKept DEF TaskApproved, Workflow, RunPhases
<1>4. CASE TaskReady
  <2>1. Ordinary /\ Idle
    BY <1>4, OrdinaryEmit, IdleFrames DEF TaskReady, Emit, RunTypes, Waiting
  <2>2. run'.phase = "routing" /\ ShapeInv'
    BY <1>0, <1>4 DEF TaskReady, Goto, ShapeInv, below
  <2> QED BY <1>4, <2>1, <2>2, FramesKept DEF TaskReady, below, Workflow, RunPhases, Idle
<1>5. CASE RouteTask
  <2>1. Ordinary /\ Idle
    <3>1. CASE Selected(Current) = {}
      BY <1>5, <3>1, OrdinaryRaise, IdleFrames DEF RouteTask, Errors, Waiting
    <3>2. CASE Selected(Current) # {}
      BY <1>5, <3>2, OrdinaryEmit, IdleFrames DEF RouteTask, Emit, RunTypes, Waiting
    <3> QED BY <3>1, <3>2
  <2>2. run'.phase \in {"routing", "assigned"} /\ ShapeInv'
    <3>1. CASE Selected(Current) = {}
      BY <1>0, <1>5, <3>1 DEF RouteTask, ShapeInv, below
    <3>2. CASE Selected(Current) # {}
      BY <1>0, <1>5, <3>2 DEF RouteTask, ShapeInv, below
    <3> QED BY <3>1, <3>2
  <2> QED BY <1>5, <2>1, <2>2, FramesKept DEF RouteTask, below, Workflow, RunPhases, Idle
<1>6. CASE StartTask
  <2>1. Ordinary /\ Idle
    <3>1. Idle /\ UNCHANGED <<sequence, events, store_faults>> /\ raised' \in {raised, "KeyError"}
      BY <1>6, IdleFrames DEF StartTask, Waiting
    <3> QED BY <1>6, <3>1 DEF StartTask, Ordinary, Errors
  <2>2. run'.phase = "executing" /\ ShapeInv'
    <3>1. work' = [phase |-> work'.phase, task |-> work'.task, allowed |-> work'.allowed,
                   revision |-> work'.revision, results |-> work'.results,
                   requests |-> work'.requests, usage |-> work'.usage]
      BY <1>0, <1>6 DEF StartTask, ShapeInv, Execute
    <3> QED BY <1>0, <1>6, <3>1 DEF StartTask, Goto, ShapeInv
  <2> QED BY <1>6, <2>1, <2>2, FramesKept DEF StartTask, Workflow, RunPhases, Idle
<1>7. CASE ExecuteTask
  BY <1>7, ExecutorMoves DEF ExecuteTask, Workflow
<1>8. CASE KeepArtifact
  <2>1. Ordinary
    BY <1>8, OrdinaryQuiet DEF KeepArtifact, contextVars
  <2>2. run'.phase = "scheduling" /\ ShapeInv'
    BY <1>0, <1>8 DEF KeepArtifact, ShapeInv, NoWork, NoTool
  <2>3. Idle'
    BY <1>8 DEF KeepArtifact, TaskDone, At, NoTool, Idle, FramesInv, ToolWaitedFor,
                CallWaitedFor, ApprovalWaitedFor
  <2> QED BY <1>8, <2>1, <2>2, <2>3, FramesKept DEF KeepArtifact, Workflow, RunPhases
<1> QED BY <1>1, <1>2, <1>3, <1>4, <1>5, <1>6, <1>7, <1>8

LEMMA FinishingMoves ==
  ASSUME FramesInv, Finalize \/ ReceiveFinalOutput \/ ClosePipeline
  PROVE  /\ Running /\ run.phase \in Workflow /\ run'.phase \in Workflow \cup {"completing"}
         /\ Ordinary /\ row' = row
         /\ FramesInv'
<1> USE DEF On, Running, RunShape
<1>0. ShapeInv /\ RunShape
  BY DEF FramesInv, ShapeInv
<1>1. CASE Finalize
  <2>1. Ordinary /\ Idle
    BY <1>1, OrdinaryQuiet, IdleFrames DEF Finalize, contextVars, Waiting
  <2>2. run'.phase = "finalizing" /\ ShapeInv'
    BY <1>0, <1>1 DEF Finalize, Goto, ShapeInv, AskFinalizer, Calling
  <2> QED BY <1>1, <2>1, <2>2 DEF Finalize, Workflow, RunPhases, FramesInv, Idle, CallWaitedFor
<1>2. CASE ReceiveFinalOutput
  <2>1. Ordinary
    BY <1>2, OrdinaryQuiet DEF ReceiveFinalOutput, contextVars
  <2>2. run'.phase \in {"closing", "completing"} /\ ShapeInv'
    BY <1>0, <1>2 DEF ReceiveFinalOutput, ShapeInv, NoCall
  <2>3. Idle'
    BY <1>2 DEF ReceiveFinalOutput, NoCall, Idle, FramesInv, ToolWaitedFor, ApprovalWaitedFor
  <2> QED BY <1>2, <2>1, <2>2, <2>3, FramesKept DEF ReceiveFinalOutput, Workflow, RunPhases
<1>3. CASE ClosePipeline
  <2>1. Ordinary /\ Idle
    BY <1>3, OrdinaryEmit, IdleFrames DEF ClosePipeline, Emit, RunTypes, Waiting
  <2>2. run'.phase = "completing" /\ ShapeInv'
    BY <1>0, <1>3 DEF ClosePipeline, Goto, ShapeInv, below
  <2> QED BY <1>3, <2>1, <2>2, FramesKept DEF ClosePipeline, below, Workflow, RunPhases, Idle
<1> QED BY <1>1, <1>2, <1>3

-----------------------------------------------------------------------------
(* Every step is one of the conductor's, one of the workflow (or a frame   *)
(* below it), a cancellation where the run waits, or none of these.        *)

WorkflowMove ==
  /\ Running /\ run.phase \in Workflow /\ run'.phase \in Workflow \cup {"completing"}
  /\ Ordinary /\ row' = row

CancelMove ==
  /\ Running /\ run.phase \in Waiting
  /\ raised' = Cancelled
  /\ UNCHANGED <<sequence, events, store_faults, run, row>>

ConductorKinds ==
  CreateRun \/ StartRun \/ CompleteRun \/ SaveSucceeded \/ FailRun \/ SaveFailed \/ CancelledRun

LEMMA ConductorKeepsFrames ==
  ASSUME FramesInv, ConductorKinds
  PROVE  FramesInv'
<1> USE DEF Running, On, RunShape
<1>0. ShapeInv /\ RunShape
  BY DEF FramesInv, ShapeInv
<1> DEFINE Moved == /\ UNCHANGED <<below, planVars>>
                    /\ run'.phase \in RunPhases
                    /\ run' = [phase |-> run'.phase, todo |-> run'.todo, agent |-> run'.agent,
                               accepted |-> run'.accepted, usage |-> run'.usage]
<1>1. Moved
  <2>1. \E phase \in RunPhases : Goto(phase) /\ UNCHANGED <<below, planVars>>
    <3>1. CASE CreateRun \/ CompleteRun
      BY <3>1 DEF CreateRun, CompleteRun, RunPhases
    <3>2. CASE StartRun
      BY <3>2, StrategyAssumption DEF StartRun, RunPhases, Workflow
    <3>3. CASE SaveSucceeded \/ SaveFailed
      BY <3>3 DEF SaveSucceeded, SaveFailed, RunPhases
    <3>4. CASE FailRun \/ CancelledRun
      BY <3>4 DEF FailRun, CancelledRun, RunPhases
    <3> QED BY <3>1, <3>2, <3>3, <3>4 DEF ConductorKinds
  <2>2. PICK phase \in RunPhases : run' = [run EXCEPT !.phase = phase] /\ UNCHANGED <<below, planVars>>
    BY <2>1 DEF Goto
  <2> QED BY <1>0, <2>2
<1>2. ShapeInv'
  BY <1>0, <1>1 DEF ShapeInv, below
<1>3. Running' => Idle
  <2>1. CASE CreateRun \/ StartRun \/ CompleteRun \/ SaveSucceeded
    BY <2>1, IdleFrames DEF CreateRun, StartRun, CompleteRun, SaveSucceeded, Waiting
  <2>2. CASE FailRun \/ CancelledRun
    BY <2>2 DEF FailRun, CancelledRun, Handled, Emit, EmitThen, Appended, StoreRaises,
                Errors, Cancelled, contextVars
  <2>3. CASE SaveFailed
    <3>1. Running' => Running
      BY <2>3 DEF SaveFailed, SaveRun, Quiet, StoreRaises
    <3> QED BY <2>3, <3>1, IdleFrames DEF SaveFailed, Waiting
  <2> QED BY <2>1, <2>2, <2>3 DEF ConductorKinds
<1> QED BY <1>1, <1>2, <1>3, FramesKept DEF below, Idle

LEMMA StepKinds ==
  ASSUME FramesInv, [Next]_vars
  PROVE  /\ FramesInv'
         /\ \/ ConductorKinds
            \/ WorkflowMove
            \/ CancelMove
            \/ UNCHANGED <<sequence, events, store_faults, raised, run, row>>
<1>1. CASE ConductorStep
  BY <1>1, ConductorKeepsFrames DEF ConductorStep, ConductorKinds
<1>2. CASE WorkflowStep
  BY <1>2, PlanningMoves, TaskLoopMoves, FinishingMoves DEF WorkflowStep, WorkflowMove
<1>3. CASE CallStep
  <2>1. /\ Running /\ run.phase \in Waiting /\ Ordinary /\ FramesInv'
        /\ UNCHANGED <<run, row>>
    BY <1>3, AgentMoves, BrokerMoves, GateMoves
       DEF CallStep, AgentFrame, BrokerFrame, GateFrame
  <2> QED BY <2>1 DEF WorkflowMove, Waiting, Workflow
<1>4. CASE Cancel /\ UNCHANGED <<planVars, run, row>>
  <2>1. /\ Running /\ Raise(Cancelled) /\ run.phase \in Waiting
        /\ UNCHANGED <<approval, call, tool, work>>
    BY <1>4 DEF Cancel, CancelCall, CancelApproval, FramesInv, CallWaitedFor, ToolWaitedFor,
                ApprovalWaitedFor, Waiting
  <2>2. CancelMove
    BY <1>4, <2>1 DEF CancelMove, Raise
  <2>3. ShapeInv' /\ ~Running' /\ run'.phase \in RunPhases
    BY <1>4, <2>1 DEF FramesInv, ShapeInv, Raise, Running, Cancelled
  <2> QED BY <2>2, <2>3, FramesKept
<1>5. CASE ~Ended /\ ClockPasses /\ UNCHANGED <<below, planVars, run, row>>
  BY <1>5 DEF ClockPasses, below, FramesInv, ShapeInv, Running, CallWaitedFor, ToolWaitedFor,
              ApprovalWaitedFor
<1>6. CASE UNCHANGED vars
  BY <1>6 DEF vars, taskVars, contextVars, FramesInv, ShapeInv, Running, CallWaitedFor,
              ToolWaitedFor, ApprovalWaitedFor
<1> QED BY <1>1, <1>2, <1>3, <1>4, <1>5, <1>6 DEF Next, RunStep

-----------------------------------------------------------------------------
(* What the log and the row say, by how far the run is.                    *)

RaisedFits ==
  /\ store_faults \in Nat
  /\ raised \in Errors \cup {Cancelled, "none"}
  /\ Running => store_faults = 0
  /\ run.phase \in {"new", "created"} => Running
  /\ run.phase = "saving" /\ raised \in Errors => store_faults > 0
  /\ run.phase = "failing" => raised \in Errors

MilestonesFit ==
  /\ run.phase = "new" => Milestones = {}
  /\ run.phase = "created" => Milestones = {"run.created"}
  /\ run.phase \in Workflow \cup {"completing"} => Milestones = Begun
  /\ run.phase = "saving" =>
       \/ Milestones = Begun \cup {"run.completed"}
       \/ Milestones = Begun /\ ~Running
  /\ run.phase = "failing" => Milestones \in {Begun \cup {"run.failed"}, RunTypes}
  /\ {"run.completed", "run.failed"} \subseteq Milestones => store_faults > 0
  /\ "run.failed" \in Milestones => \E e : OfType("run.failed") = {e}

RowFits ==
  /\ row.status \in {"none", "succeeded", "failed"}
  /\ run.phase \notin {"saving", "failing", "ended"} => row.status = "none"
  /\ run.phase = "saving" /\ Running => row.status = "none"
  /\ row.status = "succeeded" => "run.completed" \in Milestones
  /\ row.status = "failed" => run.phase = "ended" /\ "run.failed" \in Milestones

EndFits ==
  /\ run.phase = "saving" /\ Running => LastEvent("run.completed")
  /\ run.phase = "failing" => LastEvent("run.failed")
  /\ run.phase = "ended" /\ Running =>
       /\ LastEvent("run.completed")
       /\ Milestones = Begun \cup {"run.completed"}
       /\ row.status = "succeeded"
  /\ run.phase = "ended" /\ raised \in Errors /\ store_faults = 0 =>
       LastEvent("run.failed") /\ "run.completed" \notin Milestones /\ row = FailedRow

StoryInv == RaisedFits /\ MilestonesFit /\ RowFits /\ EndFits

RunInv == FramesInv /\ StoryInv

LEMMA MilestoneEmitted ==
  ASSUME NEW type \in RunTypes, NEW e, events' = events \cup {e}, e.type = type
  PROVE  /\ Milestones' = Milestones \cup {type}
         /\ OfType(type)' = OfType(type) \cup {e}
         /\ \A t \in RunTypes : t # type => OfType(t)' = OfType(t)
BY DEF Milestones, RunTypes, OfType

LEMMA MilestonesKept ==
  ASSUME \/ events' = events
         \/ \E e : events' = events \cup {e} /\ e.type \notin RunTypes
  PROVE  Milestones' = Milestones /\ \A t \in RunTypes : OfType(t)' = OfType(t)
BY DEF Milestones, RunTypes, OfType

(* An emit of the conductor: the store took it, or it failed.              *)
LEMMA MilestoneOutcome ==
  ASSUME NEW type \in RunTypes, Emit(type, 0, raised) \/ Emit(type, 0, "")
  PROVE  /\ sequence' = sequence + 1
         /\ \/ /\ UNCHANGED <<raised, store_faults>>
               /\ Milestones' = Milestones \cup {type}
               /\ LastEvent(type)'
               /\ \E e : OfType(type)' = OfType(type) \cup {e}
               /\ \A t \in RunTypes : t # type => OfType(t)' = OfType(t)
            \/ /\ StoreRaises
               /\ \/ Milestones' = Milestones /\ \A t \in RunTypes : OfType(t)' = OfType(t)
                  \/ /\ Milestones' = Milestones \cup {type}
                     /\ \E e : OfType(type)' = OfType(type) \cup {e}
                     /\ \A t \in RunTypes : t # type => OfType(t)' = OfType(t)
<1>1. PICK note \in {raised, ""} : Emit(type, 0, note)
  OBVIOUS
<1> DEFINE e == Row(type, 0, note)
<1>2. /\ sequence' = sequence + 1 /\ e.type = type /\ e.sequence = sequence + 1
      /\ \/ events' = events \cup {e} /\ UNCHANGED <<raised, store_faults>>
         \/ StoreRaises /\ events' \in {events, events \cup {e}}
  BY <1>1 DEF Emit, EmitThen, Appended, Row
<1> HIDE DEF e
<1>3. CASE events' = events \cup {e} /\ UNCHANGED <<raised, store_faults>>
  <2>1. LastEvent(type)'
    BY <1>2, <1>3 DEF LastEvent, OfType
  <2> QED BY <1>2, <1>3, <2>1, MilestoneEmitted
<1>4. CASE StoreRaises /\ events' = events \cup {e}
  BY <1>2, <1>4, MilestoneEmitted
<1>5. CASE StoreRaises /\ events' = events
  BY <1>2, <1>5, MilestonesKept
<1> QED BY <1>2, <1>3, <1>4, <1>5

LEMMA StoryInvInit == Init => RunInv
<1> SUFFICES ASSUME Init PROVE RunInv
  OBVIOUS
<1>1. FramesInv
  BY DEF Init, ContextInit, GateInit, AgentInit, BrokerInit, TaskInit, NoApproval, NoCall, NoTool,
         NoWork, FramesInv, ShapeInv, RunPhases
<1>2. StoryInv
  BY DEF Init, ContextInit, StoryInv, RaisedFits, MilestonesFit, RowFits, EndFits, Milestones,
         Running, Workflow
<1> QED BY <1>1, <1>2 DEF RunInv

LEMMA GoesTo ==
  ASSUME FramesInv, NEW phase, Goto(phase)
  PROVE  run'.phase = phase
BY DEF FramesInv, ShapeInv, Goto

LEMMA FaultCounted ==
  ASSUME store_faults \in Nat, StoreRaises
  PROVE  /\ store_faults' \in Nat /\ store_faults' > 0 /\ store_faults' # store_faults
         /\ raised' = "StoreError" /\ raised' \in Errors /\ ~Running'
BY DEF StoreRaises, Errors, Running

LEMMA BeginningKeepsStory ==
  ASSUME RunInv, CreateRun \/ StartRun
  PROVE  StoryInv'
<1> USE DEF On, Running, RunInv, StoryInv
<1>1. CASE CreateRun
  <2>1. /\ run.phase = "new" /\ Running /\ row' = row /\ Milestones = {} /\ row.status = "none"
        /\ store_faults \in Nat /\ store_faults = 0
        /\ run'.phase = (IF raised' = "none" THEN "created" ELSE "ended")
    BY <1>1, GoesTo DEF CreateRun, RaisedFits, MilestonesFit, RowFits
  <2>2. /\ Milestones' \in {{}, {"run.created"}}
        /\ \/ /\ UNCHANGED <<raised, store_faults>>
              /\ Milestones' = {"run.created"}
           \/ StoreRaises
    BY <1>1, <2>1, MilestoneOutcome DEF CreateRun, RunTypes
  <2>3. CASE UNCHANGED <<raised, store_faults>> /\ Milestones' = {"run.created"}
    BY <2>1, <2>3 DEF RaisedFits, MilestonesFit, RowFits, EndFits, Workflow
  <2>4. CASE StoreRaises
    BY <2>1, <2>2, <2>4, FaultCounted DEF RaisedFits, MilestonesFit, RowFits, EndFits, Workflow
  <2> QED BY <2>2, <2>3, <2>4
<1>2. CASE StartRun
  <2>1. /\ run.phase = "created" /\ Running /\ row' = row /\ Milestones = {"run.created"}
        /\ row.status = "none" /\ store_faults \in Nat /\ store_faults = 0
        /\ run'.phase = (IF raised' = "none" THEN Strategy ELSE "ended")
    BY <1>2, GoesTo DEF StartRun, RaisedFits, MilestonesFit, RowFits
  <2>2. /\ Milestones' \in {{"run.created"}, Begun}
        /\ \/ /\ UNCHANGED <<raised, store_faults>>
              /\ Milestones' = Begun
           \/ StoreRaises
    BY <1>2, <2>1, MilestoneOutcome DEF StartRun, RunTypes, Begun
  <2>3. CASE UNCHANGED <<raised, store_faults>> /\ Milestones' = Begun
    <3>1. run'.phase \in {"plan_execute_review", "pipeline"}
      BY <2>1, <2>3, StrategyAssumption
    <3> QED BY <2>1, <2>3, <3>1 DEF RaisedFits, MilestonesFit, RowFits, EndFits, Workflow, Begun
  <2>4. CASE StoreRaises
    BY <2>1, <2>2, <2>4, FaultCounted
       DEF RaisedFits, MilestonesFit, RowFits, EndFits, Workflow, Begun
  <2> QED BY <2>2, <2>3, <2>4
<1> QED BY <1>1, <1>2

LEMMA WorkflowKeepsStory ==
  ASSUME RunInv, WorkflowMove \/ CancelMove
  PROVE  StoryInv'
<1> USE DEF Running, RunInv, StoryInv
<1>1. /\ Milestones' = Milestones /\ \A t \in RunTypes : OfType(t)' = OfType(t)
  BY MilestonesKept DEF WorkflowMove, CancelMove, Ordinary
<1>2. CASE WorkflowMove
  <2>1. /\ Milestones = Begun /\ row.status = "none" /\ row' = row /\ store_faults \in Nat
        /\ run.phase \in Workflow /\ run'.phase \in Workflow \cup {"completing"}
        /\ Running /\ store_faults = 0
    BY <1>2 DEF WorkflowMove, RaisedFits, MilestonesFit, RowFits, Workflow
  <2>2. RaisedFits'
    <3>1. CASE StoreRaises
      BY <2>1, <3>1, FaultCounted DEF RaisedFits, Workflow
    <3>2. CASE raised' \in Errors \cup {"none"} /\ store_faults' = store_faults
      BY <2>1, <3>2 DEF RaisedFits, Workflow
    <3> QED BY <1>2, <3>1, <3>2 DEF WorkflowMove, Ordinary
  <2> QED BY <1>1, <2>1, <2>2 DEF MilestonesFit, RowFits, EndFits, Workflow, Begun
<1>3. CASE CancelMove
  <2>1. /\ Milestones = Begun /\ row.status = "none" /\ row' = row /\ store_faults \in Nat
        /\ run.phase \in Workflow /\ run' = run /\ raised' = Cancelled
        /\ store_faults' = store_faults
    BY <1>3 DEF CancelMove, RaisedFits, MilestonesFit, RowFits, Workflow, Waiting
  <2> QED BY <1>1, <2>1
          DEF RaisedFits, MilestonesFit, RowFits, EndFits, Workflow, Begun, Cancelled, Errors
<1> QED BY <1>2, <1>3

LEMMA SuccessKeepsStory ==
  ASSUME RunInv, CompleteRun \/ SaveSucceeded
  PROVE  StoryInv'
<1> USE DEF On, Running, RunInv, StoryInv
<1>1. CASE CompleteRun
  <2>1. /\ run.phase = "completing" /\ Running /\ row' = row /\ Milestones = Begun
        /\ row.status = "none" /\ store_faults \in Nat /\ store_faults = 0
        /\ run'.phase = "saving"
    BY <1>1, GoesTo DEF CompleteRun, RaisedFits, MilestonesFit, RowFits, Workflow
  <2>2. /\ Milestones' \in {Begun, Begun \cup {"run.completed"}}
        /\ OfType("run.failed")' = OfType("run.failed")
        /\ \/ /\ UNCHANGED <<raised, store_faults>>
              /\ Milestones' = Begun \cup {"run.completed"} /\ LastEvent("run.completed")'
           \/ StoreRaises
    BY <1>1, <2>1, MilestoneOutcome DEF CompleteRun, RunTypes
  <2>3. CASE /\ UNCHANGED <<raised, store_faults>>
             /\ Milestones' = Begun \cup {"run.completed"} /\ LastEvent("run.completed")'
    BY <2>1, <2>2, <2>3 DEF RaisedFits, MilestonesFit, RowFits, EndFits, Workflow, Begun, Errors
  <2>4. CASE StoreRaises
    BY <2>1, <2>2, <2>4, FaultCounted
       DEF RaisedFits, MilestonesFit, RowFits, EndFits, Workflow, Begun
  <2> QED BY <2>2, <2>3, <2>4
<1>2. CASE SaveSucceeded
  <2>1. /\ run.phase = "saving" /\ Running /\ Milestones = Begun \cup {"run.completed"}
        /\ row.status = "none" /\ store_faults \in Nat /\ store_faults = 0
        /\ LastEvent("run.completed")
        /\ run'.phase = (IF raised' = "none" THEN "ended" ELSE "saving")
        /\ UNCHANGED <<sequence, events>>
    BY <1>2, GoesTo DEF SaveSucceeded, SaveRun, Quiet, RaisedFits, MilestonesFit, RowFits, EndFits
  <2>2. /\ Milestones' = Milestones /\ OfType("run.failed")' = OfType("run.failed")
        /\ LastEvent("run.completed")'
    BY <2>1, MilestonesKept DEF RunTypes, LastEvent, OfType
  <2>3. CASE row' = SucceededRow /\ Quiet
    <3>1. row'.status = "succeeded" /\ run'.phase = "ended" /\ UNCHANGED <<raised, store_faults>>
      BY <2>1, <2>3 DEF SucceededRow, Quiet
    <3> QED BY <2>1, <2>2, <3>1
            DEF RaisedFits, MilestonesFit, RowFits, EndFits, Workflow, Begun, Errors
  <2>4. CASE StoreRaises /\ row' \in {row, SucceededRow}
    <3>1. row'.status \in {"none", "succeeded"} /\ run'.phase = "saving"
      BY <2>1, <2>4, FaultCounted DEF SucceededRow
    <3> QED BY <2>1, <2>2, <2>4, <3>1, FaultCounted
            DEF RaisedFits, MilestonesFit, RowFits, EndFits, Workflow, Begun
  <2> QED BY <1>2, <2>3, <2>4 DEF SaveSucceeded, SaveRun
<1> QED BY <1>1, <1>2

(* Where an exception may be caught, and what is on record there.          *)
LEMMA HandledStory ==
  ASSUME RunInv, Handled
  PROVE  /\ raised \in Errors
         /\ run.phase \in Workflow \cup {"completing", "saving"}
         /\ "run.failed" \notin Milestones /\ row.status \in {"none", "succeeded"}
         /\ \/ Milestones = Begun
            \/ Milestones = Begun \cup {"run.completed"} /\ store_faults > 0
         /\ store_faults \in Nat
<1> USE DEF RunInv, StoryInv
<1>1. run.phase \in Workflow \cup {"completing", "saving"} /\ raised \in Errors /\ ~Running
  BY DEF Handled, FramesInv, RunPhases, Running, Errors
<1>2. \/ Milestones = Begun
      \/ Milestones = Begun \cup {"run.completed"} /\ store_faults > 0
  BY <1>1 DEF MilestonesFit, RaisedFits
<1> QED BY <1>1, <1>2 DEF RowFits, RaisedFits, Begun

LEMMA FailureKeepsStory ==
  ASSUME RunInv, FailRun \/ SaveFailed \/ CancelledRun
  PROVE  StoryInv'
<1> USE DEF On, Running, RunInv, StoryInv
<1>1. CASE FailRun
  <2>1. /\ raised \in Errors /\ "run.failed" \notin Milestones /\ row.status \in {"none", "succeeded"}
        /\ row' = row /\ store_faults \in Nat
        /\ \/ Milestones = Begun
           \/ Milestones = Begun \cup {"run.completed"} /\ store_faults > 0
        /\ row.status = "succeeded" => "run.completed" \in Milestones
        /\ run'.phase = (IF store_faults' = store_faults THEN "failing" ELSE "ended")
        /\ OfType("run.failed") = {}
    <3>1. OfType("run.failed") = {}
      BY <1>1, HandledStory DEF FailRun, Milestones, OfType
    <3> QED BY <1>1, <3>1, HandledStory, GoesTo DEF FailRun, RowFits
  <2>2. /\ \/ Milestones' = Milestones /\ OfType("run.failed")' = OfType("run.failed")
           \/ Milestones' = Milestones \cup {"run.failed"} /\ \E e : OfType("run.failed")' = {e}
        /\ \/ /\ UNCHANGED <<raised, store_faults>>
              /\ Milestones' = Milestones \cup {"run.failed"} /\ LastEvent("run.failed")'
           \/ StoreRaises
    BY <1>1, <2>1, MilestoneOutcome DEF FailRun, RunTypes
  <2>3. CASE /\ UNCHANGED <<raised, store_faults>>
             /\ Milestones' = Milestones \cup {"run.failed"} /\ LastEvent("run.failed")'
    <3>1. run'.phase = "failing" /\ \E e : OfType("run.failed")' = {e}
      BY <2>1, <2>2, <2>3
    <3> QED BY <2>1, <2>3, <3>1
            DEF RaisedFits, MilestonesFit, RowFits, EndFits, Workflow, Begun, RunTypes, Errors
  <2>4. CASE StoreRaises
    <3>1. run'.phase = "ended" /\ store_faults' > 0 /\ raised' \in Errors /\ ~Running'
      BY <2>1, <2>4, FaultCounted
    <3> QED BY <2>1, <2>2, <2>4, <3>1, FaultCounted
            DEF RaisedFits, MilestonesFit, RowFits, EndFits, Workflow, Begun, RunTypes, Errors
  <2> QED BY <2>2, <2>3, <2>4
<1>2. CASE SaveFailed
  <2>1. /\ run.phase = "failing" /\ raised \in Errors /\ run'.phase = "ended"
        /\ Milestones \in {Begun \cup {"run.failed"}, RunTypes} /\ store_faults \in Nat
        /\ LastEvent("run.failed") /\ row.status \in {"none", "succeeded"}
        /\ UNCHANGED <<sequence, events>>
    BY <1>2, GoesTo DEF SaveFailed, SaveRun, Quiet, RaisedFits, MilestonesFit, EndFits, RowFits
  <2>2. /\ Milestones' = Milestones /\ OfType("run.failed")' = OfType("run.failed")
        /\ LastEvent("run.failed")'
    BY <2>1, MilestonesKept DEF RunTypes, LastEvent, OfType
  <2>3. CASE row' = FailedRow /\ Quiet
    <3>1. row'.status = "failed" /\ UNCHANGED <<raised, store_faults>>
      BY <2>3 DEF FailedRow, Quiet
    <3>2. store_faults = 0 => "run.completed" \notin Milestones
      BY <2>1 DEF MilestonesFit, RunTypes, Begun
    <3> QED BY <2>1, <2>2, <2>3, <3>1, <3>2
            DEF RaisedFits, MilestonesFit, RowFits, EndFits, Workflow, Begun, RunTypes, Errors
  <2>4. CASE StoreRaises /\ row' \in {row, FailedRow}
    <3>1. row'.status \in {row.status, "failed"}
      BY <2>4 DEF FailedRow
    <3> QED BY <2>1, <2>2, <2>4, <3>1, FaultCounted
            DEF RaisedFits, MilestonesFit, RowFits, EndFits, Workflow, Begun, RunTypes, Errors
  <2> QED BY <1>2, <2>3, <2>4 DEF SaveFailed, SaveRun
<1>3. CASE CancelledRun
  <2>1. /\ raised = Cancelled /\ run.phase # "ended" /\ run'.phase = "ended"
        /\ UNCHANGED <<sequence, events, raised, store_faults, row>>
    BY <1>3, GoesTo DEF CancelledRun, contextVars
  <2>2. /\ Milestones' = Milestones /\ OfType("run.failed")' = OfType("run.failed")
    BY <2>1, MilestonesKept DEF RunTypes
  <2> QED BY <2>1, <2>2
          DEF RaisedFits, MilestonesFit, RowFits, EndFits, Workflow, Cancelled, Errors
<1> QED BY <1>1, <1>2, <1>3

LEMMA RunInvStep == RunInv /\ [Next]_vars => RunInv'
<1> SUFFICES ASSUME RunInv, [Next]_vars PROVE RunInv'
  OBVIOUS
<1>1. FramesInv'
  BY StepKinds DEF RunInv
<1>2. CASE ConductorKinds
  BY <1>1, <1>2, BeginningKeepsStory, SuccessKeepsStory, FailureKeepsStory
     DEF ConductorKinds, RunInv
<1>3. CASE WorkflowMove \/ CancelMove
  BY <1>1, <1>3, WorkflowKeepsStory DEF RunInv
<1>4. CASE UNCHANGED <<sequence, events, store_faults, raised, run, row>>
  BY <1>1, <1>4 DEF RunInv, StoryInv, RaisedFits, MilestonesFit, RowFits, EndFits, Running,
                    Milestones, OfType, LastEvent
<1> QED BY <1>1, <1>2, <1>3, <1>4, StepKinds DEF RunInv

LEMMA RunInvariance == Spec => []RunInv
<1>1. RunInv /\ [Next]_vars => RunInv'
  BY RunInvStep
<1> QED BY <1>1, StoryInvInit, PTL DEF Spec

(* However a run ends - with a result, with an exception from any await,   *)
(* or with store operations that raise, those of the handler included -    *)
(* the caller, the runs row and the event log agree.                       *)
THEOREM OutcomesStayConsistent == Spec => []OutcomeConsistent
<1>1. ASSUME RunInv PROVE OutcomeConsistent
  <2> USE <1>1 DEF RunInv, StoryInv
  <2>1. /\ Count("run.failed") = 0 <=> "run.failed" \notin Milestones
        /\ "run.failed" \in Milestones => Count("run.failed") = 1
    <3>1. CASE "run.failed" \in Milestones
      <4>1. PICK e : OfType("run.failed") = {e}
        BY <3>1 DEF MilestonesFit
      <4> QED BY <3>1, <4>1, FS_Singleton DEF Count
    <3>2. CASE "run.failed" \notin Milestones
      <4>1. OfType("run.failed") = {}
        BY <3>2 DEF Milestones, OfType
      <4> QED BY <3>2, <4>1, FS_EmptySet DEF Count
    <3> QED BY <3>1, <3>2
  <2>2. "run.completed" \notin Milestones => Count("run.completed") = 0
    <3>1. ASSUME "run.completed" \notin Milestones PROVE OfType("run.completed") = {}
      BY <3>1 DEF Milestones, OfType
    <3> QED BY <3>1, FS_EmptySet DEF Count
  <2>3. Ended /\ Running =>
          LastEvent("run.completed") /\ Count("run.failed") = 0 /\ row.status = "succeeded"
    BY <2>1 DEF EndFits, Ended, Begun
  <2>4. Ended /\ raised \in Errors /\ store_faults = 0 =>
          LastEvent("run.failed") /\ Count("run.completed") = 0 /\ row = FailedRow
    BY <2>2 DEF EndFits, Ended
  <2>5. row.status = "failed" => Count("run.failed") = 1
    BY <2>1 DEF RowFits
  <2>6. ASSUME Count("run.failed") > 0, Count("run.completed") > 0 PROVE store_faults > 0
    <3>1. Count("run.failed") # 0 /\ Count("run.completed") # 0
      BY <2>6
    <3> QED BY <2>1, <2>2, <3>1 DEF MilestonesFit
  <2> QED BY <2>3, <2>4, <2>5, <2>6 DEF OutcomeConsistent
<1> QED BY <1>1, RunInvariance, PTL

-----------------------------------------------------------------------------
(* The refinement: every step of a run is one of the lifecycle or none.    *)

Outcome == IF ~Ended THEN "pending" ELSE IF Running THEN "returned" ELSE "raised"
Disturbed == store_faults > 0 \/ raised = Cancelled

LEMMA LifecycleMove ==
  ASSUME RunInv, [Next]_vars
  PROVE  [Lifecycle!LifecycleNext]_(Lifecycle!lifecycleVars)
<1> DEFINE Unseen == UNCHANGED <<Milestones, row.status, Outcome, Disturbed>>
<1> USE DEF On, RunInv, StoryInv
<1>u. Unseen => UNCHANGED Lifecycle!lifecycleVars
  BY DEF Lifecycle!lifecycleVars, Outcome, Disturbed, Ended, Running
<1>0. store_faults \in Nat
  BY DEF RaisedFits
<1>1. CASE WorkflowMove
  <2>1. /\ Milestones' = Milestones /\ row' = row /\ Running /\ ~Ended /\ ~Ended'
    BY <1>1, MilestonesKept DEF WorkflowMove, Ordinary, Ended, Workflow
  <2>2. CASE StoreRaises
    <3>1. Lifecycle!Disturb
      BY <1>0, <2>1, <2>2, FaultCounted DEF Lifecycle!Disturb, Lifecycle!Pending
    <3> QED BY <3>1 DEF Lifecycle!LifecycleNext
  <2>3. CASE raised' \in Errors \cup {"none"} /\ store_faults' = store_faults
    <3>1. Disturbed' = Disturbed
      BY <2>1, <2>3 DEF Disturbed, Running, Errors, Cancelled
    <3> QED BY <1>u, <2>1, <3>1 DEF Outcome
  <2> QED BY <1>1, <2>2, <2>3 DEF WorkflowMove, Ordinary
<1>2. CASE CancelMove
  <2>1. /\ Milestones' = Milestones /\ row' = row /\ ~Ended /\ ~Ended' /\ Disturbed'
    BY <1>2, MilestonesKept DEF CancelMove, Ended, Waiting, Disturbed
  <2>2. Lifecycle!Disturb
    BY <2>1 DEF Lifecycle!Disturb, Lifecycle!Pending, Disturbed
  <2> QED BY <2>2 DEF Lifecycle!LifecycleNext
<1>3. CASE CreateRun \/ StartRun \/ CompleteRun
  <2>1. PICK type \in {"run.created", "run.started", "run.completed"} :
          /\ Emit(type, 0, "") /\ row' = row /\ Running /\ ~Ended /\ ~Disturbed
          /\ Running' => ~Ended'
          /\ Lifecycle!Follows(type, FALSE)
    <3>1. CASE CreateRun
      <4>1. /\ run.phase = "new" /\ Running /\ Milestones = {} /\ store_faults = 0
            /\ run'.phase = (IF raised' = "none" THEN "created" ELSE "ended")
        BY <3>1, GoesTo DEF CreateRun, RaisedFits, MilestonesFit
      <4>2. Lifecycle!Follows("run.created", FALSE) /\ ~Ended /\ ~Disturbed /\ (Running' => ~Ended')
        BY <4>1 DEF Lifecycle!Follows, Ended, Disturbed, Running, Cancelled
      <4> QED BY <3>1, <4>1, <4>2 DEF CreateRun
    <3>2. CASE StartRun
      <4>1. /\ run.phase = "created" /\ Running /\ Milestones = {"run.created"}
            /\ store_faults = 0
            /\ run'.phase = (IF raised' = "none" THEN Strategy ELSE "ended")
        BY <3>2, GoesTo DEF StartRun, RaisedFits, MilestonesFit
      <4>2. Lifecycle!Follows("run.started", FALSE) /\ ~Ended /\ ~Disturbed /\ (Running' => ~Ended')
        BY <4>1, StrategyAssumption DEF Lifecycle!Follows, Ended, Disturbed, Running, Cancelled
      <4> QED BY <3>2, <4>1, <4>2 DEF StartRun
    <3>3. CASE CompleteRun
      <4>1. /\ run.phase = "completing" /\ Running /\ Milestones = Begun
            /\ store_faults = 0 /\ run'.phase = "saving"
        BY <3>3, GoesTo DEF CompleteRun, RaisedFits, MilestonesFit
      <4>2. /\ Lifecycle!Follows("run.completed", FALSE)
            /\ ~Ended /\ ~Disturbed /\ (Running' => ~Ended')
        BY <4>1 DEF Lifecycle!Follows, Lifecycle!Begun, Begun, Ended, Disturbed, Running, Cancelled
      <4> QED BY <3>3, <4>1, <4>2 DEF CompleteRun
    <3> QED BY <1>3, <3>1, <3>2, <3>3
  <2>2. \/ /\ UNCHANGED <<raised, store_faults>>
           /\ Milestones' = Milestones \cup {type}
        \/ StoreRaises /\ Milestones' \in {Milestones, Milestones \cup {type}}
    BY <2>1, MilestoneOutcome DEF RunTypes
  <2>3. CASE UNCHANGED <<raised, store_faults>> /\ Milestones' = Milestones \cup {type}
    <3>1. ~Ended' /\ ~Disturbed'
      BY <2>1, <2>3 DEF Ended, Disturbed, Running
    <3>2. Lifecycle!Record(type)
      BY <2>1, <2>3, <3>1
         DEF Lifecycle!Record, Lifecycle!Pending, Lifecycle!Follows, Disturbed
    <3> QED BY <3>2 DEF Lifecycle!LifecycleNext, Lifecycle!Begun
  <2>4. CASE StoreRaises /\ Milestones' \in {Milestones, Milestones \cup {type}}
    <3>1. Disturbed' /\ Outcome' \in {"pending", "raised"}
      BY <1>0, <2>4, FaultCounted DEF Disturbed, Outcome
    <3>2. Lifecycle!Follows(type, TRUE)
      BY <2>1 DEF Lifecycle!Follows
    <3>3. Lifecycle!Disturb
      BY <2>1, <2>4, <3>1, <3>2
         DEF Lifecycle!Disturb, Lifecycle!Pending, Lifecycle!Begun, Disturbed, Outcome
    <3> QED BY <3>3 DEF Lifecycle!LifecycleNext
  <2> QED BY <2>2, <2>3, <2>4
<1>4. CASE SaveSucceeded
  <2>1. /\ run.phase = "saving" /\ Running /\ Milestones = Begun \cup {"run.completed"}
        /\ store_faults = 0 /\ ~Disturbed /\ ~Ended
        /\ run'.phase = (IF raised' = "none" THEN "ended" ELSE "saving")
        /\ UNCHANGED <<sequence, events>>
    BY <1>4, GoesTo
       DEF SaveSucceeded, SaveRun, Quiet, RaisedFits, MilestonesFit, Disturbed, Running, Ended,
           Cancelled
  <2>2. Milestones' = Milestones
    BY <2>1, MilestonesKept
  <2>3. CASE row' = SucceededRow /\ Quiet
    <3>1. row'.status = "succeeded" /\ Ended' /\ Running' /\ ~Disturbed'
      BY <2>1, <2>3 DEF SucceededRow, Quiet, Ended, Running, Disturbed, Cancelled
    <3>2. Lifecycle!Succeed
      BY <2>1, <2>2, <3>1
         DEF Lifecycle!Succeed, Lifecycle!Pending, Lifecycle!Begun, Begun, Disturbed
    <3> QED BY <3>2 DEF Lifecycle!LifecycleNext
  <2>4. CASE StoreRaises /\ row' \in {row, SucceededRow}
    <3>1. row'.status \in {row.status, "succeeded"} /\ ~Ended' /\ Disturbed'
      BY <1>0, <2>1, <2>4, FaultCounted DEF SucceededRow, Ended, Disturbed
    <3>2. Lifecycle!Disturb
      BY <2>1, <2>2, <3>1
         DEF Lifecycle!Disturb, Lifecycle!Pending, Lifecycle!Begun, Begun, Disturbed
    <3> QED BY <3>2 DEF Lifecycle!LifecycleNext
  <2> QED BY <1>4, <2>3, <2>4 DEF SaveSucceeded, SaveRun
<1>5. CASE FailRun
  <2>1. /\ Emit("run.failed", 0, raised) /\ row' = row /\ ~Ended /\ raised \in Errors
        /\ Lifecycle!Follows("run.failed", Disturbed)
        /\ run'.phase = (IF store_faults' = store_faults THEN "failing" ELSE "ended")
    <3>1. \/ Milestones = Begun
          \/ Milestones = Begun \cup {"run.completed"} /\ store_faults > 0
      BY <1>5, HandledStory DEF FailRun
    <3>2. Lifecycle!Follows("run.failed", Disturbed)
      BY <3>1 DEF Lifecycle!Follows, Lifecycle!Begun, Begun, Disturbed
    <3> QED BY <1>5, <3>2, HandledStory, GoesTo DEF FailRun, Handled, Ended
  <2>2. \/ /\ UNCHANGED <<raised, store_faults>>
           /\ Milestones' = Milestones \cup {"run.failed"}
        \/ StoreRaises /\ Milestones' \in {Milestones, Milestones \cup {"run.failed"}}
    BY <2>1, MilestoneOutcome DEF RunTypes
  <2>3. CASE UNCHANGED <<raised, store_faults>> /\ Milestones' = Milestones \cup {"run.failed"}
    <3>1. ~Ended' /\ Disturbed' = Disturbed
      BY <2>1, <2>3 DEF Ended, Disturbed
    <3>2. Lifecycle!Record("run.failed")
      BY <2>1, <2>3, <3>1 DEF Lifecycle!Record, Lifecycle!Pending, Disturbed
    <3> QED BY <3>2 DEF Lifecycle!LifecycleNext
  <2>4. CASE StoreRaises /\ Milestones' \in {Milestones, Milestones \cup {"run.failed"}}
    <3>1. Disturbed' /\ Outcome' \in {"pending", "raised"}
      BY <1>0, <2>4, FaultCounted DEF Disturbed, Outcome
    <3>2. Lifecycle!Follows("run.failed", TRUE)
      BY <2>1 DEF Lifecycle!Follows
    <3>3. Lifecycle!Disturb
      BY <2>1, <2>4, <3>1, <3>2 DEF Lifecycle!Disturb, Lifecycle!Pending, Disturbed, Outcome
    <3> QED BY <3>3 DEF Lifecycle!LifecycleNext
  <2> QED BY <2>2, <2>3, <2>4
<1>6. CASE SaveFailed
  <2>1. /\ run.phase = "failing" /\ raised \in Errors /\ "run.failed" \in Milestones /\ ~Ended
        /\ Ended' /\ UNCHANGED <<sequence, events>>
    BY <1>6, GoesTo
       DEF SaveFailed, SaveRun, Quiet, RaisedFits, MilestonesFit, RunTypes, Ended
  <2>2. Milestones' = Milestones
    BY <2>1, MilestonesKept
  <2>3. CASE row' = FailedRow /\ Quiet
    <3>1. row'.status = "failed" /\ ~Running' /\ Disturbed' = Disturbed
      BY <2>1, <2>3 DEF FailedRow, Quiet, Running, Disturbed, Errors
    <3>2. Lifecycle!Fail
      BY <2>1, <2>2, <3>1 DEF Lifecycle!Fail, Lifecycle!Pending, Disturbed
    <3> QED BY <3>2 DEF Lifecycle!LifecycleNext
  <2>4. CASE StoreRaises /\ row' \in {row, FailedRow}
    <3>1. row'.status \in {row.status, "failed"} /\ ~Running' /\ Disturbed'
      BY <1>0, <2>4, FaultCounted DEF FailedRow, Disturbed
    <3>2. Lifecycle!Disturb
      BY <2>1, <2>2, <3>1 DEF Lifecycle!Disturb, Lifecycle!Pending, Disturbed
    <3> QED BY <3>2 DEF Lifecycle!LifecycleNext
  <2> QED BY <1>6, <2>3, <2>4 DEF SaveFailed, SaveRun
<1>7. CASE CancelledRun
  <2>1. /\ raised = Cancelled /\ ~Ended /\ Ended'
        /\ UNCHANGED <<sequence, events, raised, store_faults, row>>
    BY <1>7, GoesTo DEF CancelledRun, contextVars, Ended
  <2>2. Milestones' = Milestones /\ ~Running' /\ Disturbed /\ Disturbed'
    BY <2>1, MilestonesKept DEF Running, Disturbed, Cancelled
  <2>3. Lifecycle!Abandon
    BY <2>1, <2>2 DEF Lifecycle!Abandon, Lifecycle!Pending, Disturbed
  <2> QED BY <2>3 DEF Lifecycle!LifecycleNext
<1>8. CASE UNCHANGED <<sequence, events, store_faults, raised, run, row>>
  <2>1. Unseen
    BY <1>8, MilestonesKept DEF Outcome, Disturbed, Ended, Running
  <2> QED BY <1>u, <2>1
<1> QED BY <1>1, <1>2, <1>3, <1>4, <1>5, <1>6, <1>7, <1>8, StepKinds DEF ConductorKinds

(* A run of any strategy, with any agents, tools, approvals and faults,    *)
(* behaves towards its caller and its readers as RunLifecycle says: the    *)
(* part of KeepsLifecycle about what may happen, without what must.        *)
THEOREM RunImplementsLifecycle ==
  Spec => Lifecycle!LifecycleInit /\ [][Lifecycle!LifecycleNext]_(Lifecycle!lifecycleVars)
<1>1. Init => Lifecycle!LifecycleInit
  BY DEF Init, ContextInit, Lifecycle!LifecycleInit, Milestones, Ended, Cancelled
<1>2. RunInv /\ [Next]_vars => [Lifecycle!LifecycleNext]_(Lifecycle!lifecycleVars)
  BY LifecycleMove
<1> QED BY <1>1, <1>2, RunInvariance, PTL DEF Spec

-----------------------------------------------------------------------------
(* The order of the rows: a row's number is above all numbers before it.   *)

Adds(types) ==
  \/ UNCHANGED <<sequence, events>>
  \/ /\ sequence' = sequence + 1
     /\ \/ events' = events
        \/ \E e : events' = events \cup {e} /\ e.sequence = sequence + 1 /\ e.type \in types

LogInv ==
  /\ sequence \in Nat
  /\ \A e \in events : e.sequence \in 1..sequence

LEMMA EmitAdds ==
  ASSUME NEW type, NEW task, NEW note, NEW error, EmitThen(type, task, note, error)
  PROVE  Adds({type})
BY DEF EmitThen, Appended, Row, Adds

LEMMA AddsKeepsLog ==
  ASSUME LogInv, NEW types, Adds(types)
  PROVE  LogInv' /\ events \subseteq events' /\ sequence' \in {sequence, sequence + 1}
BY DEF LogInv, Adds

(* What the conductor, the frames and the executor add to the log.         *)
Special == {"approval.requested", "approval.completed", "task.ready"}
Ordinarily == EventTypes \ Special

LEMMA AddsMore ==
  ASSUME NEW S, NEW T, S \subseteq T, Adds(S)
  PROVE  Adds(T)
BY DEF Adds

LEMMA StepAdds ==
  ASSUME FramesInv, [Next]_vars
  PROVE  \/ GateStep /\ GateFrame
         \/ TaskReady
         \/ Adds(Ordinarily)
<1> USE DEF Ordinarily, EventTypes, Special
<1>q. UNCHANGED <<sequence, events>> => Adds(Ordinarily)
  BY DEF Adds
<1>e. ASSUME NEW type \in Ordinarily, NEW task, NEW note, NEW error,
             EmitThen(type, task, note, error)
      PROVE  Adds(Ordinarily)
  <2>1. Adds({type})
    BY <1>e, EmitAdds
  <2> HIDE DEF Ordinarily
  <2> QED BY <1>e, <2>1 DEF Adds
<1>1. CASE ConductorStep
  <2>1. CASE CreateRun \/ StartRun \/ CompleteRun \/ FailRun
    BY <2>1, <1>e DEF CreateRun, StartRun, CompleteRun, FailRun, Emit
  <2>2. CASE SaveSucceeded \/ SaveFailed \/ CancelledRun
    BY <2>2, <1>q DEF SaveSucceeded, SaveFailed, CancelledRun, SaveRun, Quiet, contextVars
  <2> QED BY <1>1, <2>1, <2>2 DEF ConductorStep
<1>2. CASE WorkflowStep
  <2>1. CASE RequestPlan \/ ReceivePlan \/ PlanValidated
    BY <2>1, <1>e DEF RequestPlan, ReceivePlan, PlanValidated, Emit
  <2>2. CASE ValidatePlan \/ PlanRefused \/ PlanApproved \/ NextTask \/ TaskApproved \/ StartTask
    BY <2>2, <1>q DEF ValidatePlan, PlanRefused, PlanApproved, NextTask, TaskApproved, StartTask,
                      Raise, taskVars, contextVars
  <2>3. CASE StartPipeline
    BY <2>3, <1>q, <1>e DEF StartPipeline, Raise, Emit
  <2>4. CASE RouteTask
    BY <2>4, <1>q, <1>e DEF RouteTask, Raise, Emit
  <2>5. CASE KeepArtifact \/ Finalize \/ ReceiveFinalOutput
    BY <2>5, <1>q DEF KeepArtifact, Finalize, ReceiveFinalOutput, contextVars
  <2>6. CASE ClosePipeline
    BY <2>6, <1>e DEF ClosePipeline, Emit
  <2>7. CASE ExecuteTask
    <3>1. CASE BeginRevision \/ AnnounceArtifact \/ RequestReview
      BY <3>1, <1>e DEF BeginRevision, AnnounceArtifact, RequestReview, Emit
    <3>2. CASE RecordReview \/ CompleteTask \/ RequestRevision
      BY <3>2, <1>e DEF RecordReview, CompleteTask, RequestRevision, Emit
    <3>3. CASE StartTools \/ NextTool \/ ContinueWork \/ AcceptProduct \/ SaveArtifact
      BY <3>3, <1>q DEF StartTools, NextTool, ContinueWork, AcceptProduct, SaveArtifact,
                        StoreArtifact, Quiet, contextVars
    <3> QED BY <2>7, <3>1, <3>2, <3>3 DEF ExecuteTask, ExecutorStep
  <2> QED BY <1>2, <2>1, <2>2, <2>3, <2>4, <2>5, <2>6, <2>7 DEF WorkflowStep
<1>3. CASE CallStep
  <2>1. CASE AgentStep
    <3>1. CASE GuardRefuses
      BY <3>1, <1>q DEF GuardRefuses, Raise
    <3>2. CASE RequestModel \/ AnswerParses \/ AnswerMalformed \/ ProviderFails \/ RejectOutput
      BY <3>2, <1>e DEF RequestModel, AnswerParses, AnswerMalformed, ProviderFails, RejectOutput, Emit
    <3> QED BY <2>1, <3>1, <3>2 DEF AgentStep
  <2>2. CASE BrokerStep
    <3>1. CASE RefuseTool \/ BudgetRefusesTool \/ ToolApproved
      BY <3>1, <1>q DEF RefuseTool, BudgetRefusesTool, ToolApproved, Raise, contextVars
    <3>2. CASE RequestTool \/ ToolSucceeds \/ ToolFails
      BY <3>2, <1>e DEF RequestTool, ToolSucceeds, ToolFails, Emit
    <3> QED BY <2>2, <3>1, <3>2 DEF BrokerStep
  <2> QED BY <1>3, <2>1, <2>2 DEF CallStep, GateFrame
<1>4. CASE Cancel
  BY <1>4, <1>q DEF Cancel, CancelCall, CancelApproval, Raise
<1>5. CASE ClockPasses
  BY <1>5, <1>q DEF ClockPasses
<1>6. CASE UNCHANGED vars
  BY <1>6, <1>q DEF vars, taskVars, contextVars
<1> QED BY <1>1, <1>2, <1>3, <1>4, <1>5, <1>6 DEF Next, RunStep

LEMMA GateAdds ==
  ASSUME GateStep
  PROVE  /\ Adds({"approval.requested", "approval.completed"})
         /\ effects' = effects
<1>1. CASE RequestApproval
  BY <1>1, EmitAdds, AddsMore DEF RequestApproval, Emit, GateStep
<1>2. CASE Decide
  BY <1>2, EmitAdds, AddsMore DEF Decide, GateStep
<1>3. CASE ProviderUnavailable
  BY <1>3 DEF ProviderUnavailable, Raise, Adds, GateStep
<1> QED BY <1>1, <1>2, <1>3 DEF GateStep, ApprovalStep

LEMMA LogInvStep ==
  ASSUME FramesInv, LogInv, [Next]_vars
  PROVE  LogInv' /\ events \subseteq events' /\ sequence' \in {sequence, sequence + 1}
<1>1. CASE TaskReady
  BY <1>1, EmitAdds, AddsKeepsLog DEF TaskReady, Emit
<1>2. CASE GateStep
  BY <1>2, GateAdds, AddsKeepsLog
<1> QED BY <1>1, <1>2, StepAdds, AddsKeepsLog

-----------------------------------------------------------------------------
(* A rejection ends the run. *)

Rejections == {e \in OfType("approval.completed") : e.note = "rejected"}

RejectionInv ==
  /\ \A f \in effects : f.at \in 0..sequence
  /\ Rejections # {} => ~Running /\ "run.completed" \notin Milestones
  /\ \A e \in Rejections :
       /\ \A f \in events : f.sequence > e.sequence => f.type = "run.failed"
       /\ \A f \in effects : f.at < e.sequence

(* The tools' effects come before the outcome row, in a running run.       *)
LEMMA EffectsMove ==
  ASSUME [Next]_vars
  PROVE  \/ effects' = effects
         \/ /\ Running /\ effects' = effects \cup {Effect}
            /\ Adds({"tool.completed", "tool.failed"})
<1>1. CASE ToolSucceeds \/ ToolFails
  BY <1>1, EmitAdds, AddsMore DEF ToolSucceeds, ToolFails, Emit, Phase
<1>2. CASE RefuseTool \/ BudgetRefusesTool \/ RequestTool \/ ToolApproved
  BY <1>2 DEF RefuseTool, BudgetRefusesTool, RequestTool, ToolApproved
<1>3. CASE ConductorStep
  BY <1>3 DEF ConductorStep, CreateRun, StartRun, CompleteRun, SaveSucceeded, FailRun, SaveFailed,
              CancelledRun, below
<1>4. CASE WorkflowStep
  <2>1. CASE ExecuteTask
    BY <2>1 DEF ExecuteTask, ExecutorStep, BeginRevision, StartTools, NextTool, ContinueWork,
         AcceptProduct, SaveArtifact, AnnounceArtifact, RequestReview, RecordReview, CompleteTask,
         RequestRevision
  <2> QED BY <1>4, <2>1
          DEF WorkflowStep, RequestPlan, ReceivePlan, ValidatePlan, PlanRefused, PlanValidated,
              PlanApproved, StartPipeline, NextTask, TaskApproved, TaskReady, RouteTask, StartTask,
              KeepArtifact, Finalize, ReceiveFinalOutput, ClosePipeline, below, taskVars
<1>5. CASE CallStep
  BY <1>1, <1>2, <1>5, GateAdds DEF CallStep, BrokerStep
<1>6. CASE Cancel \/ (ClockPasses /\ UNCHANGED below) \/ UNCHANGED vars
  BY <1>6 DEF Cancel, below, vars, taskVars
<1> QED BY <1>3, <1>4, <1>5, <1>6 DEF Next, RunStep, below

LEMMA RejectionInvStep ==
  ASSUME RunInv, LogInv, RejectionInv, [Next]_vars
  PROVE  RejectionInv'
<1>1. /\ LogInv' /\ sequence \in Nat /\ sequence' \in {sequence, sequence + 1}
      /\ \A e \in events : e.sequence \in 1..sequence
  BY LogInvStep DEF RunInv, LogInv
<1>2. \A f \in effects' : f.at \in 0..sequence' /\ (f \in effects \/ (Running /\ f.at = sequence))
  BY <1>1, EffectsMove DEF RejectionInv, Effect
<1>3. CASE Rejections # {}
  <2>1. ~Running /\ "run.completed" \notin Milestones
    BY <1>3 DEF RejectionInv
  <2>2. /\ \/ UNCHANGED <<sequence, events>>
           \/ /\ sequence' = sequence + 1
              /\ \/ events' = events
                 \/ \E e : events' = events \cup {e} /\ e.sequence = sequence + 1 /\ e.type = "run.failed"
        /\ ~Running'
    <3>1. CASE FailRun
      <4>1. raised \in Errors /\ Adds({"run.failed"})
        BY <3>1, EmitAdds DEF FailRun, Handled, Emit
      <4>2. ~Running'
        BY <3>1, <4>1 DEF FailRun, Emit, EmitThen, Appended, StoreRaises, Running, Errors
      <4> QED BY <4>1, <4>2 DEF Adds
    <3>2. CASE SaveFailed \/ CancelledRun
      BY <2>1, <3>2 DEF SaveFailed, SaveRun, Quiet, StoreRaises, CancelledRun, contextVars, Running
    <3>3. CASE UNCHANGED <<sequence, events, store_faults, raised, run, row>>
      BY <2>1, <3>3 DEF Running
    <3> QED BY <2>1, <3>1, <3>2, <3>3, StepKinds
            DEF RunInv, ConductorKinds, WorkflowMove, CancelMove, CreateRun, StartRun, CompleteRun,
                SaveSucceeded, On
  <2>3. "run.completed" \notin Milestones'
    <3>1. \A e \in events' : e \in events \/ e.type = "run.failed"
      BY <2>2
    <3> QED BY <2>1, <3>1 DEF Milestones
  <2>4. Rejections' = Rejections
    BY <2>2 DEF Rejections, OfType
  <2>5. ASSUME NEW e \in Rejections'
        PROVE  /\ \A f \in events' : f.sequence > e.sequence => f.type = "run.failed"
               /\ \A f \in effects' : f.at < e.sequence
    BY <1>2, <2>1, <2>2, <2>4, <2>5 DEF RejectionInv
  <2> QED BY <1>2, <2>2, <2>3, <2>5 DEF RejectionInv
<1>4. CASE Rejections = {}
  <2>1. CASE Rejections' = {}
    BY <1>2, <2>1 DEF RejectionInv
  <2>2. CASE Rejections' # {}
    <3>1. GateStep /\ GateFrame
      <4>1. ~Adds(Ordinarily)
        BY <1>4, <2>2 DEF Adds, Ordinarily, Special, Rejections, OfType
      <4>2. ASSUME TaskReady PROVE FALSE
        <5>1. Adds({"task.ready"})
          BY <4>2, EmitAdds DEF TaskReady, Emit
        <5> QED BY <1>4, <2>2, <5>1 DEF Adds, Rejections, OfType
      <4> QED BY <4>1, <4>2, StepAdds DEF RunInv
    <3>2. Decide
      <4>1. ASSUME RequestApproval PROVE FALSE
        <5>1. Adds({"approval.requested"})
          BY <4>1, EmitAdds DEF RequestApproval, Emit
        <5> QED BY <1>4, <2>2, <5>1 DEF Adds, Rejections, OfType
      <4>2. ASSUME ProviderUnavailable PROVE FALSE
        BY <1>4, <2>2, <4>2 DEF ProviderUnavailable, Raise, Rejections, OfType
      <4> QED BY <3>1, <4>1, <4>2 DEF GateStep, ApprovalStep
    <3>3. PICK approved \in Decisions :
            EmitThen("approval.completed", approval.task, IF approved THEN "approved" ELSE "rejected",
                     IF approved THEN raised ELSE "ApprovalRejectedError")
      BY <3>2 DEF Decide
    <3>4. ~approved
      BY <1>4, <2>2, <3>3 DEF EmitThen, Appended, Row, Rejections, OfType
    <3>5. /\ ~Running' /\ sequence' = sequence + 1
          /\ \E e : events' = events \cup {e} /\ e.sequence = sequence + 1
                     /\ e.type = "approval.completed"
      <4>1. events' # events
        BY <1>4, <2>2 DEF Rejections, OfType
      <4> QED BY <3>3, <3>4, <4>1 DEF EmitThen, Appended, StoreRaises, Row, Running
    <3>6. "run.completed" \notin Milestones'
      <4>1. "run.completed" \notin Milestones
        BY <3>1, GateMoves DEF RunInv, StoryInv, MilestonesFit, Waiting, Workflow, Begun
      <4> QED BY <3>5, <4>1 DEF Milestones
    <3>7. effects' = effects
      BY <3>1, GateAdds
    <3>8. ASSUME NEW e \in Rejections' PROVE e.sequence = sequence + 1
      BY <1>4, <3>5 DEF Rejections, OfType
    <3>9. ASSUME NEW e \in Rejections'
          PROVE  /\ \A f \in events' : f.sequence > e.sequence => f.type = "run.failed"
                 /\ \A f \in effects' : f.at < e.sequence
      BY <1>1, <3>5, <3>7, <3>8 DEF RejectionInv
    <3> QED BY <1>2, <3>5, <3>6, <3>9 DEF RejectionInv
  <2> QED BY <2>1, <2>2
<1> QED BY <1>3, <1>4

(* Nothing is executed, and nothing but the failure recorded, once anybody *)
(* has rejected anything; such a run is never stored as succeeded.         *)
THEOREM RejectionsEndRuns == Spec => []RejectionEndsRun
<1> DEFINE Inv == RunInv /\ LogInv /\ RejectionInv
<1>1. Init => LogInv /\ RejectionInv
  BY DEF Init, ContextInit, BrokerInit, LogInv, RejectionInv, Rejections, OfType
<1>2. Inv /\ [Next]_vars => Inv'
  BY RunInvStep, LogInvStep, RejectionInvStep DEF RunInv
<1>3. ASSUME RunInv, RejectionInv PROVE RejectionEndsRun
  <2>1. row.status = "succeeded" => Rejections = {}
    BY <1>3 DEF RunInv, StoryInv, RowFits, RejectionInv
  <2> QED BY <1>3, <2>1 DEF RejectionEndsRun, RejectionInv, Rejections
<1> QED BY <1>1, <1>2, <1>3, StoryInvInit, PTL DEF Spec

-----------------------------------------------------------------------------
(* Approvals come before readiness. *)

RowAt(rows, n, type, note) == \E e \in rows : e.sequence = n /\ e.type = type /\ e.note = note

(* The rows of an approved request for action, the decision being row n.   *)
ApprovedAt(rows, n, action) ==
  /\ RowAt(rows, n - 1, "approval.requested", action)
  /\ RowAt(rows, n, "approval.completed", "approved")

(* The end of the log while the workflow waits for a decision.             *)
Handshake(action) ==
  /\ approval.phase \in {"asking", "waiting"} => approval.action = action
  /\ approval.phase = "waiting" => RowAt(events, sequence, "approval.requested", action)
  /\ approval.phase = "granted" => ApprovedAt(events, sequence, action)

Unplanned == {"new", "created", "plan_execute_review", "pipeline", "planning"}
TaskPhases == {"scheduling", "asking", "ready", "routing", "assigned", "executing"}

TrailInv ==
  /\ run.phase = "pipeline" => Strategy = "pipeline"
  /\ Running /\ run.phase = "approving" => Handshake("plan.execute")
  /\ Running /\ run.phase = "asking" => Handshake("task.execute")
  /\ Running /\ run.phase = "ready" /\ HighRisk(Current) => ApprovedAt(events, sequence, "task.execute")
  /\ Strategy = "plan_execute_review" /\ RequirePlanApproval /\ run.phase \in TaskPhases =>
       \E n \in 1..sequence : ApprovedAt(events, n, "plan.execute")

ReadyRowOK(rows, e) ==
  /\ Strategy = "plan_execute_review" /\ RequirePlanApproval =>
       \E n \in 1..(e.sequence - 1) : ApprovedAt(rows, n, "plan.execute")
  /\ HighRisk(e.task) => ApprovedAt(rows, e.sequence - 1, "task.execute")

ReadyInv ==
  /\ run.phase \in Unplanned => OfType("task.ready") = {}
  /\ \A e \in OfType("task.ready") : ReadyRowOK(events, e)

LEMMA ApprovedStays ==
  ASSUME NEW rows, NEW more, rows \subseteq more, NEW n, NEW action, ApprovedAt(rows, n, action)
  PROVE  ApprovedAt(more, n, action)
BY DEF ApprovedAt, RowAt

LEMMA HandshakeStep ==
  ASSUME GateStep, ShapeInv, LogInv, NEW action, Handshake(action), Running'
  PROVE  Handshake(action)'
<1>0. sequence \in Nat /\ sequence' - 1 \in Int
  BY GateAdds, AddsKeepsLog DEF LogInv
<1>1. CASE RequestApproval
  <2> DEFINE e == Row("approval.requested", approval.task, approval.action)
  <2>1. /\ sequence' = sequence + 1 /\ e.sequence = sequence' /\ e.type = "approval.requested"
        /\ e.note = action
    BY <1>1 DEF RequestApproval, Emit, EmitThen, Row, Handshake
  <2>2. events' = events \cup {e}
    BY <1>1 DEF RequestApproval, Emit, EmitThen, Appended, StoreRaises, Running
  <2>3. approval'.phase = "waiting" /\ approval'.action = action
    BY <1>1 DEF RequestApproval, ShapeInv, Handshake
  <2> HIDE DEF e
  <2>4. RowAt(events', sequence', "approval.requested", action)
    BY <2>1, <2>2 DEF RowAt
  <2> QED BY <2>3, <2>4 DEF Handshake
<1>2. CASE Decide
  <2>1. PICK approved \in Decisions :
          /\ EmitThen("approval.completed", approval.task, IF approved THEN "approved" ELSE "rejected",
                      IF approved THEN raised ELSE "ApprovalRejectedError")
          /\ approval' = [approval EXCEPT !.phase = IF approved THEN "granted" ELSE "idle"]
    BY <1>2 DEF Decide
  <2>2. approved /\ approval'.phase = "granted"
    <3>1. approved
      BY <2>1 DEF EmitThen, Appended, StoreRaises, Running
    <3> QED BY <2>1, <3>1 DEF ShapeInv
  <2> DEFINE e == Row("approval.completed", approval.task, "approved")
  <2>3. /\ sequence' = sequence + 1 /\ e.sequence = sequence' /\ e.type = "approval.completed"
        /\ e.note = "approved" /\ events' = events \cup {e}
    BY <2>1, <2>2 DEF EmitThen, Appended, StoreRaises, Row, Running
  <2>4. RowAt(events, sequence, "approval.requested", action)
    BY <1>2 DEF Decide, Handshake
  <2> HIDE DEF e
  <2>5. RowAt(events', sequence' - 1, "approval.requested", action)
    BY <1>0, <2>3, <2>4 DEF RowAt
  <2>6. RowAt(events', sequence', "approval.completed", "approved")
    BY <2>3 DEF RowAt
  <2> QED BY <2>2, <2>5, <2>6 DEF Handshake, ApprovedAt
<1>3. CASE ProviderUnavailable
  BY <1>3 DEF ProviderUnavailable, Raise, Running
<1> QED BY <1>1, <1>2, <1>3 DEF GateStep, ApprovalStep

(* The plan is approved and stays so. *)
PlanApprovedBefore(rows, last) == \E n \in 1..last : ApprovedAt(rows, n, "plan.execute")

LEMMA PlanApprovalStays ==
  ASSUME LogInv, NEW rows, events \subseteq rows, NEW last \in {sequence, sequence + 1},
         PlanApprovedBefore(events, sequence)
  PROVE  PlanApprovedBefore(rows, last)
<1>1. PICK n \in 1..sequence : ApprovedAt(events, n, "plan.execute")
  BY DEF PlanApprovedBefore
<1>2. ApprovedAt(rows, n, "plan.execute") /\ n \in 1..last
  BY <1>1, ApprovedStays DEF LogInv
<1> QED BY <1>2 DEF PlanApprovedBefore

LEMMA TrailInvStep ==
  ASSUME RunInv, LogInv, TrailInv, [Next]_vars
  PROVE  TrailInv'
<1> USE DEF RunInv
<1>0. /\ LogInv' /\ events \subseteq events' /\ sequence' \in {sequence, sequence + 1}
      /\ ShapeInv /\ FramesInv /\ run.phase \in RunPhases
      /\ sequence \in Nat /\ \A e \in events : e.sequence \in 1..sequence
  BY LogInvStep DEF FramesInv, LogInv
<1>a. PlanApprovedBefore(events, sequence) => PlanApprovedBefore(events', sequence')
  BY <1>0, PlanApprovalStays
<1>b. /\ Strategy = "plan_execute_review" /\ RequirePlanApproval /\ run.phase \in TaskPhases =>
           PlanApprovedBefore(events', sequence')
  BY <1>a DEF TrailInv, PlanApprovedBefore
(* A step into a phase that nothing is said of. *)
<1>c. ASSUME run'.phase \notin {"pipeline", "approving", "asking", "ready"},
             run'.phase \in TaskPhases => run.phase \in TaskPhases
      PROVE  TrailInv'
  BY <1>b, <1>c DEF TrailInv, PlanApprovedBefore
(* A step that leaves the run where it is, with nothing running. *)
<1>d. ASSUME run' = run, ~Running'
      PROVE  TrailInv'
  BY <1>b, <1>d DEF TrailInv, PlanApprovedBefore
<1>e. ASSUME UNCHANGED <<sequence, events, raised, approval, run, plan>>
      PROVE  TrailInv'
  BY <1>e DEF TrailInv, Handshake, Running, HighRisk, RiskOf, Current
<1>1. CASE ConductorStep
  <2>1. CASE StartRun
    <3>1. run'.phase \in {Strategy, "ended"}
      BY <2>1, GoesTo DEF StartRun
    <3> QED BY <3>1, StrategyAssumption DEF TrailInv, TaskPhases
  <2>2. CASE CreateRun \/ CompleteRun \/ SaveSucceeded \/ FailRun \/ SaveFailed \/ CancelledRun
    <3>1. run'.phase \in {"created", "saving", "failing", "ended"}
      BY <2>2, GoesTo DEF CreateRun, CompleteRun, SaveSucceeded, FailRun, SaveFailed, CancelledRun
    <3> QED BY <3>1, <1>c DEF TaskPhases
  <2> QED BY <1>1, <2>1, <2>2 DEF ConductorStep
<1>2. CASE RequestPlan \/ ReceivePlan \/ ValidatePlan \/ PlanRefused
  <2>1. run'.phase \in {"planning", "validating"}
    <3>1. CASE RequestPlan
      BY <3>1, GoesTo DEF RequestPlan
    <3>2. CASE ReceivePlan
      BY <1>0, <3>2 DEF ReceivePlan, ShapeInv
    <3>3. CASE ValidatePlan \/ PlanRefused
      BY <3>3 DEF ValidatePlan, PlanRefused, On
    <3> QED BY <1>2, <3>1, <3>2, <3>3
  <2> QED BY <2>1, <1>c DEF TaskPhases
<1>3. CASE PlanValidated
  <2>1. run'.phase = (IF RequirePlanApproval THEN "approving" ELSE "scheduling")
    BY <1>0, <1>3 DEF PlanValidated, ShapeInv
  <2>2. CASE RequirePlanApproval
    <3>1. approval'.phase = "asking" /\ approval'.action = "plan.execute"
      BY <1>3, <2>2 DEF PlanValidated, Asking
    <3> QED BY <2>1, <2>2, <3>1 DEF TrailInv, Handshake, TaskPhases
  <2>3. CASE ~RequirePlanApproval
    BY <2>1, <2>3 DEF TrailInv, TaskPhases
  <2> QED BY <2>2, <2>3, PlanApprovalAssumption
<1>4. CASE PlanApproved
  <2>1. /\ run'.phase = "scheduling" /\ Running /\ run.phase = "approving"
        /\ approval.phase = "granted" /\ UNCHANGED <<sequence, events>>
    BY <1>4, GoesTo DEF PlanApproved, On, contextVars
  <2>2. ApprovedAt(events, sequence, "plan.execute")
    BY <2>1 DEF TrailInv, Handshake
  <2>3. sequence \in 1..sequence
    BY <1>0, <2>2 DEF ApprovedAt, RowAt
  <2> QED BY <2>1, <2>2, <2>3 DEF TrailInv, TaskPhases
<1>5. CASE StartPipeline
  <2>1. run'.phase = "ready" /\ Strategy = "pipeline" /\ plan' = PipelinePlan
    BY <1>0, <1>5 DEF StartPipeline, On, TrailInv, ShapeInv
  <2>2. ~HighRisk(Current)'
    <3>1. \A i \in DOMAIN plan' : plan'[i].risk = "low"
      BY <2>1 DEF PipelinePlan
    <3> QED BY <3>1 DEF HighRisk, RiskOf
  <2> QED BY <2>1, <2>2 DEF TrailInv
<1>6. CASE NextTask
  <2>1. /\ run'.phase = (IF HighRisk(Current) THEN "asking" ELSE "ready") /\ run.phase = "scheduling"
        /\ plan' = plan /\ run'.todo = run.todo
        /\ HighRisk(Current) => approval'.phase = "asking" /\ approval'.action = "task.execute"
    BY <1>0, <1>6, GoesTo DEF NextTask, On, planVars, Goto, ShapeInv, Asking
  <2>2. HighRisk(Current)' = HighRisk(Current)
    BY <2>1 DEF HighRisk, RiskOf, Current
  <2>3. run'.phase \in TaskPhases => run.phase \in TaskPhases
    BY <2>1 DEF TaskPhases
  <2> QED BY <1>b, <2>1, <2>2, <2>3 DEF TrailInv, Handshake, PlanApprovedBefore
<1>7. CASE TaskApproved
  <2>1. /\ run'.phase = "ready" /\ run.phase = "asking" /\ Running
        /\ approval.phase = "granted" /\ UNCHANGED <<sequence, events>>
    BY <1>7, GoesTo DEF TaskApproved, On, contextVars
  <2>2. ApprovedAt(events, sequence, "task.execute")
    BY <2>1 DEF TrailInv, Handshake
  <2> QED BY <1>b, <2>1, <2>2 DEF TrailInv, TaskPhases, PlanApprovedBefore
<1>8. CASE TaskReady \/ RouteTask \/ StartTask \/ ExecuteTask \/ KeepArtifact
  <2>1. /\ run.phase \in TaskPhases
        /\ run'.phase \in {"routing", "assigned", "executing", "scheduling"}
    <3>1. CASE TaskReady \/ StartTask
      BY <3>1, GoesTo DEF TaskReady, StartTask, On, TaskPhases
    <3>2. CASE RouteTask
      <4>1. run.phase = "routing" /\ (run' = run \/ \E a \in Selected(Current) :
                                        run' = [run EXCEPT !.phase = "assigned", !.agent = a])
        BY <3>2 DEF RouteTask, On
      <4> QED BY <1>0, <4>1 DEF ShapeInv, TaskPhases
    <3>3. CASE ExecuteTask
      BY <3>3 DEF ExecuteTask, On, TaskPhases
    <3>4. CASE KeepArtifact
      BY <1>0, <3>4 DEF KeepArtifact, On, TaskPhases, ShapeInv
    <3> QED BY <1>8, <3>1, <3>2, <3>3, <3>4
  <2> QED BY <1>c, <2>1
<1>9. CASE Finalize \/ ReceiveFinalOutput \/ ClosePipeline
  <2>1. run'.phase \in {"finalizing", "closing", "completing"}
    <3>1. CASE Finalize \/ ClosePipeline
      BY <3>1, GoesTo DEF Finalize, ClosePipeline
    <3>2. CASE ReceiveFinalOutput
      BY <1>0, <3>2 DEF ReceiveFinalOutput, ShapeInv
    <3> QED BY <1>9, <3>1, <3>2
  <2> QED BY <1>c, <2>1 DEF TaskPhases
<1>10. CASE CallStep
  <2>1. run' = run /\ plan' = plan /\ run.phase \in Waiting
    BY <1>0, <1>10, AgentMoves, BrokerMoves, GateMoves
       DEF CallStep, AgentFrame, BrokerFrame, GateFrame, planVars
  <2>2. CASE run.phase \in {"planning", "executing", "finalizing"}
    BY <1>c, <2>1, <2>2 DEF TaskPhases
  <2>3. CASE run.phase \in {"approving", "asking"}
    <3>1. GateStep
      BY <1>0, <1>10, <2>3
         DEF CallStep, FramesInv, CallWaitedFor, ToolWaitedFor, AgentStep, GuardRefuses,
             RequestModel, AnswerParses, AnswerMalformed, ProviderFails, RejectOutput, BrokerStep,
             RefuseTool, BudgetRefusesTool, RequestTool, ToolApproved, ToolSucceeds, ToolFails, Phase
    <3>2. Running
      BY <3>1 DEF GateStep, ApprovalStep, RequestApproval, Decide, ProviderUnavailable
    <3>3. Running' /\ run.phase = "approving" => Handshake("plan.execute")'
      BY <1>0, <3>1, <3>2, HandshakeStep DEF TrailInv
    <3>4. Running' /\ run.phase = "asking" => Handshake("task.execute")'
      BY <1>0, <3>1, <3>2, HandshakeStep DEF TrailInv
    <3> QED BY <1>b, <2>1, <2>3, <3>3, <3>4 DEF TrailInv, PlanApprovedBefore
  <2> QED BY <2>1, <2>2, <2>3 DEF Waiting
<1>11. CASE Cancel /\ UNCHANGED <<planVars, run, row>>
  BY <1>11, <1>d DEF Cancel, CancelCall, CancelApproval, Raise, Running, Cancelled
<1>12. CASE ClockPasses /\ UNCHANGED <<below, planVars, run, row>>
  BY <1>12, <1>e DEF ClockPasses, below, planVars
<1>13. CASE UNCHANGED vars
  BY <1>13, <1>e DEF vars, taskVars, contextVars, planVars
<1> QED BY <1>1, <1>2, <1>3, <1>4, <1>5, <1>6, <1>7, <1>8, <1>9, <1>10, <1>11, <1>12, <1>13
        DEF Next, RunStep, WorkflowStep

(* Once there is a plan it stays, and the run never goes back before it.   *)
LEMMA PlanStays ==
  ASSUME FramesInv, [Next]_vars
  PROVE  /\ run'.phase \in Unplanned => run.phase \in Unplanned
         /\ run.phase \notin Unplanned => plan' = plan
<1> DEFINE Stays == /\ run'.phase \in Unplanned => run.phase \in Unplanned
                    /\ run.phase \notin Unplanned => plan' = plan
<1>0. ShapeInv
  BY DEF FramesInv
<1>1. CASE ConductorStep
  <2>1. CASE CreateRun \/ StartRun
    BY <2>1 DEF CreateRun, StartRun, On, Unplanned
  <2>2. CASE CompleteRun \/ SaveSucceeded \/ FailRun \/ SaveFailed \/ CancelledRun
    <3>1. run'.phase \in {"saving", "failing", "ended"}
      BY <2>2, GoesTo DEF CompleteRun, SaveSucceeded, FailRun, SaveFailed, CancelledRun
    <3>2. plan' = plan
      BY <2>2 DEF CompleteRun, SaveSucceeded, FailRun, SaveFailed, CancelledRun, planVars
    <3> QED BY <3>1, <3>2 DEF Unplanned
  <2> QED BY <1>1, <2>1, <2>2 DEF ConductorStep
<1>2. CASE RequestPlan \/ ReceivePlan \/ StartPipeline
  BY <1>2 DEF RequestPlan, ReceivePlan, StartPipeline, On, Unplanned
<1>3. CASE ValidatePlan \/ PlanRefused \/ PlanValidated \/ PlanApproved
  <2>1. plan' = plan
    BY <1>3 DEF ValidatePlan, ValidationStep, RefuseTooManyTasks, RefuseMalformed, StartSort, Pop,
                AcceptPlan, RefuseCycle, PlanRefused, PlanValidated, PlanApproved, planVars
  <2>2. run'.phase \in {"validating", "approving", "scheduling"}
    <3>1. CASE ValidatePlan \/ PlanRefused
      BY <3>1 DEF ValidatePlan, PlanRefused, On
    <3>2. CASE PlanValidated
      BY <1>0, <3>2 DEF PlanValidated, ShapeInv
    <3>3. CASE PlanApproved
      BY <3>3, GoesTo DEF PlanApproved
    <3> QED BY <1>3, <3>1, <3>2, <3>3
  <2> QED BY <2>1, <2>2 DEF Unplanned
<1>4. CASE NextTask \/ TaskApproved \/ TaskReady \/ RouteTask \/ StartTask
  <2>1. plan' = plan
    BY <1>4 DEF NextTask, TaskApproved, TaskReady, RouteTask, StartTask, planVars
  <2>2. run'.phase \in TaskPhases
    <3>1. CASE NextTask \/ TaskApproved \/ TaskReady \/ StartTask
      BY <3>1, GoesTo DEF NextTask, TaskApproved, TaskReady, StartTask, TaskPhases
    <3>2. CASE RouteTask
      <4>1. run.phase = "routing" /\ (run' = run \/ \E a \in Selected(Current) :
                                        run' = [run EXCEPT !.phase = "assigned", !.agent = a])
        BY <3>2 DEF RouteTask, On
      <4> QED BY <1>0, <4>1 DEF ShapeInv, TaskPhases
    <3> QED BY <1>4, <3>1, <3>2
  <2> QED BY <2>1, <2>2 DEF Unplanned, TaskPhases
<1>5. CASE ExecuteTask \/ KeepArtifact \/ Finalize \/ ReceiveFinalOutput \/ ClosePipeline
  <2>1. plan' = plan
    BY <1>5 DEF ExecuteTask, KeepArtifact, Finalize, ReceiveFinalOutput, ClosePipeline, planVars
  <2>2. run'.phase \in {"executing", "scheduling", "finalizing", "closing", "completing"}
    <3>1. CASE ExecuteTask
      BY <3>1 DEF ExecuteTask, On
    <3>2. CASE KeepArtifact \/ ReceiveFinalOutput
      BY <1>0, <3>2 DEF KeepArtifact, ReceiveFinalOutput, ShapeInv
    <3>3. CASE Finalize \/ ClosePipeline
      BY <3>3, GoesTo DEF Finalize, ClosePipeline
    <3> QED BY <1>5, <3>1, <3>2, <3>3
  <2> QED BY <2>1, <2>2 DEF Unplanned
<1>6. CASE UNCHANGED <<plan, run>>
  BY <1>6
<1>7. CASE CallStep
  BY <1>6, <1>7 DEF CallStep, planVars
<1> QED BY <1>1, <1>2, <1>3, <1>4, <1>5, <1>6, <1>7
        DEF Next, RunStep, WorkflowStep, planVars, vars

LEMMA ReadyRowStays ==
  ASSUME NEW rows, events \subseteq rows, NEW e, ReadyRowOK(events, e)
  PROVE  ReadyRowOK(rows, e)
BY ApprovedStays DEF ReadyRowOK

LEMMA ReadyInvStep ==
  ASSUME RunInv, LogInv, TrailInv, ReadyInv, [Next]_vars
  PROVE  ReadyInv'
<1> USE DEF RunInv
<1>1. FramesInv /\ events \subseteq events' /\ sequence \in Nat
  BY LogInvStep DEF LogInv
<1>2. /\ run'.phase \in Unplanned => run.phase \in Unplanned
      /\ run.phase \notin Unplanned => plan' = plan
  BY <1>1, PlanStays
<1>3. CASE OfType("task.ready")' = OfType("task.ready")
  <2>1. run.phase \in Unplanned => ReadyInv'
    BY <1>2, <1>3 DEF ReadyInv
  <2>2. ASSUME run.phase \notin Unplanned PROVE ReadyInv'
    <3>1. \A e \in OfType("task.ready") : ReadyRowOK(events', e)
      BY <1>1, ReadyRowStays DEF ReadyInv
    <3> QED BY <1>2, <1>3, <2>2, <3>1 DEF ReadyInv, ReadyRowOK, HighRisk, RiskOf
  <2> QED BY <2>1, <2>2
<1>4. CASE TaskReady
  <2>1. /\ run.phase = "ready" /\ Running /\ plan' = plan /\ run'.phase = "routing"
    BY <1>1, <1>4, GoesTo DEF TaskReady, On, planVars
  <2>2. EmitThen("task.ready", Current, "", raised)
    BY <1>4 DEF TaskReady, Emit
  <2>3. \A e \in events' : e \in events \/ (e.sequence = sequence + 1 /\ e.task = Current)
    <3> DEFINE ready == Row("task.ready", Current, "")
    <3>1. ready.sequence = sequence + 1 /\ ready.task = Current
      BY DEF Row
    <3>2. events' \subseteq events \cup {ready}
      BY <2>2 DEF EmitThen, Appended
    <3> HIDE DEF ready
    <3> QED BY <3>1, <3>2
  <2>4. ASSUME NEW e, e.sequence = sequence + 1, e.task = Current
        PROVE  ReadyRowOK(events', e)
    <3>1. (sequence + 1) - 1 = sequence
      BY <1>1
    <3>2. HighRisk(Current) => ApprovedAt(events', sequence, "task.execute")
      BY <1>1, <2>1, ApprovedStays DEF TrailInv
    <3>3. Strategy = "plan_execute_review" /\ RequirePlanApproval =>
            \E n \in 1..sequence : ApprovedAt(events', n, "plan.execute")
      BY <1>1, <2>1, ApprovedStays DEF TrailInv, TaskPhases
    <3> QED BY <2>4, <3>1, <3>2, <3>3 DEF ReadyRowOK
  <2>5. \A e \in OfType("task.ready") : ReadyRowOK(events', e)
    BY <1>1, ReadyRowStays DEF ReadyInv
  <2>6. \A e \in OfType("task.ready")' : ReadyRowOK(events', e)
    BY <2>3, <2>4, <2>5 DEF OfType
  <2> QED BY <2>1, <2>6 DEF ReadyInv, ReadyRowOK, HighRisk, RiskOf, Unplanned
<1>5. ASSUME NEW types, Adds(types), "task.ready" \notin types
      PROVE  OfType("task.ready")' = OfType("task.ready")
  BY <1>5 DEF Adds, OfType
<1>6. CASE GateStep
  BY <1>3, <1>5, <1>6, GateAdds
<1>7. CASE Adds(Ordinarily)
  BY <1>3, <1>5, <1>7 DEF Ordinarily, Special
<1> QED BY <1>1, <1>4, <1>6, <1>7, StepAdds

(* No task of a run becomes ready before the approvals its team asks for:  *)
(* the plan's, and its own when it is a high-risk task.                    *)
THEOREM TasksApprovedBeforeReady == Spec => []ApprovedBeforeReady
<1> DEFINE Inv == RunInv /\ LogInv /\ TrailInv /\ ReadyInv
<1>1. Init => LogInv /\ TrailInv /\ ReadyInv
  BY DEF Init, ContextInit, LogInv, TrailInv, ReadyInv, OfType, TaskPhases
<1>2. Inv /\ [Next]_vars => Inv'
  BY RunInvStep, LogInvStep, TrailInvStep, ReadyInvStep DEF RunInv
<1>3. ASSUME LogInv, ReadyInv PROVE ApprovedBeforeReady
  <2>1. SUFFICES ASSUME NEW e \in OfType("task.ready")
                 PROVE  /\ Strategy = "plan_execute_review" /\ RequirePlanApproval =>
                             \E n \in 1..(e.sequence - 1) :
                               /\ EventAt(n - 1, "approval.requested", "plan.execute")
                               /\ EventAt(n, "approval.completed", "approved")
                        /\ "high" \in RiskOf(e.task) =>
                             /\ EventAt(e.sequence - 2, "approval.requested", "task.execute")
                             /\ EventAt(e.sequence - 1, "approval.completed", "approved")
    BY DEF ApprovedBeforeReady
  <2>2. e.sequence \in Nat /\ (e.sequence - 1) - 1 = e.sequence - 2
    BY <1>3, <2>1 DEF LogInv, OfType
  <2>3. ReadyRowOK(events, e)
    BY <1>3, <2>1 DEF ReadyInv
  <2> QED BY <2>2, <2>3 DEF ReadyRowOK, ApprovedAt, RowAt, EventAt, HighRisk
<1> QED BY <1>1, <1>2, <1>3, StoryInvInit, PTL DEF Spec

=============================================================================
