SPECIFICATION Spec
CONSTANTS
  MaxModelCalls = 5
  MaxToolCalls = 1
  MaxStoreFaults = 0
  MaxParseRetries = 0
  MaxRevisions = 0
  MaxTasks = 2
  Strategy = "plan_execute_review"
  RequirePlanApproval = FALSE
  Decisions = {TRUE, FALSE}
  Plans <- OnePlan
  Capabilities <- MCCapabilities
  SpecialistCaps <- MCSpecialistCaps
  SpecialistTools <- MCSpecialistTools
  Tools <- MCTools
  Gated <- MCGated
  Outputs <- FaultAnswers
INVARIANT
  SucceededWithinRuntime
