SPECIFICATION Spec
CONSTANTS
  MaxModelCalls = 7
  MaxToolCalls = 1
  MaxStoreFaults = 0
  MaxParseRetries = 1
  MaxRevisions = 1
  MaxTasks = 2
  Strategy = "plan_execute_review"
  RequirePlanApproval = TRUE
  Decisions = {TRUE, FALSE}
  Plans <- MCPlans
  Capabilities <- MCCapabilities
  SpecialistCaps <- MCSpecialistCaps
  SpecialistTools <- MCSpecialistTools
  Tools <- MCTools
  Gated <- MCGated
  Outputs <- PlannedAnswers
INVARIANTS
  RunTypeOK
  DependenciesCompleteFirst
  ApprovedBeforeReady
  RejectionEndsRun
  ValidatedPlansNeverGetStuck
  SucceededRunComplete
