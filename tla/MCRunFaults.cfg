SPECIFICATION Spec
CONSTANTS
  MaxModelCalls = 6
  MaxToolCalls = 1
  MaxStoreFaults = 2
  MaxParseRetries = 1
  MaxRevisions = 1
  MaxTasks = 2
  Strategy = "plan_execute_review"
  RequirePlanApproval = TRUE
  Decisions = {TRUE, FALSE}
  Plans <- MCPlans
  Capabilities <- MCCapabilities
  SpecialistCaps <- MCSpecialistCaps
  SpecialistTools <- MCSpecialistTools
  Tools <- MCTools
  Gated <- MCGated
  Outputs <- DisturbedAnswers
INVARIANTS
  OutcomeConsistent
PROPERTY
  KeepsLifecycle
