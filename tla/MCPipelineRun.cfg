SPECIFICATION Spec
CONSTANTS
  MaxModelCalls = 6
  MaxToolCalls = 2
  MaxStoreFaults = 1
  MaxParseRetries = 1
  MaxRevisions = 1
  MaxTasks = 2
  Strategy = "pipeline"
  RequirePlanApproval = FALSE
  Decisions = {TRUE, FALSE}
  Plans <- OnePlan
  Capabilities <- MCCapabilities
  SpecialistCaps <- MCSpecialistCaps
  SpecialistTools <- MCSpecialistTools
  Tools <- MCTools
  Gated <- MCGated
  Outputs <- PipelineAnswers
INVARIANTS
  OutcomeConsistent
PROPERTY
  RunEnds
