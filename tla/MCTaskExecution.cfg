SPECIFICATION TaskSpec
CONSTANTS
  MaxModelCalls = 5
  MaxToolCalls = 3
  MaxStoreFaults = 1
  MaxParseRetries = 1
  MaxRevisions = 1
  Decisions = {TRUE, FALSE}
  Tools <- MCTools
  Gated <- MCGated
  Outputs <- MCOutputs
INVARIANTS
  TaskTypeOK
  ObservationsOfRevision
  OneArtifactPerRevision
  CompletedMeansReviewed
  RevisionsOnRequest
