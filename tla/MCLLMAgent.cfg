SPECIFICATION AgentSpec
CONSTANTS
  MaxModelCalls = 4
  MaxToolCalls = 1
  MaxStoreFaults = 1
  Outputs <- MCOutputs
  MaxParseRetries = 2
INVARIANTS
  AgentTypeOK
  HistoryIntact
  ModelCallsWithinBudget
  AuditTrailComplete
  GivesUpAfterAllRetries
