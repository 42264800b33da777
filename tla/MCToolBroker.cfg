SPECIFICATION BrokerSpec
CONSTANTS
  MaxModelCalls = 1
  MaxToolCalls = 3
  MaxStoreFaults = 1
  Decisions = {TRUE, FALSE}
  Tools <- MCTools
  Gated <- MCGated
INVARIANTS
  BrokerTypeOK
  GatedEffectsApproved
  EffectsWithinBudget
