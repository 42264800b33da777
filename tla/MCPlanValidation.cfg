SPECIFICATION PlanSpec
CONSTANTS
  Plans <- MCPlans
  Capabilities <- MCCapabilities
  SpecialistCaps <- MCSpecialistCaps
  MaxTasks = 4
INVARIANTS
  PlanTypeOK
  CountersExact
  ScheduledOnce
  OrderRespectsDependencies
  RefusedIffCyclic
