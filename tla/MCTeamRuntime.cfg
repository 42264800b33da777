SPECIFICATION Spec
CONSTANTS
  p = p
  q = q
  r1 = r1
  r2 = r2
  NoConnection = NoConnection
  Connections = {p, q}
  Runs = {r1, r2}
  Clients = 1
  Unlucky = {r1}
INVARIANTS
  RuntimeTypeOK
  ReturnedRunsDurable
  UnrecordedOnlyByCause
  InspectedRunComplete
PROPERTIES
  KeepsAuditLog
  BegunRunsEnd
CHECK_DEADLOCK FALSE
