SPECIFICATION Spec
CONSTANTS
  a1 = a1
  a2 = a2
  r1 = r1
  r2 = r2
  r3 = r3
  Apis <- OneApi
  Reqs <- TwoReqs
  Roles <- SomeRoles
  FaultKinds <- NoFaults
  MaxFaults = 0
  MaxInFlight = 2
SYMMETRY Interchangeable
CHECK_DEADLOCK FALSE
INVARIANTS
  DeniedIsAudited
