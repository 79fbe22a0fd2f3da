SPECIFICATION SmallSpec
CONSTANTS
  a1 = a1
  a2 = a2
  r1 = r1
  r2 = r2
  r3 = r3
  Apis <- TwoApis
  Reqs <- ThreeReqs
  Roles <- AllRoles
  FaultKinds <- AllFaults
  MaxFaults = 2
  MaxInFlight = 3
SYMMETRY Interchangeable
CHECK_DEADLOCK FALSE
INVARIANTS
  IInv
  JobWithTicket
  OnlyOperatorsMutate
  AuditFaithful
  AdmittedAudited
  GaugeUnlessOvertaken
  CountersAccount
PROPERTIES
  TicketLife
