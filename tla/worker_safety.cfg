SPECIFICATION Spec
CONSTANTS
  w1 = w1
  w2 = w2
  Jobs <- TwoJobs
  Workers <- TwoWorkers
  Unknown <- BadJob
  Stubbed <- SecondOnly
  NoJob = NoJob
  NoWorker = NoWorker
  MaxAttempts = 2
  FaultKinds <- AllFaults
  MaxFaults = 2
INVARIANTS
  IInv
  ExclusiveProcessing
  AttemptsBounded
  AckedNeverRetried
  DoneMeansDelivered
  NoLostWakeup
PROPERTIES
  RowHistory
  ImplementsQueue
