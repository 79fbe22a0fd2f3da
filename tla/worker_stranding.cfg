SPECIFICATION FairSpec
CONSTANTS
  w1 = w1
  w2 = w2
  Jobs <- OneJob
  Workers <- TwoWorkers
  Unknown <- OneJob
  Stubbed <- SecondOnly
  NoJob = NoJob
  NoWorker = NoWorker
  MaxAttempts = 2
  FaultKinds <- StopFault
  MaxFaults = 1
PROPERTIES
  EveryJobSettles
