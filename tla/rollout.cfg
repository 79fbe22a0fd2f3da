SPECIFICATION SmallFairSpec
CONSTANTS
  w1 = w1
  a1 = a1
  a2 = a2
  Jobs <- OneJob
  Workers <- OneWorker
  Apis <- TwoApis
  Procs <- ThreeProcs
  Unknown <- Nobody
  Stubbed <- Nobody
  NoJob = NoJob
  NoWorker = NoWorker
  MaxAttempts = 2
  FaultKinds <- Crashes
  MaxFaults = 2
  MaxDeaths = 2
  Builds = 3
  Serial <- Second
  Replaced <- Third
INVARIANTS
  RolloutInv
  AloneNeverFails
  WakeupUnlessSilent
PROPERTIES
  SilentOnlyInRollout
  EveryProcessStarts
  SilentIsClaimed
