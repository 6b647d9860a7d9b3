SPECIFICATION FairSpec
CONSTANTS
  EventStream = FALSE
  Requests = {"retry", "resume"}
  ExitKinds = {"zero", "crash"}
  MaxEmptyRetries = 2
  MaxDeaths = 1
  ReplacementCap = 3
  MaxAttempts = 5
  MaxCommits = 2
  MaxTimeouts = 0
  MaxCrashes = 0
  MaxOperations = 1
INVARIANTS
  WorkerTypeOK
  OneWorkerOnBranch
  DeathsAreCharged
PROPERTIES
  ExitIsConsumed
  ZeroExitMovesOn
  SubtaskEnds
