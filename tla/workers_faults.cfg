SPECIFICATION Spec
CONSTANTS
  EventStream = TRUE
  Requests = {"pause", "retry", "recover", "resume"}
  ExitKinds = {"zero", "crash"}
  MaxEmptyRetries = 2
  MaxDeaths = 1
  ReplacementCap = 3
  MaxAttempts = 2
  MaxCommits = 1
  MaxTimeouts = 1
  MaxCrashes = 1
  MaxOperations = 1
INVARIANTS
  DoneByWork
PROPERTIES
  KeepsTheLedger
