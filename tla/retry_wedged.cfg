\* A quick fix that is retried after its merge failed.
SPECIFICATION MergeSpec
CONSTANTS
  TaskKind = "quickfix"
  VerificationPolicy = "local_automated"
  IntegrationPolicy = "auto_merge"
  Actors = {alice}
  alice = alice
  MaxCommits = 3
  MaxRounds = 2
  MaxRequests = 0
  MaxComments = 0
  MaxRestarts = 1
  MaxCrashes = 0
  MaxMergeRetries = 2
  MaxMergers = 2
  MaxTimeouts = 0
PROPERTIES
  TestingReadyResolves
CHECK_DEADLOCK FALSE
