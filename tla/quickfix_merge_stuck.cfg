\* A quick fix whose base was recorded as a commit id.
SPECIFICATION MergeSpec
CONSTANTS
  TaskKind = "quickfix"
  VerificationPolicy = "local_automated"
  IntegrationPolicy = "auto_merge"
  Actors = {alice}
  alice = alice
  MaxCommits = 2
  MaxRounds = 1
  MaxRequests = 0
  MaxComments = 0
  MaxRestarts = 0
  MaxCrashes = 0
  MaxMergeRetries = 2
  MaxMergers = 2
  MaxTimeouts = 0
PROPERTIES
  MergingResolves
CHECK_DEADLOCK FALSE
