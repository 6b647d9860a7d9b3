\* A comment during a merge attempt that ends in a failed push.
SPECIFICATION MergeSpec
CONSTANTS
  TaskKind = "parent"
  VerificationPolicy = "local_automated"
  IntegrationPolicy = "auto_merge"
  Actors = {alice}
  alice = alice
  MaxCommits = 2
  MaxRounds = 1
  MaxRequests = 0
  MaxComments = 1
  MaxRestarts = 0
  MaxCrashes = 0
  MaxMergeRetries = 2
  MaxMergers = 2
  MaxTimeouts = 0
PROPERTIES
  VersionIsMonotone
CHECK_DEADLOCK FALSE
