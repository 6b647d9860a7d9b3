\* A merger that outlives the tick that waited for it.
SPECIFICATION MergeSpec
CONSTANTS
  TaskKind = "parent"
  VerificationPolicy = "local_automated"
  IntegrationPolicy = "auto_merge"
  Actors = {alice}
  alice = alice
  MaxCommits = 3
  MaxRounds = 1
  MaxRequests = 0
  MaxComments = 0
  MaxRestarts = 0
  MaxCrashes = 0
  MaxMergeRetries = 2
  MaxMergers = 2
  MaxTimeouts = 1
PROPERTIES
  OnlyMergingLands
CHECK_DEADLOCK FALSE
