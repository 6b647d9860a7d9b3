\* A parent whose merger waits never time out: every merge attempt and every
\* gate comes to an end.
SPECIFICATION MergeSpec
CONSTANTS
  TaskKind = "parent"
  VerificationPolicy = "local_automated"
  IntegrationPolicy = "auto_merge"
  Actors = {alice}
  alice = alice
  MaxCommits = 3
  MaxRounds = 2
  MaxRequests = 1
  MaxComments = 1
  MaxRestarts = 0
  MaxCrashes = 0
  MaxMergeRetries = 2
  MaxMergers = 5
  MaxTimeouts = 0
PROPERTIES
  DecisionsSeeTheirState
  MergingResolves
CHECK_DEADLOCK FALSE
