\* A quick fix under the automatic policies: gates that fail and repeat,
\* retries that start over on a moved target, rewritten branches.
SPECIFICATION Spec
CONSTANTS
  TaskKind = "quickfix"
  VerificationPolicy = "local_automated"
  IntegrationPolicy = "auto_merge"
  Actors = {alice}
  alice = alice
  MaxCommits = 4
  MaxRounds = 2
  MaxRequests = 1
  MaxComments = 0
  MaxRestarts = 1
  MaxCrashes = 1
INVARIANTS
  ArtifactsContainTheirBase
PROPERTIES
  TestingReadyResolves
CHECK_DEADLOCK FALSE
