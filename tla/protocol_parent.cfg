\* A task with subtasks, verified and integrated by external clients: what
\* stale, repeated and interleaved requests of two clients can do.
SPECIFICATION Spec
CONSTANTS
  TaskKind = "parent"
  VerificationPolicy = "external_ack"
  IntegrationPolicy = "prepare_branch"
  Actors = {alice, bob}
  alice = alice
  bob = bob
  MaxCommits = 3
  MaxRounds = 2
  MaxRequests = 3
  MaxComments = 1
  MaxRestarts = 1
  MaxCrashes = 1
SYMMETRY ActorSymmetry
INVARIANTS
  EvidenceIsConsistent
  RepairsDescend
PROPERTIES
  TransitionsAreValid
CHECK_DEADLOCK FALSE
