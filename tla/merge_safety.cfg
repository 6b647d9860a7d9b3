\* A parent under auto_merge: mergers that time out, die, outlive a restart
\* or race each other, while a client reworks.
SPECIFICATION MergeSpec
CONSTANTS
  TaskKind = "parent"
  VerificationPolicy = "external_ack"
  IntegrationPolicy = "auto_merge"
  Actors = {alice}
  alice = alice
  MaxCommits = 3
  MaxRounds = 2
  MaxRequests = 2
  MaxComments = 0
  MaxRestarts = 0
  MaxCrashes = 1
  MaxMergeRetries = 2
  MaxMergers = 2
  MaxTimeouts = 1
INVARIANTS
  MergeTypeOK
  ParkedDeliveryHasEvidence
  LandedWasAuthorized
  LandsOnce
  DoneIsProven
  TickOwnsMerging
  HostReworkIsExclusive
PROPERTY
  KeepsTheContract
CHECK_DEADLOCK FALSE
