SPECIFICATION FairSpec
CONSTANTS
  EventStream = FALSE
  Plans <- MCPlans
  MaxPlannerSpawns = 2
  MaxPlannerFailures = 0
  MaxClarificationRounds = 1
  MaxTestRejections = 2
  MaxOperations = 2
  MaxFaults = 2
INVARIANTS
  PlanTypeOK
  DependenciesFirst
  FilesAreExclusive
  WavesRespectPlan
  TestsComeFirst
  DeliversThePlan
PROPERTIES
  ReviewedPlanIsStable
  ReachesAGate
\* The task ends in testing_ready or failed, or waits for an operator.
CHECK_DEADLOCK FALSE
