CONSTANTS
  Signals = {1, 2}
  Sleepers = {arb}
  Optional = {"mev"}
  MaxRestarts = 2
  FailureBudget = 3
SPECIFICATION FairSpec
CHECK_DEADLOCK FALSE
INVARIANTS
  ShutdownIsFinal
PROPERTIES
  StopReachesLoops
  DashboardRetried
