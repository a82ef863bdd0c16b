SPECIFICATION FairSpec
CONSTANTS
  Actions <- OneAction
  TailLimit = 2
  MaxJobs = 2
  MaxLines = 3
  MaxFaults = 2
  MaxRestarts = 2
  Durable = TRUE
  ReconcileOnBoot = TRUE
INVARIANTS TypeOK LaneHeld OnlyFaultsOrphan TailIsLatest
PROPERTIES VerdictIsFinal ImplementsRunner JobsEnd
CHECK_DEADLOCK FALSE
