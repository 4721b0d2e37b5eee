SPECIFICATION Spec
CONSTANTS
  Jobs = {1}
  Items = {1, 2}
  JobOf <- OneJob
  Concurrency <- TwoAtATime
  Urgent = 2
  Prios = {1, 2}
  InitPrio <- AllNormal
  Budget = 1
  Reserved = 1
  RetrySets <- FailedOrRunning
  Slots = {1, 2}
  MaxCrashes = 1
  MaxRetries = 1
  OpMixes = {{"cancel", "delete"}, {"cancelItem", "delete"}, {"retry"}, {"before", "later", "schedule"}, {"prio"}, {"crash", "reconcile", "cancel"}, {"crash", "cancel", "cancelItem", "panic"}}
INVARIANTS
  StoreSound
  BudgetRespected
  JobCancelReachesRuns
  CompletionRecorded
  NeverRunTwice
  RunOnceOrNever
PROPERTIES
  ClosedJobsNeverStart
CHECK_DEADLOCK FALSE
