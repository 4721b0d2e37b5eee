SPECIFICATION Spec
CONSTANTS
  Jobs = {1}
  Items = {1, 2}
  JobOf <- OneJob
  Concurrency <- OneAtATime
  Urgent = 2
  Prios = {1, 2}
  InitPrio <- AllNormal
  Budget = 1
  Reserved = 1
  RetrySets <- FailedOnly
  Slots = {1, 2}
  MaxCrashes = 1
  MaxRetries = 1
  OpMixes = {{"retry"}, {"retry", "cancel"}, {"retry", "reconcile"}, {"retry", "before"}}
INVARIANTS
  FinishedIsDrained
  ItemCancelReachesRun
  SlotForLifetime
  ExpiredNeverRan
PROPERTIES
  RetryRevivesOnlyFinishedRows
CHECK_DEADLOCK FALSE
