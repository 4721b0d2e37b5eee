SPECIFICATION FairSpec
CONSTANTS
  Jobs = {1}
  Items = {1, 2}
  JobOf <- OneJob
  Concurrency <- OneAtATime
  Urgent = 2
  Prios = {1, 2}
  InitPrio <- AllNormal
  Budget = 2
  Reserved = 1
  RetrySets <- FailedOnly
  Slots = {1}
  MaxCrashes = 1
  MaxRetries = 1
  OpMixes = {{"cancel"}, {"crash", "cancelItem"}, {"crash", "panic"}, {"crash", "reconcile"}}
INVARIANTS
  WindowRespected
  RunsAreHeld
  FinishedIsDrained
PROPERTIES
  JobsSettle
  SlotIsReturned
CHECK_DEADLOCK FALSE
