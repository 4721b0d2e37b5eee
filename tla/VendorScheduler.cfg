SPECIFICATION FairSpec
CONSTANTS
  Requests = {1, 2, 3, 4}
  Mixes <- AllMixes
  Policies <- Rates
  QueueLimit = 2
  QueueWait = 2
  Concurrency = 2
  Cooldowns <- Waits
  RetryAfters = {0, 5}
  FlightMax = 2
  Horizon = 7
INVARIANTS
  SourceProtected
  NoMissedWakeup
PROPERTIES
  StartsAsAllowed
  ReadersFirst
  EveryRequestAnswered
CHECK_DEADLOCK FALSE
