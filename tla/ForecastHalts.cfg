SPECIFICATION Spec
CONSTANTS
  Evaluators = {"e1", "e2"}
  Checkpoints = {"d1", "d2"}
  Nth <- Later
  Mixes <- Resumed
  RetryTicks = 2
  MinAttempts = 3
  Silence = 1
  Backoff <- Waits
  Lags = {0, 1, 3}
  Horizon = 15
INVARIANTS
  HaltsSettle
CHECK_DEADLOCK FALSE
