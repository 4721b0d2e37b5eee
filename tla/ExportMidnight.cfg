SPECIFICATION Spec
CONSTANTS
  Jobs = {1, 2}
  Users = {"reader", "admin"}
  Readers = {"reader"}
  MaxRows = 1
  DailyQuota = 1
  MaxDay = 2
  MaxCrashes = 1
  OpMixes = {{"midnight"}}
INVARIANTS
  QuotaRespected
CHECK_DEADLOCK FALSE
