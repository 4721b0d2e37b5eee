SPECIFICATION Spec
CONSTANTS
  Jobs = {1}
  Users = {"reader", "admin"}
  Readers = {"reader"}
  MaxRows = 2
  DailyQuota = 2
  MaxDay = 1
  MaxCrashes = 1
  OpMixes = {{"cancel"}}
PROPERTIES
  CancelStopsScan
CHECK_DEADLOCK FALSE
