SPECIFICATION Spec
CONSTANTS
  Jobs = {1, 2}
  Users = {"reader", "admin"}
  Readers = {"reader"}
  MaxRows = 1
  DailyQuota = 1
  MaxDay = 2
  MaxCrashes = 1
  OpMixes = {{"cancel", "deleteUser", "policy"}, {"cancel", "writeError"}, {"download", "age", "deleteUser"}, {"crash", "cancel", "panic", "day"}}
INVARIANTS
  FilesMatchRows
  QuotaRespected
PROPERTIES
  EndIsFinal
CHECK_DEADLOCK FALSE
