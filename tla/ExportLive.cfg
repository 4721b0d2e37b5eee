SPECIFICATION FairSpec
CONSTANTS
  Jobs = {1}
  Users = {"reader", "admin"}
  Readers = {"reader"}
  MaxRows = 1
  DailyQuota = 1
  MaxDay = 1
  MaxCrashes = 1
  OpMixes = {{"crash", "cancel", "deleteUser", "age", "download"}}
PROPERTIES
  EveryExportEnds
  FilesGo
CHECK_DEADLOCK FALSE
