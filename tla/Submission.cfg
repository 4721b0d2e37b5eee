SPECIFICATION Spec
CONSTANTS
    HoursPerDay = 3
    DaysPerWeek = 2
    MonthStart <- Calendar
    MaxBack = 4
    Submitters = {"r1", "r2"}
    Watchers = {"q1"}
    Tasks = {"k1"}
    Quota = 2
    Cap = 2
    Allocation = 1
    PeriodDays = 1
    RowCounts = {1, 2}
    Presets <- AllPresets
    Cadences <- AllCadences
    MaxJobs = 3
    Horizon = 6
    Modes <- Mixes
INVARIANTS
  AllowancesHold
  FiredOncePerDay
  WindowIsNext
CHECK_DEADLOCK FALSE
