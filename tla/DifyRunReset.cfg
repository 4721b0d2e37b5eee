SPECIFICATION Spec
CONSTANT Modes <- ResetOrPoll
INVARIANTS
  StartedNeverRerun
  CancelStopsRun
CHECK_DEADLOCK FALSE
