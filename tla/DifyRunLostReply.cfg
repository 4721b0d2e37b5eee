SPECIFICATION Spec
CONSTANT Modes <- LostOnce
INVARIANTS
  StartedNeverRerun
CHECK_DEADLOCK FALSE
