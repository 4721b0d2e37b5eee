SPECIFICATION FairSpec
CONSTANT Modes <- AllModes
INVARIANTS
  OutcomeCanBeTrusted
PROPERTIES
  MeetsContract
  Returns
CHECK_DEADLOCK FALSE
