SPECIFICATION FairSpec
CONSTANTS
  Bases = {0, 2}
  AgeMax = 1
  Fairs = {0, 1}
  WBase = 1
  WAge = 2
  WFair = 1
  Boost = 20
  Budgets = {1, 2}
  Reserved = 1
  MaxQueue = 3
  Tags <- OneTag
INVARIANTS
  LoopMatchesSpec
  AdmissionSound
PROPERTIES
  UrgentServed
CHECK_DEADLOCK TRUE
