SPECIFICATION Spec
CONSTANTS
  Bases = {0, 2}
  AgeMax = 2
  Fairs = {0, 1}
  WBase = 11
  WAge = 1
  WFair = 1
  Boost = 20
  Budgets = {1, 2}
  Reserved = 1
  MaxQueue = 3
  Tags <- NoTag
INVARIANTS
  UrgentOutranksNormal
