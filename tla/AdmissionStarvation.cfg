SPECIFICATION FairSpec
CONSTANTS
  Bases = {0, 2}
  AgeMax = 2
  Fairs = {0}
  WBase = 1
  WAge = 1
  WFair = 0
  Boost = 20
  Budgets = {1, 2}
  Reserved = 1
  MaxQueue = 2
  Tags <- OneTag
PROPERTIES
  NormalServed
