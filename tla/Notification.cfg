SPECIFICATION Spec
CONSTANTS
    Occurrences = {1}
    Channels = {"c"}
    Fanout <- AllTargets
    Workers = {"w1", "w2"}
    MaxAttempts = 2
    Capacity = 3
    ChannelCapacity = 3
    Generations = 1
    Modes <- Mixes
INVARIANTS
  DeliverySound
  NotInherited
PROPERTIES
  WorkersObeyDeletion
CHECK_DEADLOCK FALSE
