SPECIFICATION Spec
CONSTANTS
    Occurrences = {1, 2, 3}
    Channels = {"c"}
    Fanout <- InformOnly
    Workers = {"w1"}
    MaxAttempts = 2
    Capacity = 2
    ChannelCapacity = 1
    Generations = 0
    Modes <- LiveMixes
PROPERTIES
  EveryDeliverySettles
  EveryCompletionCaptured
CHECK_DEADLOCK FALSE
