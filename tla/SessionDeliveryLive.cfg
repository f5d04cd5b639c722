SPECIFICATION FairSpec
CONSTANTS
  MaxGeneration = 3
  MaxEvents = 3
  SourceCapacity = 1
  Capacity = 1
  Handlers = {h}
  Subscribers = {s}
CHECK_DEADLOCK FALSE
PROPERTY RelaysEnd
