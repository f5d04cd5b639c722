SPECIFICATION Spec
CONSTANTS
  MaxGeneration = 3
  MaxEvents = 3
  SourceCapacity = 1
  Capacity = 1
  Handlers = {h, k}
  Subscribers = {s}
CHECK_DEADLOCK FALSE
INVARIANTS TypeOK StreamsHonest
PROPERTIES OldLinksSilent EveryHandlerCalled
