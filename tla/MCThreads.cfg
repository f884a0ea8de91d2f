SPECIFICATION MCSpec
CONSTANTS
  Producers = {p1, p2}
  Capacity = 2
  Batch = 1
  MaxPosts = 3
INVARIANTS NoStrandedItem CallersTold WiresSound CohortsSound
PROPERTIES ImplementsChannel Delivery CallsEnd ResponseEnds CommandsEnd
CHECK_DEADLOCK FALSE
