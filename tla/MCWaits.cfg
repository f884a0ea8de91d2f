SPECIFICATION MCSpec
CONSTANTS
  InflightCap = 2
  MaxPosts = 5
  WriteTimeout = TRUE
INVARIANTS NoTriggerAfterDispose NoLostWakeup RecordsIntact StopSound  BytesKept
PROPERTIES CreditEnds SinkEnds  RetireEnds
CHECK_DEADLOCK FALSE
