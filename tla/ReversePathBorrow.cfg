SPECIFICATION Spec
CONSTANTS
  Streams = {s1}
  Capacity = 1
  MaxChunks = 1
  TimerFails = FALSE
INVARIANT BorrowKeepsSlot
CHECK_DEADLOCK FALSE
