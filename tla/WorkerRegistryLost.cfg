SPECIFICATION Spec
CONSTANTS
  Workers = {w1, w2}
  Reactors = {0, 1}
  Capacity = 2
  InboxCap = 1
  Spill = 1
  BoxCap = 1
  Patience = 1
  MaxReqs = 2
  MaxOther = 1
  None = None
INVARIANT FreedUnreachable
CHECK_DEADLOCK FALSE
