SPECIFICATION FairSpec
CONSTANTS
  N = 2
  MaxReloads = 0
  Stoppers = {s1}
PROPERTY StopReturns
CHECK_DEADLOCK FALSE
