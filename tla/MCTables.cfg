SPECIFICATION MCSpec
CONSTANTS
  Workers = {t1, t2, t3}
  Slots = {0, 1}
  BoxCap = 1
  QueueMax = 1
  Messages = {m1, m2}
  Queries = {"q1"}
  MaxAttach = 3
  None = None
SYMMETRY Symmetry
INVARIANTS NoMisdelivery SendersHeld 
PROPERTIES NoFalseTimeout
CHECK_DEADLOCK FALSE
