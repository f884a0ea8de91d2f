SPECIFICATION MCSpec
  
PROPERTIES  RecvEnds
CHECK_DEADLOCK FALSE
