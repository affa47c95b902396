SPECIFICATION AllSpec
CONSTANTS
  NULL = NULL
PROPERTIES
  EveryWaitEnds
  LowServed
CHECK_DEADLOCK FALSE
