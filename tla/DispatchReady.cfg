CONSTANTS
  STATIC_PROCESSES = 4
  MAX_PROCESSES = 5
  WORD = 6
SPECIFICATION Spec
PROPERTY DispatchedIsReady
CHECK_DEADLOCK FALSE
