CONSTANTS
  WORD = 256
  HEAP_START = 16
  HEAP_SIZE = 80
  USED_START = 28
  STATIC_PROCESSES = 5
  MAX_PROCESSES = 5
  STACK_SIZE = 8
  Requests = {}
  MAX_BLOCKS = 0
SPECIFICATION Spec
INVARIANT KernelSpared
CHECK_DEADLOCK FALSE
