CONSTANTS
  WORD = 256
  HEAP_START = 16
  HEAP_SIZE = 80
  USED_START = 64
  STATIC_PROCESSES = 5
  MAX_PROCESSES = 5
  STACK_SIZE = 8
  Requests = {0, 1, 5, 44, 76, 77, 240, 252, 253}
  MAX_BLOCKS = 2
SPECIFICATION Spec
INVARIANTS
  TypeOK
  BlocksApart
  FoundHasStack
PROPERTIES
  SaneRequestsStayInside
  DataKept
CHECK_DEADLOCK FALSE
