CONSTANTS
  STATIC_PROCESSES = 4
  MAX_PROCESSES = 5
  WORD = 6
SPECIFICATION Spec
INVARIANTS
  TypeOK
  ReadyQueueIntact
  NoUseAfterCleanup
  KernelProtected
  KilledStaysDead
PROPERTIES
  CreatedIsUnreferenced
  ImplementsFifo
CHECK_DEADLOCK FALSE
