CONSTANTS
  Procs = {1, 2}
  CPU_STATE_OFFSET = 20
  NameEnds = {20}
  Selectors = {16, 24}
SPECIFICATION Spec
PROPERTIES
  SaveChangesOnlyCpuState
CHECK_DEADLOCK FALSE
