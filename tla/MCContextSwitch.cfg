CONSTANTS
  Procs = {1, 2, 3}
  CPU_STATE_OFFSET = 20
  NameEnds = {20, 56, 72}
  Selectors = {16, 24}
SPECIFICATION Spec
INVARIANTS
  TypeOK
  NeverBackInC
  SavedContextResumes
CHECK_DEADLOCK FALSE
