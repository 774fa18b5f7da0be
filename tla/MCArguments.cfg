CONSTANTS
  Letters = {"x"}
  Digits = {0, 7}
  MAX_LINE = 7
  BUFFER = 4
  WORD = 70
SPECIFICATION Spec
INVARIANTS
  TypeOK
  ParsesFirstWords
  OverrunByLongWord
  PidParsersAgree
PROPERTIES
  LoopsProgress
  Terminates
CHECK_DEADLOCK FALSE
