CONSTANTS
  Letters = {"q"}
  Symbols = {"one"}
  Shifts = {"lshift", "rshift"}
  Silent = {"ctrl"}
  Unknown = {"f1"}
  LINE_MAX = 8
  TAB_LIMIT = 5
  ENTER_COOLDOWN = 2
  INITIAL_DELAY = 1
  REPEAT_RATE = 1
  MAX_DOWN = 2
SPECIFICATION Spec
PROPERTY EnterTypesNothing
