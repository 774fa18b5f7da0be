CONSTANTS
  VGA_WIDTH = 3
  VGA_HEIGHT = 4
  TAB_STOP = 2
  Glyphs <- MCGlyphs
  Chars <- MCChars
  Prompts <- MCPrompts
  Outputs <- MCOutputs
  LINE_MAX = 5
  TAB_LIMIT = 2
  MAX_STRAYS = 1
SPECIFICATION Spec
INVARIANTS
  TypeOK
  EchoShowsLine
  PromptKept
  BlankAhead
