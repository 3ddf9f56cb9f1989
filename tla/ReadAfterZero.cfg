SPECIFICATION ConsoleSpec
CONSTANTS
  Procs = {p, q}
  VGA_WIDTH = 3
  VGA_HEIGHT = 2
  UINT8 = 5
  TAB = 2
  LINE = 1
  Chars <- MCChars
  LetterKeys <- MCLetterKeys
  Amounts = {1}
  Texts <- MCTexts
  CursorPositions <- MCCursorPositions
  PrintedInts <- MCPrintedInts
  IntMin <- MCIntMin
  MaxCalls = 4
SYMMETRY ProcessesAlike
CHECK_DEADLOCK FALSE
INVARIANT ZeroEndsTheLine
