SPECIFICATION Spec
CONSTANTS
  CODE_SIZE = 4
  COMMAND_SIZE = 1
  CELLS = 4
  BYTE = 3
  CodeKeys = {"+", ">", "[", "]", ","}
  CommandKeys = {"q", "n", "h", "r"}
  Ascii <- MCAscii
  STACK = 3
  RESULT = 5
  NUMBERS = 3
  DIGITS = 2
  LABELS = 2
  CUT = 2
  Keys = {"9", "0", "8", "-", " ", "."}
  Printed <- MCPrinted
  Typings <- MCTypings
  Leftovers <- MCLeftovers
  W = 3
  H = 3
  Seeds <- MCSeeds
  MARK_ROW = 1
  MaxMarks = 2
  BITS <- MCBits
  POINTER = 2
  TEXT = 12
  Formats <- MCFormats
  Values <- MCValues
  Radixes <- MCRadixes
  Procs = {p, q}
  VGA_WIDTH = 3
  VGA_HEIGHT = 2
  UINT8 = 5
  TAB = 2
  LINE = 1
  Chars <- MCChars
  LetterKeys <- MCLetterKeys
  Amounts = {1}
  Texts <- MCTexts
  CursorPositions <- MCCursorPositions
  PrintedInts <- MCPrintedInts
  IntMin <- MCIntMin
  MaxCalls = 4
SYMMETRY ProcessesAlike
CHECK_DEADLOCK FALSE
INVARIANTS
  EditorKeepsTheText
  OnlyOddTextsStray
  BoardTellsTheTruth
  SprintfCountsLikeC
  ScanReadsBack
  ReadsGiveTheLine
  ScreenShowsTheLine
  CursorComesBack
PROPERTIES
  JumpsGoToTheMatch
  EnterShowsTheValue
