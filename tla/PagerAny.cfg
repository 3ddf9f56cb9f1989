SPECIFICATION Spec
CONSTANTS
  Pages = 6
  Entries = 2
  MaxBlocks = 3
  MaxTables = 7
CHECK_DEADLOCK FALSE
INVARIANT
  AnyPageIsFree
