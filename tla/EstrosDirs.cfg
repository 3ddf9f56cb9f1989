SPECIFICATION Spec
CONSTANTS
  Hosts <- MCHosts
  Names = {"a", "b"}
  NameCells <- MCNameCells
  SECTOR = 6
  BLOCK_SIZE = 12
  PTRS_PER_BLOCK = 3
  NUM_DIRECT_BLOCKS = 3
  FIRST_DATA_BLOCK = 2
  MaxMounted = 6
  MaxInodes = 8
  MaxFailures = 1
CHECK_DEADLOCK FALSE
INVARIANTS
  PackedFilesReadBack
  NamesLeadHome
