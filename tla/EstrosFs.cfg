SPECIFICATION Spec
CONSTANTS
  Files = {f1, f2}
  Handles = {h1, h2}
  Data = {a, b}
  Garbage = Garbage
  BLOCK_SIZE = 2
  NUM_DIRECT_BLOCKS = 1
  BUFFER_SIZE_BLOCKS = 2
  UintWrap = 32
  MaxBlock = 14
  MaxSize = 8
  Requests = {3, 5}
  Offsets = {0}
  OldSize = 5
  MaxWrites = 2
SYMMETRY Symmetry
CHECK_DEADLOCK FALSE
INVARIANTS
  BlocksHaveOneOwner
  SizeIsBacked
  CacheMatchesDisk
  SmallRequestsStayInside
PROPERTY
  KeepsContents
