SPECIFICATION MCSpec
CONSTANTS
  HeapSize = 14
  HDR = 2
  Requests <- MCRequests
  Alignments <- MCAlignments
  UintMax = 31
CHECK_DEADLOCK FALSE
INVARIANTS
  BlocksTile
  OwnersMatchBlocks
  PrevIsBehind
  StackCallersAreSafe
PROPERTIES
  ExactLinksStayExact
  FreeReturns
  KeepsPromise
