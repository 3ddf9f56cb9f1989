SPECIFICATION MCSpec
CONSTANTS
  HeapSize = 15
  HDR = 2
  Requests <- MCRequests
  Alignments <- MCAlignments
  UintMax = 31
CHECK_DEADLOCK FALSE
INVARIANT
  MergesWithPrevious
