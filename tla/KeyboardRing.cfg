SPECIFICATION FairSpec
CONSTANTS
  FILE_BUFFER_SIZE = 4
  NumberToRead = 2
  MaxTyped = 10
PROPERTIES
  DeliversInOrder
  MissesNothing
  DeliversAll
