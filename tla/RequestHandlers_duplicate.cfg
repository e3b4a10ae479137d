SPECIFICATION Spec
CONSTANTS
  MaxInt = 100000
  MaxLexemes = 0
  MaxStructure = 0
  MaxTarget = 0
  MaxLocations = 0
  BufferSize = 1
  MAX_FILE_SIZE = 1
  MaxVersion = 0
  Sizes = {0}
  NumberOf <- MCNumberOf
  Files <- SleepTwice
  Targets <- OneTarget
INVARIANTS DuplicatesRefused
CHECK_DEADLOCK FALSE
