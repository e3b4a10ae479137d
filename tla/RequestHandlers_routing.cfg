SPECIFICATION FairSpec
CONSTANTS
  MaxInt = 100000
  MaxLexemes = 4
  MaxStructure = 6
  MaxTarget = 5
  MaxLocations = 2
  BufferSize = 2
  MAX_FILE_SIZE = 5
  MaxVersion = 1
  Sizes = {0, 1, 2, 3, 4, 5}
  NumberOf <- MCNumberOf
  Files <- MCFiles
  Targets <- MCTargets
INVARIANTS TypeOK StackIsPath StartsIfAcceptable LocationsServed LongestMatch Recomposed WholeFile RootAboveEntity
PROPERTIES RoundTrip TrueIffValid Ends
CHECK_DEADLOCK FALSE
