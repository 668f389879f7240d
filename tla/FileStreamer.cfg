SPECIFICATION Spec
CONSTANTS
  none = none
  NoCreds = none
  Setups <- MCSetups
  Keys <- MCKeys
  PageSize = 2
  MaxStreams = 2
  MaxSessions = 2
CHECK_DEADLOCK FALSE
INVARIANTS
  WritesAreInLiveBuffer
  ChunksAreTheRanges
  StreamIsComplete
  
  ListingIsExact
PROPERTIES
  GeneratorReturns
