\* A buffer of four units for a file of five; every call, twice, one failure.
\* After cache_uninit() or the failed assertion of a resize nothing is left to do.
CONSTANTS
  FileSize = 5
  CacheSize = 2
  BackBuffer = 2
  Initial = 1
  ReadChunk = 2
  ReadMargin = 0
  MaxRead = 1
  Sizes = {3}
  MaxFaults = 1
  Setups <- MCSetups
  Targets = {0, 2, 4}
  MaxCalls = 2
SPECIFICATION FairSpec
CHECK_DEADLOCK FALSE
INVARIANTS BufferHolds ControlOwned
PROPERTIES IsByteStream CallsReturn
