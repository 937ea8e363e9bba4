SPECIFICATION LogSpec
CONSTANTS
  MaxBytes = 5
  ChunkBytes = 2
  ChunkRaw = 9
  FlushEvery = 3
  MaxMarkers = 2
  Grid = 3
  Lengths <- MCLengths
  MarkLengths <- MCMarkLengths
  Steps <- MCSteps
  MaxRecords = 5
  MaxSetBacks = 1
  NoTime = NoTime
INVARIANTS Ceiling HeldIsTheNewest FrameFlagTrue
PROPERTY ReloadExact
CHECK_DEADLOCK FALSE
