SPECIFICATION FairSpec
CONSTANTS
  Rows = 4
  Cols = 5
  Bits = 8
  Grids <- MCGrids
  Stale <- MCStale
  TtyBuf = 4
  MaxGen = 3
INVARIANTS
  TypeOK
  BytesAccounted
PROPERTIES
  ImplementsLife
  FramesFlow
CHECK_DEADLOCK FALSE
