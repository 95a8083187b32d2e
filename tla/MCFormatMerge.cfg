SPECIFICATION FairSpec
CONSTANTS
  Level = {1, 2, 3, 4}
  Formats <- MCFormats
INVARIANTS
  TypeOK
  MergesRight
PROPERTIES
  MergeEnds
CHECK_DEADLOCK FALSE
