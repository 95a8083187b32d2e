SPECIFICATION FairSpec
CONSTANTS
  WL = 2
  Prog = {1, 2}
  CodeLen <- MCCodeLen
  Room = 2
  Outputs <- MCOutputs
  Garbage <- MCGarbage
  MaxLine = 4
  MaxRuns = 2
  MaxFaults = 2
INVARIANTS
  TypeOK
  DoneMeansBooted
  QuietWhenBusy
PROPERTIES
  BootsAndEnds
  LeavesBoot
CHECK_DEADLOCK FALSE
