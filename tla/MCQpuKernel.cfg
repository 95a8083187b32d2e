CONSTANTS
  NQ = 3
  TILES = 2
  LANES = 2
  ROWS = 8
  WORD = 65536
  W24 = 4096
  Calls <- MCCalls
  Alu <- MCAlu
  Imm <- MCImm
  Cell <- MCCell
  Junk = Junk

SPECIFICATION Spec

INVARIANTS
  TypeOK
  ReadsOriginalInput
  StagedIntact
  StaysInBlock
  CountersInRange
  CompleteAtEnd

PROPERTIES
  ImplementsMap
  Finishes

CHECK_DEADLOCK FALSE
