CONSTANTS
  NQ = 3
  TILES = 2
  LANES = 2
  ROWS = 8
  WORD = 65536
  W24 = 4096
  Calls <- MCShortCalls
  Alu <- MCAlu
  Imm <- MCImm
  Cell <- MCCell
  Junk = Junk

SPECIFICATION Spec

INVARIANT StaysInBlock

CHECK_DEADLOCK FALSE
