CONSTANTS
  NQ = 3
  Args = {a1, a2}
  Handles = {h1, h2}
  LockFails = FALSE

SPECIFICATION Spec

INVARIANTS
  TypeOK
  MemoryHeld
  NothingLeftBehind

PROPERTIES
  ImplementsCall
  CallReturns

CHECK_DEADLOCK FALSE
