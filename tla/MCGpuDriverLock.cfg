CONSTANTS
  NQ = 3
  Args = {a1, a2}
  Handles = {h1, h2}
  LockFails = TRUE

SPECIFICATION Spec

INVARIANT MappedIsLocked

CHECK_DEADLOCK FALSE
