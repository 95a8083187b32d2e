CONSTANTS
  Exprs <- MCExprs
  Envs <- MCEnvs

SPECIFICATION Spec

INVARIANT AcceptedIsRight

CHECK_DEADLOCK FALSE
