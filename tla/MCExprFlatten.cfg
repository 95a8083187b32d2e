CONSTANTS
  Exprs <- MCExprs
  Envs <- MCEnvs

SPECIFICATION Spec

INVARIANTS
  StepsRight
  OnlyLinearIsRight

CHECK_DEADLOCK FALSE
