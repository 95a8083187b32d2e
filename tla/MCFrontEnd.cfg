SPECIFICATION Spec
CONSTANTS
  Programs <- MCPrograms
  Open = Open
INVARIANTS
  TypeOK
  AcceptsWellFormed
  ReadsWrittenSlices
  StoresToWrittenSlice
  PartsApart
  UndeclaredOutputFits
CHECK_DEADLOCK FALSE
