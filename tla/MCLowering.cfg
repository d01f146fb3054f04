CONSTANTS
  Vars <- MCVars
  Programs <- MCPrograms
SPECIFICATION Spec
INVARIANT
  LoweringTypeOK
  LoweredSameRuns
  ErrorsAreReal
PROPERTY
  LoweredAnswers
CHECK_DEADLOCK FALSE
