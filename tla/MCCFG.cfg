CONSTANTS
  Vars <- MCVars
  Labels <- MCLabels
  Known <- MCKnown
  KnownValue <- MCKnownValue
  Sources <- MCSources
  Entry <- MCEntry
  Exit <- MCExit
  Blocks <- MCBlocks
  MaxEdits = 1
SPECIFICATION Spec
INVARIANT
  CFGTypeOK
  SameRuns
  GraphConsistent
PROPERTY
  ResultAnswers
  WrittenBack
CHECK_DEADLOCK FALSE
