CONSTANTS
  Vars <- MCVars
  Programs <- MCShortCircuits
SPECIFICATION Spec
INVARIANT
  ShortCircuitsKept
CHECK_DEADLOCK FALSE
