SPECIFICATION Spec
CONSTANTS
  NoLit = NoLit
  Null = "NULL"
  Vars <- MCVars
  Values <- MCValues
  Types <- MCTypes
  TypeOf <- MCTypeOf
  TrueValues <- MCTrueValues
  Ops <- MCOps
  Fold <- MCFold
  ResultTypes <- MCResultTypes
  Blocks <- MCBlocks
  Entry <- MCEntry
  Exit <- MCExit
  Branches <- MCBranches
  Dies <- MCDies
  CFGs <- MCCFGs
  FormalLists <- MCFormalLists
  Default <- MCDefault
  CallLists <- MCCallLists
INVARIANTS
  MergedKeepsRuns
CHECK_DEADLOCK FALSE
