CONSTANTS
  Vars <- MCVars
  Blocks <- MCBlocks
  Entry <- MCEntry
  Exit <- MCExit
  Graphs <- MCGraphs
  First <- MCFirst
  Globals <- MCGlobals
SPECIFICATION LocalSpec
INVARIANT
  EveryUseSeesItsDefs
CHECK_DEADLOCK FALSE
