CONSTANTS
  Vars <- MCVars
  Blocks <- MCBlocks
  Entry <- MCEntry
  Exit <- MCExit
  Graphs <- MCGraphs
  First <- MCFirst
  Globals <- MCGlobals
SPECIFICATION LocalSpec
INVARIANT
  LocalTypeOK
  UsesSeeTheirDefs
  UsesDominated
  NothingMissed
  SweptConsistent
  SimplifiedKeepsRuns
PROPERTY
  SweptAnswers
CHECK_DEADLOCK FALSE
