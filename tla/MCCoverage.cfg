SPECIFICATION RunSpec
CONSTANTS
  NoLit = NoLit
  SlotStatements <- AllStatements
  Blocks <- MCBlocks
  Entry <- MCEntry
  Exit <- MCExit
  Branches <- MCBranches
  Dies <- MCDies
  CFGs <- MCCFGs
  Solutions <- MCSolutions
  EntrySolutions <- MCEntrySolutions
  MeetAll <- MCMeetAll
  Transfer <- MCTransfer
  Same <- MCSame
  KnownTrue <- MCKnownTrue
  KnownFalse <- MCKnownFalse
  Stores <- MCStores
  Stops <- MCDies
  Exec <- MCExec
  IsTrue <- MCIsTrue
  Gamma <- MCGamma
INVARIANTS
  CoverageTypeOK
  Settled
  Covered
PROPERTIES
  RunsOnExecutableEdges
  AnalysisEnds
CHECK_DEADLOCK FALSE
