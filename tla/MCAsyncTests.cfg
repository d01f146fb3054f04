CONSTANTS
  Sessions <- MCSessions
  get_num_procs = 2
  Out = 1
  PipeSize = 1
SPECIFICATION Spec
INVARIANT
  AsyncTypeOK
  NoOrphans
  VerdictsTrue
PROPERTY
  ImplementsPool
  AllJudged
CHECK_DEADLOCK FALSE
