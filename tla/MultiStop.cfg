SPECIFICATION Spec
CONSTANTS
  TotalSize = 2
  PieceSize = 1
  LeaseKey = {1, 2, 3}
  NoLease = NoLease
  ChannelBuffer = 1
  MemoryBudget = 4
  SingleBatch = 2
  Worker = {w1}
  NoControl = NoControl
  Validator = TRUE
  MaxFaults = 0
  MaxSessions = 1
  MaxCrashes = 0
CHECK_DEADLOCK FALSE
INVARIANT StoppedPromisesResumePoint
