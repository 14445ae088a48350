SPECIFICATION BenchSpec
CONSTANTS
  TotalSize = 3
  PieceSize = 2
  LeaseKey = {1, 2, 3}
  NoLease = NoLease
  ChannelBuffer = 1
  MemoryBudget = 4
  SingleBatch = 2
  Worker = {w1, w2}
  Solo = {solo}
  NoControl = NoControl
  Validator = TRUE
  MaxFaults = 1
  MaxSessions = 1
  MaxCrashes = 0
SYMMETRY BenchSymmetry
INVARIANT
  
  CrashCheckpointIsSafe

  
CHECK_DEADLOCK FALSE
