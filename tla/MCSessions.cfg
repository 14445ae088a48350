SPECIFICATION BenchSpec
CONSTANTS
  NoLease = NoLease
  ChannelBuffer = 1
  Worker = {w1, w2}
  NoControl = NoControl
INVARIANT
  PipelineIsSound
PROPERTY
  SessionEnds
  PipelineDrains
CHECK_DEADLOCK FALSE
