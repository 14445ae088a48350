SPECIFICATION BenchSpec
CONSTANTS
  None = None
  Version = {1, 2, 3}
  Size <- LargerSizes
  RangeSupport <- Both
  Chunked <- Never
  Encodes <- Both
  RequestErrors <- NetworkErrors
  BodyErrors <- Truncations
  DiskErrors = TRUE
  ControlErrors = FALSE
  autosave_sync_every = 2
  max_retries = 1
  base_delay = 0
  max_delay = 0
  max_retry_elapsed = 1
  Settings <- MultiSettings
  PieceSize = 2
  min_split_size = 3
  MaxRuns = 2
  LeaseKey = {l1, l2}
  NoLease = NoLease
  ChannelBuffer = 1
INVARIANT
  
  CheckpointFileIsSound
  BuffersAreAccounted
CHECK_DEADLOCK FALSE
