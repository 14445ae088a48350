SPECIFICATION BenchSpec
CONSTANTS
  None = None
  Version = {1, 2, 3}
  Size <- Sizes
  RangeSupport <- Both
  Chunked <- Both
  Encodes <- Never
  RequestErrors <- NetworkErrors
  BodyErrors <- Truncations
  DiskErrors = TRUE
  ControlErrors = FALSE
  autosave_sync_every = 2
  max_retries = 2
  base_delay = 0
  max_delay = 0
  max_retry_elapsed = None
  Settings <- SingleSettings
  PieceSize = 2
  min_split_size = 2
  MaxRuns = 2
INVARIANT
  RunIsTrue
  RetriesWithinPolicy
  AcceptsExactlyHonest
PROPERTY
  PauseKeepsReceived
  RunEnds
CHECK_DEADLOCK FALSE
