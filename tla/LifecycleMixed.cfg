SPECIFICATION Spec
CONSTANTS
  None = None
  Version = {1, 2, 3}
  Size <- LargerSizes
  RangeSupport <- Both
  Chunked <- Never
  Encodes <- Both
  RequestErrors <- NetworkErrors
  BodyErrors <- Truncations
  DiskErrors = TRUE
  ControlErrors = FALSE
  autosave_sync_every = 2
  max_retries = 1
  base_delay = 0
  max_delay = 0
  max_retry_elapsed = 1
  Settings <- MixedSettings
  PieceSize = 2
  min_split_size = 3
  MaxRuns = 3
INVARIANT OkMeansObject
CHECK_DEADLOCK FALSE
