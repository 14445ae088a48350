SPECIFICATION Spec
CONSTANTS
  TotalSize = 5
  PieceSize = 2
  MAX_REQUEST_LEASES = 2
  MaxConnections = 3
  Modes = {"Fixed", "Dynamic"}
  MinSegmentSize = 1
  RequestBatchSize = 7
  DynamicMinSplit = 2
  DynamicMaxRequest = 4
  MaxLeaseId = 5
INVARIANT
  LedgerIsSound
  BookkeepingAgrees
PROPERTY
  BatchLeavesPeersWork
  ImplementsLeaseTable
CHECK_DEADLOCK FALSE
