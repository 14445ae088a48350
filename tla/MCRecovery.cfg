SPECIFICATION BenchSpec
CONSTANTS
  None = None
  Window <- MCWindow
  Grace <- MCGrace
  Duration <- MCDuration
  Absolute = 1
  Peers <- MCPeers
  MaxFrame = 1
  MaxTime = 4
  Worker = {w1, w2}
SYMMETRY BenchSymmetry
INVARIANT
  RecoverIsEarned
  RecoveryIsSound
  WorkIsAssignable
  GreedySharesOptimal
  SplitsStayLegal
CONSTRAINT FewBytes
CHECK_DEADLOCK FALSE
