SPECIFICATION BenchSpec
CONSTANTS
  Workers = {w1, w2}
  Origin = Origin
  Hop = Hop
  Targets = {t1, t2}
  None = None
  MaxHops = 2
  MaxMoves = 2
  Keys = {k1, k2, k3}
SYMMETRY BenchSymmetry
INVARIANT
  OnlyFreshRefusals
  LimitIsExact
  ServersFitTheClient
  CacheIsExact
  EstimateIsWindowed
CHECK_DEADLOCK FALSE
