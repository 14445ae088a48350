SPECIFICATION BenchSpec
CONSTANTS
  BodyLen = 7
  MaxChunk = 3
  Budget = 2
  None = None
  NoPool = NoPool
  h1 = h1
  Holders = {h1, h2, h3}
  Pools = {p1, p2}
  d1 = d1
  Downloads = {d1, d2, d3}
INVARIANT
  SinkIsSound
  
  NoCommandIsLost
  PermitsAreAccounted
PROPERTY
  BodyStreamsEnd
  ThreadEnds
  
CHECK_DEADLOCK FALSE
