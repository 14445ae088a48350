SPECIFICATION BenchSpec
CONSTANTS
  None = None
  PREFERRED_SET = 2
  MIN_SAMPLES = 1
  MIN_WINDOW = 1
  MIN_SAMPLE_BYTES = 1
  SAMPLE_TTL = 2
  SAMPLE_HALF_LIFE = 1
  MIN_DWELL = 2
  EXPLORE_PERIOD = 4
  CONNECT_FAILURE_COOLDOWN = 1
  REMOVED_HISTORY = 2
  Answers <- MCAnswers
  Samples <- MCSamples
  Slots = {t1, t2}
  MaxTime = 2
  MaxGeneration = 2
  MaxSelections = 4
  Transfers = {t1, t2}
  Requests = {r1, r2, r3}
  Zones = {a1, a2}
  OwnLookup = OwnLookup
  Blank = Blank
SYMMETRY BenchSymmetry
INVARIANT
  SelectionIsSound
  DriverKeepsItsBooks
  
  
CHECK_DEADLOCK FALSE
