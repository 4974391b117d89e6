SPECIFICATION ExpirySpec
CONSTANTS
  Key = {0, 1, 2, 3}
  NoEntry = NoEntry
  None = None
  User = {u1, u2}
  Handler = {h1, h2}
  CalcThread = {t1}
  MaxConcurrentQueries = 1
  MaxResults = 1
  Seconds = {0, 1}
  Rng = {0, 1, 2, 3}
  SRand <- MCSRand
  Rand <- MCRand
  MaxSubmits = 1
  Shapes <- GoodShapes
  Faults = {}
CHECK_DEADLOCK FALSE
SYMMETRY Symmetry
PROPERTY
  ExpiredMakeRoom
