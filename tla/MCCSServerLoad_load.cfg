SPECIFICATION LoadSpec
CONSTANTS
  Key = {0, 1, 2, 3}
  NoEntry = NoEntry
  None = None
  User = {u1, u2}
  Handler = {h1, h2}
  CalcThread = {t1, t2}
  MaxConcurrentQueries = 2
  MaxResults = 1
  Seconds = {0, 1, 2}
  Rng = {0, 1, 2, 3}
  SRand <- MCSRand
  Rand <- MCRand
  MaxSubmits = 1
  Shapes <- MCShapes
  Faults = {}
CHECK_DEADLOCK FALSE
PROPERTIES
  AcceptedIsAnswered
