SPECIFICATION Spec
CONSTANTS
  Key = {0, 1, 2, 3}
  NoEntry = NoEntry
  None = None
  User = {u1, u2, u3}
  Handler = {h1, h2}
  CalcThread = {t1, t2}
  MaxConcurrentQueries = 1
  MaxResults = 1
  Seconds = {0, 1}
  Rng = {0, 1, 2, 3}
  SRand <- MCSRand
  Rand <- MCRand
  MaxSubmits = 1
  Shapes <- BadShapes
  Faults = {"dec", "askRejected", "stop"}
CHECK_DEADLOCK FALSE
SYMMETRY Symmetry
INVARIANTS
  TypeOK
  InOnePlace
  DuplicateOnlyByCollision
PROPERTIES
  AcceptedNotLost
