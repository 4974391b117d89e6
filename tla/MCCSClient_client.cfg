SPECIFICATION FairSpec
CONSTANTS
  Serializes = {TRUE, FALSE}
  Id = {1, 2}
  MaxQueries = 2
CHECK_DEADLOCK FALSE
INVARIANTS
  TypeOK
  OwnCallback
  OverlapNeedsTwoQueries
  WaitMeansCalled
  NoneAfterDestroy
PROPERTIES
  AcceptedIsCalled
