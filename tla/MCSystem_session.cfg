SPECIFICATION FairSpec
CONSTANTS
  NoFile = NoFile
  stoul <- MCstoul
  Defaults <- MCDefaults
  u1 = u1
  u2 = u2
  User = {u1, u2}
  CalcThread = {t1}
  CommandLines <- MCCommandLines
  Table <- MCTable
  PossibleOne = 8
  PossibleTwo = 4
  Pad = 9
  NoValue = 1000
  Padding = Padding
  Files <- MCFiles
  Degrees = {4, 8, 16}
  MaxStarts = 2
  None = None
  Failed = Failed
CHECK_DEADLOCK FALSE
INVARIANTS
  TypeOK
  ServerSurvives
PROPERTIES
  EachUserIsAnswered
  CallbackInScope
  EveryUserEnds
