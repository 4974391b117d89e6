SPECIFICATION Spec
CONSTANTS
  Handler = {h1, h2, h3}
  KeyId = {i1, i2}
  MaxKeys = 2
  MaxRestarts = 1
  None = None
SYMMETRY Symmetry
INVARIANTS TypeOK GivenIsComplete LoadsOneKeySet AllFilesOrNone
CHECK_DEADLOCK FALSE
