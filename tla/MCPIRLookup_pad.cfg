SPECIFICATION Spec
CONSTANTS
  RowSize = 4
  Modulus = 23
  NumOne = 8
  NumTwo = 8
  Pad = 9
  NoValue = 10
  Directories <- MCDirectories
  Inputs = {1, 9}
  OrdersOne <- MCOrders
  OrdersTwo <- MCOrdersTwo
  Multipliers <- MCMultipliers
  None = None
  Failed = Failed
INVARIANT AnswersTheFunction
