SPECIFICATION Spec
CONSTANTS
  Queries <- MCQueries
  Values = {"p", "q"}
  Now = "now"
  Null = Null
  Answer <- MCAnswer
  MaxReScans = 2
  Node = {n1, n2}
  Table <- MCTable
  Statements <- MCStatements
  ColValues = {0, 1}
  NullValue = NullValue
  MaxCalls = 2
  MaxOthers = 1
SYMMETRY Perms
INVARIANT ParamsInMarkerOrder
CHECK_DEADLOCK FALSE
