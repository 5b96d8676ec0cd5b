SPECIFICATION FairSpec
CONSTANTS
  Keys = {k1}
  NoKey = nokey
  Conn = {c1}
  MaxNest = 2
  MaxWrites = 2
  Faults = {"rollbackto"}
  Ops = {"dml"}
PROPERTIES
  NoAbortedWriteDurable
