SPECIFICATION FairSpec
CONSTANTS
  Keys = {k1}
  NoKey = nokey
  Conn = {c1, c2}
  MaxNest = 2
  MaxWrites = 2
  Faults = {"savepoint", "stmt", "deadlock", "commit", "ackloss", "rollbackto", "commlost", "local"}
  Ops = {"read", "dml", "close"}
INVARIANTS
  DmlFlagSet
PROPERTIES
  CallbacksFinish
