SPECIFICATION Spec
CONSTANTS
  Keys = {k1, k2}
  NoKey = nokey
  Conn = {c1, c2}
  MaxNest = 2
  MaxWrites = 2
  Faults = {"connect", "autocommit", "savepoint", "stmt", "commit", "ackloss", "rollbackto", "commlost", "local"}
  Ops = {"dml", "truncate", "diag", "close", "prepare"}
SYMMETRY EntrySymmetry
INVARIANTS
  CommittedIsDurable
  IInv
