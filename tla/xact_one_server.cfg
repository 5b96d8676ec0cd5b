SPECIFICATION Spec
CONSTANTS
  Keys = {k1}
  NoKey = nokey
  Conn = {c1, c2}
  MaxNest = 3
  MaxWrites = 2
  Faults = {"connect", "savepoint", "stmt", "commit", "ackloss", "local"}
  Ops = {"read", "dml", "direct", "import", "diag", "close", "prepare"}
SYMMETRY EntrySymmetry
INVARIANTS
  TypeOK
  CommittedIsDurable
  PendingIsOwed
  SavepointsUpToLevel
  IdleIsClean
  PostCommitNoop
  OneConnectionPerKey
PROPERTIES
  CloseLosesNothing
  NoAbortedWriteDurable
  RemoteFollowsLocal
