SPECIFICATION Spec
CONSTANTS
  Keys = {k1}
  NoKey = nokey
  Conn = {c1, c2}
  MaxNest = 2
  MaxWrites = 1
  Faults = {}
  Ops = {"read", "direct", "close"}
SYMMETRY EntrySymmetry
INVARIANTS
  DmlFlagSet
