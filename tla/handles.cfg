SPECIFICATION FairSpec
CONSTANTS
  Scan = {s1, s2}
  Modify = {m1}
  Hdl = {h1, h2, h3}
  Null = null
  MaxNest = 2
INVARIANTS
  TypeOK
  ListExact
  OpenIsListedUnlessSecondFreed
  NoHandleLeft
PROPERTIES
  ReleaseEnds
