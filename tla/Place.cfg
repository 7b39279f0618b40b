SPECIFICATION Spec
CONSTANTS
  Nodes = {n1, n2}
  Svcs = {s1, s2}
  Removers = {r1}
  NoNode = NoNode
  Kinds = {"auto"}
  Pinning = FALSE
  Rebalances = 1
  MaxFaults = 1
SYMMETRY Symmetry
INVARIANTS
  TypeOK
  StrandedOnlyIfMissed
PROPERTIES
  UnpinsOwn
CHECK_DEADLOCK FALSE
