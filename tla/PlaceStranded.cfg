SPECIFICATION Spec
CONSTANTS
  Nodes = {n1, n2}
  Svcs = {s1}
  Removers = {r1}
  NoNode = NoNode
  Kinds = {"graceful"}
  Pinning = TRUE
  Rebalances = 0
  MaxFaults = 0
SYMMETRY Symmetry
INVARIANTS
  NeverStranded
CHECK_DEADLOCK FALSE
