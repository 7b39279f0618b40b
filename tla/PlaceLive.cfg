SPECIFICATION FairSpec
CONSTANTS
  Nodes = {n1, n2}
  Svcs = {s1}
  Removers = {r1, r2}
  NoNode = NoNode
  Kinds = {"graceful", "force"}
  Pinning = TRUE
  Rebalances = 0
  MaxFaults = 1
INVARIANTS
  DrainedFirst
PROPERTIES
  Rehosted
CHECK_DEADLOCK FALSE
