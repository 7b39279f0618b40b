SPECIFICATION Spec
CONSTANTS
  Ops = {o1, o2}
  NoOp = NoOp
  MaxFaults = 1
SYMMETRY Symmetry
INVARIANTS
  NeverInFlight
CHECK_DEADLOCK FALSE
