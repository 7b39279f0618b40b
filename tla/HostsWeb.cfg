SPECIFICATION Spec
CONSTANTS
  Users = {u1}
  Services = {s1, s2}
  Rows = {r1, r2}
  Workers = {w1, w2}
  Sweepers = {}
  NoUser = NoUser
  NoSvc = NoSvc
  NoRow = NoRow
  Kinds = {"start", "stop", "hoststop", "stopall", "purge", "converge", "noderm"}
  MaxFaults = 0
SYMMETRY Symmetry
INVARIANTS
  TypeOK
  MissingAreGone
PROPERTIES
  StopsOnlyItsOwn
  KeepsBook
CHECK_DEADLOCK FALSE
