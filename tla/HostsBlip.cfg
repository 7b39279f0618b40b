SPECIFICATION Spec
CONSTANTS
  Users = {u1}
  Services = {s1, s2}
  Rows = {r1, r2, r3}
  Workers = {w1, w2}
  Sweepers = {}
  NoUser = NoUser
  NoSvc = NoSvc
  NoRow = NoRow
  Kinds = {"start", "sync", "unreach", "noderm"}
  MaxFaults = 0
SYMMETRY Symmetry
PROPERTIES
  BlipNeverMarksMia
CHECK_DEADLOCK FALSE
