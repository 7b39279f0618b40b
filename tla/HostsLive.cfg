SPECIFICATION FairSpec
CONSTANTS
  Users = {u1}
  Services = {s1}
  Rows = {r1, r2}
  Workers = {w1, w2}
  Sweepers = {w2}
  NoUser = NoUser
  NoSvc = NoSvc
  NoRow = NoRow
  Kinds = {"start", "stop", "hoststop", "removeall", "open", "ready", "ls", "reap", "delete", "unreach"}
  MaxFaults = 1
INVARIANTS
  LiveTracked
PROPERTIES
  OrphanAdopted
  GhostFlagged
CHECK_DEADLOCK FALSE
