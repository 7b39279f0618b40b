SPECIFICATION FairSpec
CONSTANTS
  Ops = {o1, o2}
  NoOp = NoOp
  MaxFaults = 3
INVARIANTS
  TypeOK
  OneCommand
  DoneIsComplete
  SweepFindsOnlyDead
  RecordedIsNamed
PROPERTIES
  FinalStays
  KeepsLedger
  RunningSettles
CHECK_DEADLOCK FALSE
