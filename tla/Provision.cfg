SPECIFICATION Spec
CONSTANTS
  Creators = {c1, c2}
  Kinds = {"cli", "auto", "create", "configure", "join"}
  MaxDroplets = 3
  MaxSerial = 2
  MaxCalls = 2
  Tries = 2
  MaxFaults = 1
SYMMETRY Symmetry
INVARIANTS
  TypeOK
  UniqueNames
  LabelsHonest
  NoSilentLeftover
PROPERTIES
  ServingUndisturbed
  ActivatedIsVerified
  PurgeSpares
  WarmedServes
CHECK_DEADLOCK FALSE
