SPECIFICATION FairSpec
CONSTANTS
  LargeCap = 3
  SmallCap = 1
  Headroom = 2
  MaxAdd = 2
  MaxRemove = 1
  MinWorkers = 1
  MaxSerial = 3
  Managers = {1}
  Hosts = {h1}
  Cron = {cron}
  ByHand = {op}
  Free = free
  Prescales = {0, 2}
  MaxEvents = 1
INVARIANTS
  TypeOK FloorHeld
PROPERTIES
  CooldownHonoured NotUndone ScaleUpFits KeepsFleet DemandMet
CHECK_DEADLOCK FALSE
