SPECIFICATION MCSpec
CONSTANTS
  Cd = Cd
  Aux = Aux
  None = None
  Request = {r1, r2}
  Enabled = {"Once", "Continuous"}
  HddCount = 2
  MaxBoots = 3
  MaxFaults = 1
  MaxCrashes = 1
INVARIANTS
  TypeOK
  Restorable
  NothingLeft
  DiskAsBackup
PROPERTY OnceEnds
CHECK_DEADLOCK FALSE
