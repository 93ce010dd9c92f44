SPECIFICATION Spec
CONSTANTS
  
  
  Cd = Cd
  Aux = Aux
  None = None
  Request = {r1, r2}
  Enabled = {"Once"}
  HddCount = 2
  MaxBoots = 2
  MaxFaults = 0
  MaxCrashes = 0
INVARIANT Restorable
CHECK_DEADLOCK FALSE
