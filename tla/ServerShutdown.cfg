SPECIFICATION Spec
CONSTANTS
  Requests = {r1}
  MaxReloads = 0
INVARIANT RequestsComplete
CHECK_DEADLOCK FALSE
