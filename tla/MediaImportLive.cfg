SPECIFICATION FairSpec
CONSTANTS
  t1 = t1
  t2 = t2
  u1 = u1
  u2 = u2
  e1 = e1
  r1 = r1
  r2 = r2
  w1 = w1
  w2 = w2
  None = None
  Insert = {t1}
  Eject = {}
  Power = {r1}
  Watcher = {w1, w2}
  Url = {u2}
  PodUrl = {}
  MaxAttempts = 2
  MaxTroubles = 1
PROPERTIES
  ImportEnds
  DeferredRuns
CHECK_DEADLOCK FALSE
