SPECIFICATION Spec
CONSTANTS
  t1 = t1
  t2 = t2
  u1 = u1
  u2 = u2
  e1 = e1
  r1 = r1
  r2 = r2
  w1 = w1
  w2 = w2
  None = None
  Insert = {t1}
  Eject = {}
  Power = {r1, r2}
  Watcher = {w1}
  Url = {u1}
  PodUrl = {u1}
  MaxAttempts = 1
  MaxTroubles = 0
PROPERTY NoCommandOvertaken
CHECK_DEADLOCK FALSE
