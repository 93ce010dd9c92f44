SPECIFICATION MCSpec
CONSTANTS
  Task = {1, 2, 3}
  NoTask = NoTask
  WorkerCount = 2
  ChanCap = 1
  MaxRetries = 1
INVARIANTS
  TypeOK
  OneCopy
  JobIffUnfinished
  DivisorPositive
  ExceptionMeansExhausted
PROPERTIES
  TaskEnds
  StopReturns
  ImplementsLifecycle
CHECK_DEADLOCK FALSE
