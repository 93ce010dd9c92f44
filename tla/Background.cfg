SPECIFICATION FairSpec
CONSTANT Parts = {"breaker", "scheduler", "health", "healing", "power", "server"}
  breaker <- MCBreaker
  scheduler <- MCScheduler
  health <- MCHealth
  healing <- MCHealing
  power <- MCPower
  server <- MCServer
INVARIANTS
  BreakerConsistent
  OverlapMeansSlow
  DownIsNoticed
  CommandsRespected
  WatchersFollowConfig
  DrainsBeforeExit
PROPERTIES
  CallsReturn
  JobRuns
  BreakersHeal
  ReportSettles
  ShutdownEnds
CHECK_DEADLOCK FALSE
