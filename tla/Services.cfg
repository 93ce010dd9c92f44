SPECIFICATION Spec
CONSTANTS
  Parts = {"queue", "cache", "tiers", "pools", "clients", "limiter", "retry", "locks"}
  queue <- MCQueue
  cache <- MCCache
  tiers <- MCTiers
  pools <- MCPools
  clients <- MCClients
  limiter <- MCLimiter
  retry <- MCRetry
  threads = {"g1", "g2"}
INVARIANTS
  PriorityThenAge
  StalenessBounded
  OnlyCarriedSurvive
  PoolsConsistent
  IntactUnlessOverlapped
  ActiveAreAccountedFor
  RequestsAddUp
  RetriesBounded
  DeadlockNeedsSuspect
CHECK_DEADLOCK FALSE
