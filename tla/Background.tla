----------------------------- MODULE Background -----------------------------
(***************************************************************************)
(* The parts that have to bring something to an end, together: the circuit  *)
(* breaker, the job scheduler, the health checker, self-healing, the power  *)
(* commands and the server's own lifecycle.  As in Services, each behaviour *)
(* exercises one part, whose variables are v1, v2, ... in the order its     *)
(* module declares them and whose parameters are the fields of one record.  *)
(***************************************************************************)
EXTENDS Naturals

CONSTANTS
  Parts,     \* the parts that may be exercised
  breaker, scheduler, health, healing, power, server   \* their parameters

VARIABLES part, v1, v2, v3, v4, v5, v6, v7, v8, v9

vars == <<part, v1, v2, v3, v4, v5, v6, v7, v8, v9>>

\* What a part has no use for.
From9 == v9 = "unused"
From8 == v8 = "unused" /\ From9
From7 == v7 = "unused" /\ From8
From6 == v6 = "unused" /\ From7
From5 == v5 = "unused" /\ From6
To9 == UNCHANGED <<part, v9>>
To8 == UNCHANGED <<part, v8, v9>>
To7 == UNCHANGED <<part, v7, v8, v9>>
To6 == UNCHANGED <<part, v6, v7, v8, v9>>
To5 == UNCHANGED <<part, v5, v6, v7, v8, v9>>

----------------------------------------------------------------------------
Breaker == INSTANCE CircuitBreakerProofs WITH
  Calls <- breaker.Calls, failureThreshold <- breaker.failureThreshold,
  MaxForced <- breaker.MaxForced,
  state <- v1, holder <- v2, call <- v3, failureCount <- v4, elapsed <- v5,
  counters <- v6, forced <- v7, streak <- v8

Scheduler == INSTANCE JobScheduler WITH
  Names <- scheduler.Names, Objects <- scheduler.Objects, Executions <- scheduler.Executions,
  Schedule <- scheduler.Schedule, MaxRetries <- scheduler.MaxRetries,
  MaxCalls <- scheduler.MaxCalls,
  jobs <- v1, object <- v2, exec <- v3, tick <- v4, loop <- v5, stop <- v6, calls <- v7

Health == INSTANCE HealthChecker WITH
  Checks <- health.Checks, Critical <- health.Critical, Runs <- health.Runs,
  Interval <- health.Interval, Timeout <- health.Timeout, MaxAdded <- health.MaxAdded,
  check <- v1, run <- v2, tick <- v3, stop <- v4, up <- v5, downFor <- v6

Healing == INSTANCE SelfHealing WITH
  Breakers <- healing.Breakers,
  status <- v1, healer <- v2, breaker <- v3, stop <- v4

Power == INSTANCE PowerStateProofs WITH
  Calls <- power.Calls, MaxAttempts <- power.MaxAttempts, MaxFaults <- power.MaxFaults,
  vm <- v1, vmi <- v2, call <- v3, history <- v4, faults <- v5

Server == INSTANCE ServerLifecycle WITH
  Requests <- server.Requests, MaxReloads <- server.MaxReloads,
  config <- v1, actor <- v2, watcher <- v3, running <- v4, http <- v5, request <- v6,
  stopped <- v7, process <- v8, history <- v9

ASSUME BackgroundAssumption ==
  /\ Breaker!BreakerAssumption /\ Scheduler!SchedulerAssumption /\ Health!CheckerAssumption
  /\ Healing!HealingAssumption /\ Power!PowerAssumption /\ Server!LifecycleAssumption

----------------------------------------------------------------------------
Init ==
  /\ part \in Parts
  /\ \/ part = "breaker" /\ Breaker!Init /\ From9
     \/ part = "scheduler" /\ Scheduler!Init /\ From8
     \/ part = "health" /\ Health!Init /\ From7
     \/ part = "healing" /\ Healing!Init /\ From5
     \/ part = "power" /\ Power!Init /\ From6
     \/ part = "server" /\ Server!Init

Next ==
  \/ part = "breaker" /\ Breaker!Next /\ To9
  \/ part = "scheduler" /\ Scheduler!Next /\ To8
  \/ part = "health" /\ Health!Next /\ To7
  \/ part = "healing" /\ Healing!Next /\ To5
  \/ part = "power" /\ Power!Next /\ To6
  \/ part = "server" /\ Server!Next /\ UNCHANGED part

Spec == Init /\ [][Next]_vars

----------------------------------------------------------------------------
\* The properties of the parts, stated and explained in their modules, and
\* with the first invariant of each part that its variables keep their types.
BreakerConsistent == part = "breaker" => Breaker!TypeOK /\ Breaker!BreakerConsistent
OverlapMeansSlow == part = "scheduler" => Scheduler!TypeOK /\ Scheduler!OverlapMeansSlow
DownIsNoticed == part = "health" => Health!TypeOK /\ Health!DownIsNoticed
CommandsRespected == part = "power" => Power!TypeOK /\ Power!CommandsRespected
WatchersFollowConfig == part = "server" => Server!TypeOK /\ Server!WatchersFollowConfig
DrainsBeforeExit == part = "server" => Server!DrainsBeforeExit

Waits(c) == part = "breaker" /\ Breaker!Waits(c)
Leaves(c) == part = "breaker" => Breaker!Returned(c) \/ Breaker!Wedged
CallsReturn == \A c \in breaker.Calls : Waits(c) ~> Leaves(c)
JobRuns == \A o \in scheduler.Objects : []<>(part = "scheduler" => Scheduler!Served(o))
BreakersHeal == \A b \in healing.Breakers : []<>(part = "healing" => Healing!Healed(b))
ReportSettles == <>[](part = "power" => Power!ReportAgrees)
Signalled == part = "server" /\ Server!Signalled
Ended == part = "server" => Server!Ended
ShutdownEnds == Signalled ~> Ended
=============================================================================
