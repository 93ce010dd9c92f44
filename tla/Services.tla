------------------------------ MODULE Services ------------------------------
(***************************************************************************)
(* The services that serve requests, together.  None of them reads the      *)
(* state of another, so each behaviour exercises one: "part" says which,    *)
(* and the variables v1, v2, ... are that part's variables in the order its *)
(* module declares them.  A part's parameters are the fields of one record. *)
(***************************************************************************)
EXTENDS Naturals, Sequences, ServiceLocks

CONSTANTS
  Parts,     \* the services that may be exercised
  queue, cache, tiers, pools, clients, limiter, retry,   \* their parameters
  threads    \* the goroutines that run the methods of ServiceLocks

VARIABLES part, v1, v2, v3, v4, v5, v6, v7

vars == <<part, v1, v2, v3, v4, v5, v6, v7>>

\* What a part has no use for.
From7 == v7 = "unused"
From6 == v6 = "unused" /\ From7
From4 == v4 = "unused" /\ v5 = "unused" /\ From6
From3 == v3 = "unused" /\ From4

----------------------------------------------------------------------------
\* A job is its priority and its age.
Jobs == queue.Priorities \X (1..queue.MaxJobs)
Queue == INSTANCE MCPriorityQueue WITH
  Job <- Jobs, Priority <- [j \in Jobs |-> j[1]],
  MaxJobs <- queue.MaxJobs, Priorities <- queue.Priorities,
  jobs <- v1, pushed <- v2

Cache == INSTANCE ResponseCache WITH
  Requests <- cache.Requests, Tags <- cache.Tags, Paths <- cache.Paths, Asks <- cache.Asks,
  MaxEntries <- cache.MaxEntries, TTL <- cache.TTL, MaxHandling <- cache.MaxHandling,
  MaxVersion <- cache.MaxVersion, MaxWrites <- cache.MaxWrites, MaxTime <- cache.MaxTime,
  entries <- v1, now <- v2, version <- v3, past <- v4, request <- v5, writing <- v6

Tiers == INSTANCE AdvancedCache WITH
  Keys <- tiers.Keys, Objects <- tiers.Objects, Getters <- tiers.Getters, Home <- tiers.Home,
  MaxEntries <- tiers.MaxEntries, Promote <- tiers.Promote, TTL <- tiers.TTL,
  MaxCount <- tiers.MaxCount, MaxTime <- tiers.MaxTime,
  tier <- v1, object <- v2, now <- v3, getter <- v4, sweep <- v5, doomed <- v6, carried <- v7

Pools == INSTANCE JSONPools WITH
  Calls <- pools.Calls, MaxBuffers <- pools.MaxBuffers, MaxEncoders <- pools.MaxEncoders,
  buffers <- v1, encoders <- v2, content <- v3, call <- v4, owes <- v5, stats <- v6, overlap <- v7

Clients == INSTANCE ConnectionPool WITH
  Users <- clients.Users, maxSize <- clients.maxSize, MaxCreated <- clients.MaxCreated,
  idle <- v1, holding <- v2, excess <- v3, owes <- v4, stats <- v5, peak <- v6, stop <- v7

Limiter == INSTANCE RateLimiter WITH
  Requests <- limiter.Requests, Route <- limiter.Route, BurstSize <- limiter.BurstSize,
  Rate <- limiter.Rate, MaxResets <- limiter.MaxResets, MaxTime <- limiter.MaxTime,
  bucket <- v1, request <- v2, stats <- v3, now <- v4, resets <- v5, mixed <- v6

Retry == INSTANCE RetryMechanism WITH
  Calls <- retry.Calls, MaxAttempts <- retry.MaxAttempts, InitialDelay <- retry.InitialDelay,
  MaxDelay <- retry.MaxDelay, Multiplier <- retry.Multiplier, Half <- retry.Half,
  JitterPercent <- retry.JitterPercent, MaxResets <- retry.MaxResets,
  Strategies <- retry.Strategies,
  strategy <- v1, call <- v2, stats <- v3, resets <- v4, failures <- v5

Locks == INSTANCE LockOrderProofs WITH
  Threads <- threads,
  Program <- Methods,
  op <- v1, pc <- v2, announced <- v3

ASSUME ServicesAssumption ==
  /\ Queue!QueueAssumption /\ Cache!CacheAssumption /\ Tiers!TiersAssumption
  /\ Pools!PoolsAssumption /\ Clients!PoolAssumption /\ Limiter!LimiterAssumption
  /\ Retry!RetryAssumption /\ Locks!LockAssumption

----------------------------------------------------------------------------
Init ==
  /\ part \in Parts
  /\ \/ part = "queue" /\ Queue!Init /\ From3
     \/ part = "cache" /\ Cache!Init /\ From7
     \/ part = "tiers" /\ Tiers!Init
     \/ part = "pools" /\ Pools!Init
     \/ part = "clients" /\ Clients!Init
     \/ part = "limiter" /\ Limiter!Init /\ From7
     \/ part = "retry" /\ Retry!Init /\ From6
     \/ part = "locks" /\ Locks!Init /\ From4

Next ==
  /\ UNCHANGED part
  /\ \/ part = "queue" /\ Queue!Next /\ UNCHANGED <<v3, v4, v5, v6, v7>>
     \/ part = "cache" /\ Cache!Next /\ UNCHANGED v7
     \/ part = "tiers" /\ Tiers!Next
     \/ part = "pools" /\ Pools!Next
     \/ part = "clients" /\ Clients!Next
     \/ part = "limiter" /\ Limiter!Next /\ UNCHANGED v7
     \/ part = "retry" /\ Retry!Next /\ UNCHANGED <<v6, v7>>
     \/ part = "locks" /\ Locks!Next /\ UNCHANGED <<v4, v5, v6, v7>>

Spec == Init /\ [][Next]_vars

----------------------------------------------------------------------------
\* The properties of the parts, stated and explained in their modules, and
\* with the first of each part that its variables keep their types.
PriorityThenAge == part = "queue" => Queue!PriorityThenAge
StalenessBounded == part = "cache" => Cache!TypeOK /\ Cache!StalenessBounded
OnlyCarriedSurvive == part = "tiers" => Tiers!TypeOK /\ Tiers!OnlyCarriedSurvive
PoolsConsistent == part = "pools" => Pools!TypeOK /\ Pools!PoolsConsistent
IntactUnlessOverlapped == part = "pools" => Pools!IntactUnlessOverlapped
ActiveAreAccountedFor == part = "clients" => Clients!TypeOK /\ Clients!ActiveAreAccountedFor
RequestsAddUp == part = "limiter" => Limiter!TypeOK /\ Limiter!RequestsAddUp
RetriesBounded == part = "retry" => Retry!TypeOK /\ Retry!RetriesBounded
DeadlockNeedsSuspect ==
  part = "locks" => Locks!TypeOK /\ Locks!NestsInOrder /\ Locks!DeadlockNeedsSuspect
=============================================================================
