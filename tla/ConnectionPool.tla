--------------------------- MODULE ConnectionPool ---------------------------
(***************************************************************************)
(* The pool of HTTP clients and its manager (connection_pool.go).  Clients  *)
(* are interchangeable: the pool is the number of idle ones.  A goroutine    *)
(* does something to the channel, and then adds it to the statistics, which *)
(* have a mutex of their own: others run in between.  The cleanup reads the *)
(* size once and then closes one client at a time.                          *)
(***************************************************************************)
EXTENDS Integers, FiniteSets

CONSTANTS
  Users,     \* goroutines that use a pooled client for a request
  maxSize,   \* capacity of the pool
  MaxCreated \* bound: clients created

\* The goroutines that call updateStats.
Cleaner == "cleanup"
Stopper == "stop"
Goroutines == Users \cup {Cleaner, Stopper}

PoolAssumption ==
  /\ IsFiniteSet(Users) /\ Cleaner \notin Users /\ Stopper \notin Users
  /\ maxSize \in Nat /\ MaxCreated \in Nat

VARIABLES
  idle,     \* clients in the channel
  holding,  \* the users that have a client
  excess,   \* clients the cleanup under way has still to close
  owes,     \* owes[g]: what goroutine g has done and not counted yet
  stats,    \* ConnectionStats
  peak,     \* the manager's PeakConnections
  stop      \* Stop: not called, draining, returned

vars == <<idle, holding, excess, owes, stats, peak, stop>>

Half == maxSize \div 2
Deeds == {"nothing", "reused", "created", "returned", "closed"}
Owing(deed) == {g \in Goroutines : owes[g] = deed}

CurrentActive == stats.TotalCreated - stats.TotalClosed

\* The constructor fills half of the pool.
Init ==
  /\ idle = Half /\ holding = {} /\ excess = 0 /\ peak = 0 /\ stop = "no"
  /\ owes = [g \in Goroutines |-> "nothing"]
  /\ stats = [TotalReused |-> 0, TotalCreated |-> Half, TotalClosed |-> 0]

\* g has done something and goes on to count it.
Does(g, deed) == owes[g] = "nothing" /\ owes' = [owes EXCEPT ![g] = deed]

Counts(reused, created, closed) ==
  stats' = [TotalReused |-> stats.TotalReused + reused,
            TotalCreated |-> stats.TotalCreated + created,
            TotalClosed |-> stats.TotalClosed + closed]

\* updateStats, with the deltas that its callers pass.
UpdateStats(g) ==
  /\ \/ owes[g] = "reused" /\ Counts(1, 0, 0)
     \/ owes[g] = "created" /\ Counts(0, 1, 0)
     \/ owes[g] = "returned" /\ Counts(-1, 0, 0)
     \/ owes[g] = "closed" /\ Counts(0, 0, 1)
  /\ owes' = [owes EXCEPT ![g] = "nothing"]
  /\ UNCHANGED <<idle, holding, excess, peak, stop>>

Get(u) ==
  /\ u \notin holding
  /\ holding' = holding \cup {u}
  /\ \/ idle > 0 /\ idle' = idle - 1 /\ Does(u, "reused")
     \/ /\ idle = 0 /\ stats.TotalCreated + Cardinality(Owing("created")) < MaxCreated
        /\ Does(u, "created") /\ UNCHANGED idle
  /\ UNCHANGED <<excess, stats, peak, stop>>

Put(u) ==
  /\ u \in holding
  /\ holding' = holding \ {u}
  /\ IF idle < maxSize THEN idle' = idle + 1 /\ Does(u, "returned")
                       ELSE Does(u, "closed") /\ UNCHANGED idle
  /\ UNCHANGED <<excess, stats, peak, stop>>

\* performCleanup, from the pool's ticker, which Stop ends.
CleanupBegins ==
  /\ stop = "no" /\ excess = 0 /\ owes[Cleaner] = "nothing" /\ idle > Half
  /\ excess' = idle - Half
  /\ UNCHANGED <<idle, holding, owes, stats, peak, stop>>

\* Mutant of CleanupCloses: a client is counted as closed though none was left.
CleanupCloses_Anyway ==
  /\ excess > 0
  /\ excess' = excess - 1
  /\ Does(Cleaner, "closed")
  /\ idle' = IF idle > 0 THEN idle - 1 ELSE idle
  /\ UNCHANGED <<holding, stats, peak, stop>>

\* An empty channel only ends the select, not the loop.
CleanupCloses ==
  /\ excess > 0 /\ owes[Cleaner] = "nothing"
  /\ excess' = excess - 1
  /\ IF idle > 0 THEN idle' = idle - 1 /\ Does(Cleaner, "closed") ELSE UNCHANGED <<idle, owes>>
  /\ UNCHANGED <<holding, stats, peak, stop>>

\* The manager's updateStats, from its own ticker.
UpdatePeak ==
  /\ stop = "no" /\ CurrentActive > peak
  /\ peak' = CurrentActive
  /\ UNCHANGED <<idle, holding, excess, owes, stats, stop>>

StopBegins ==
  /\ stop = "no" /\ stop' = "draining"
  /\ UNCHANGED <<idle, holding, excess, owes, stats, peak>>

\* Stop closes what it finds and returns when it finds nothing; requests that
\* are still out put their clients back later.
StopDrains ==
  /\ stop = "draining" /\ owes[Stopper] = "nothing"
  /\ IF idle > 0 THEN idle' = idle - 1 /\ Does(Stopper, "closed") /\ UNCHANGED stop
                 ELSE stop' = "done" /\ UNCHANGED <<idle, owes>>
  /\ UNCHANGED <<holding, excess, stats, peak>>

Next ==
  \/ \E u \in Users : Get(u) \/ Put(u)
  \/ \E g \in Goroutines : UpdateStats(g)
  \/ CleanupBegins \/ CleanupCloses \/ UpdatePeak \/ StopBegins \/ StopDrains

Spec == Init /\ [][Next]_vars

----------------------------------------------------------------------------
\* Every variable keeps its type (HTTPClientPool, ConnectionStats).
TypeOK ==
  /\ idle \in 0..maxSize /\ holding \subseteq Users /\ excess \in 0..maxSize
  /\ owes \in [Goroutines -> Deeds]
  /\ stats \in [TotalReused : Int, TotalCreated : Nat, TotalClosed : Nat]
  /\ peak \in Nat /\ stop \in {"no", "draining", "done"}

\* No client is lost, closed twice or counted twice, with a cleanup that works
\* from an old size and a Stop that overlaps requests: but for what has been
\* done and not counted yet, the statistics call active the clients that are
\* in use or in the pool (Get, Put, performCleanup, Stop).
ActiveAreAccountedFor ==
  CurrentActive + Cardinality(Owing("created"))
    = Cardinality(holding) + idle + Cardinality(Owing("closed"))
=============================================================================
