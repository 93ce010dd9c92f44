---------------------------- MODULE RateLimiter ----------------------------
(***************************************************************************)
(* A rate limiter (rate_limiter.go): every request takes a token from the   *)
(* global bucket, from the buckets of its user, address and endpoint as far *)
(* as the configuration asks for them, and from the main bucket.  A bucket  *)
(* has a mutex of its own, and so have the maps of buckets and the          *)
(* statistics: each use of one is a step.                                   *)
(***************************************************************************)
EXTENDS Naturals, FiniteSets, Sequences

CONSTANTS
  Requests,   \* the requests
  Route,      \* Route[r]: the maps and keys r's own buckets are found under
  BurstSize,  \* capacity of every bucket
  Rate,       \* tokens that a bucket gains per tick
  MaxResets,  \* bound: calls of Reset
  MaxTime     \* bound: ticks of the clock

LimiterAssumption ==
  /\ BurstSize \in Nat \ {0} /\ Rate \in Nat \ {0} /\ IsFiniteSet(Requests)
  /\ MaxResets \in Nat /\ MaxTime \in Nat /\ Route \in [Requests -> Seq(STRING)]

VARIABLES
  bucket,    \* the buckets, from their names
  request,   \* request[r]: where request r is and how many buckets it has passed
  stats,     \* RateLimitStats
  now,       \* the clock, in ticks
  resets,    \* bound: Resets so far
  mixed      \* history: a Reset came between the counts of one request

vars == <<bucket, request, stats, now, resets, mixed>>

Full == [tokens |-> BurstSize, lastRefill |-> now]
Zero == [TotalRequests |-> 0, AllowedRequests |-> 0, BlockedRequests |-> 0]

\* The buckets a request takes from, in the order of Allow.
Path(r) == <<"global">> \o Route[r] \o <<"main">>
Bucket(r) == Path(r)[request[r].passed + 1]

----------------------------------------------------------------------------
Init ==
  /\ bucket = [b \in {"global", "main"} |-> [tokens |-> BurstSize, lastRefill |-> 0]]
  /\ request = [r \in Requests |-> [pc |-> "new", passed |-> 0]]
  /\ stats = Zero /\ now = 0 /\ resets = 0 /\ mixed = FALSE

Count(field) == stats' = [stats EXCEPT ![field] = @ + 1]

\* Allow and AllowWithWait count the request first.
Arrive(r) ==
  /\ request[r].pc = "new"
  /\ Count("TotalRequests")
  /\ request' = [request EXCEPT ![r].pc = "find"]
  /\ UNCHANGED <<bucket, now, resets, mixed>>

\* getUserBucket, getIPBucket and getEndpointBucket make a bucket that does
\* not exist; the other two buckets always do.
Find(r) ==
  /\ request[r].pc = "find"
  /\ bucket' = [b \in DOMAIN bucket \cup {Bucket(r)} |->
                  IF b \in DOMAIN bucket THEN bucket[b] ELSE Full]
  /\ request' = [request EXCEPT ![r].pc = "take"]
  /\ UNCHANGED <<stats, now, resets, mixed>>

\* What Take and TakeWithWait find in bucket b: the content is set to the
\* capacity before the tokens gained are looked at (tb.tokens is overwritten,
\* whatever was left and however little time has passed).
Refilled(b) ==
  LET gained == (now - bucket[b].lastRefill) * Rate
  IN IF BurstSize + gained < BurstSize THEN BurstSize + gained ELSE BurstSize

\* Take; TakeWithWait waits only where Take refuses.
Take(r) ==
  LET b == Bucket(r)  had == Refilled(b)  passed == request[r].passed + 1 IN
  /\ request[r].pc = "take"
  /\ bucket' = [bucket EXCEPT ![b] = [tokens |-> IF had >= 1 THEN had - 1 ELSE had,
                                      lastRefill |-> now]]
  /\ request' = [request EXCEPT ![r] =
       IF had < 1 THEN [pc |-> "block", passed |-> passed]
       ELSE [pc |-> IF passed = Len(Path(r)) THEN "allow" ELSE "find", passed |-> passed]]
  /\ UNCHANGED <<stats, now, resets, mixed>>

\* The outcome is counted and returned.
Decide(r) ==
  /\ request[r].pc \in {"allow", "block"}
  /\ Count(IF request[r].pc = "allow" THEN "AllowedRequests" ELSE "BlockedRequests")
  /\ request' = [request EXCEPT ![r].pc = "done"]
  /\ UNCHANGED <<bucket, now, resets, mixed>>

UnderWay == {r \in Requests : request[r].pc \in {"find", "take", "allow", "block"}}

\* Mutant of Reset: the total is left as it is.
Reset_KeepsTotal ==
  /\ resets < MaxResets
  /\ stats' = [Zero EXCEPT !.TotalRequests = stats.TotalRequests]
  /\ resets' = resets + 1 /\ mixed' = (mixed \/ UnderWay # {})
  /\ UNCHANGED <<bucket, request, now>>

Reset ==
  /\ resets < MaxResets
  /\ stats' = Zero /\ resets' = resets + 1 /\ mixed' = (mixed \/ UnderWay # {})
  /\ UNCHANGED <<bucket, request, now>>

Tick ==
  /\ now < MaxTime /\ now' = now + 1
  /\ UNCHANGED <<bucket, request, stats, resets, mixed>>

Next ==
  \/ \E r \in Requests : Arrive(r) \/ Find(r) \/ Take(r) \/ Decide(r)
  \/ Reset \/ Tick

Spec == Init /\ [][Next]_vars

----------------------------------------------------------------------------
\* Every variable keeps its type (TokenBucket, RateLimiter, RateLimitStats).
TypeOK ==
  /\ \A b \in DOMAIN bucket : bucket[b] \in [tokens : 0..BurstSize, lastRefill : 0..MaxTime]
  /\ {"global", "main"} \subseteq DOMAIN bucket
  /\ \A r \in Requests : /\ request[r].pc \in {"new", "find", "take", "allow", "block", "done"}
                         /\ request[r].passed \in 0..Len(Path(r))
  /\ stats \in [TotalRequests : Nat, AllowedRequests : Nat, BlockedRequests : Nat]
  /\ now \in 0..MaxTime /\ resets \in 0..MaxResets /\ mixed \in BOOLEAN

\* Requests in any interleaving are each counted once when they come and once
\* when they go, unless a Reset has come in between (updateStats, Reset).
RequestsAddUp ==
  mixed \/ stats.TotalRequests =
             stats.AllowedRequests + stats.BlockedRequests + Cardinality(UnderWay)
=============================================================================
