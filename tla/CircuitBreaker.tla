--------------------------- MODULE CircuitBreaker ---------------------------
(***************************************************************************)
(* One circuit breaker (circuit_breaker.go): Execute from any number of     *)
(* goroutines, ForceOpen and ForceClose (also by self-healing and Stop),    *)
(* Reset.  The breaker's mutex is a sync.RWMutex: it is held while the      *)
(* protected operation runs, and it is not re-entrant.                      *)
(***************************************************************************)
EXTENDS Naturals, FiniteSets

CONSTANTS
  Calls,             \* the calls of Execute, each made once
  failureThreshold,  \* failures in a row that open the circuit
  MaxForced          \* bound: calls of ForceOpen, ForceClose and Reset

BreakerAssumption ==
  failureThreshold \in Nat \ {0} /\ MaxForced \in Nat /\ IsFiniteSet(Calls)

VARIABLES
  state,         \* closed, open or half-open
  holder,        \* the call that holds the mutex for writing, or {}
  call,          \* call[c]: where call c of Execute is
  failureCount,  \* the breaker's own count of failures in a row
  elapsed,       \* the timeout has passed since the last failure
  counters,      \* totals, and the stats that GetStats reports
  forced,        \* bound: manual changes so far
  streak         \* history: operations that failed since the last that did not

vars == <<state, holder, call, failureCount, elapsed, counters, forced, streak>>

States == {"closed", "open", "halfopen"}
\* The state a call has read in Execute is the executeX it enters.
PCs == {"new", "running", "done", "refused"} \cup States
Counter == {"requests", "failures", "successes", "opens", "closes", "halfOpens"}

----------------------------------------------------------------------------
MutexFree == holder = {}

\* Every way to leave Execute releases the mutex.
Returns(c, how) == holder' = {} /\ call' = [call EXCEPT ![c] = how]

Counted(S) == [k \in Counter |-> counters[k] + (IF k \in S THEN 1 ELSE 0)]

\* openCircuit, closeCircuit and halfOpenCircuit do nothing in the state they
\* lead to; otherwise they also start the count of failures again.
Changes(s) == state # s
Stat(s) == CASE s = "open" -> "opens" [] s = "closed" -> "closes" [] s = "halfopen" -> "halfOpens"
Turn(s) == state' = s /\ failureCount' = IF Changes(s) THEN 0 ELSE failureCount

----------------------------------------------------------------------------
Init ==
  /\ state = "closed" /\ holder = {} /\ failureCount = 0 /\ elapsed = TRUE
  /\ call = [c \in Calls |-> "new"] /\ counters = [k \in Counter |-> 0]
  /\ forced = 0 /\ streak = 0

\* ExecuteWithContext with a context that is cancelled already.
Cancelled(c) ==
  /\ call[c] = "new"
  /\ call' = [call EXCEPT ![c] = "refused"]
  /\ UNCHANGED <<state, holder, failureCount, elapsed, counters, forced, streak>>

\* Execute reads the state under the read lock and gives the lock up.
Execute(c) ==
  /\ call[c] = "new" /\ MutexFree
  /\ call' = [call EXCEPT ![c] = state]
  /\ UNCHANGED <<state, holder, failureCount, elapsed, counters, forced, streak>>

\* Mutant of EnterClosed: the state read in Execute is trusted.
EnterClosed_Trusting(c) ==
  /\ call[c] = "closed" /\ MutexFree
  /\ holder' = {c} /\ call' = [call EXCEPT ![c] = "running"]
  /\ UNCHANGED <<state, failureCount, elapsed, counters, forced, streak>>

\* executeClosed: the state may have changed since it was read.  executeOpen
\* is then entered with the mutex held.
EnterClosed(c) ==
  /\ call[c] = "closed" /\ MutexFree
  /\ holder' = {c}
  /\ call' = [call EXCEPT ![c] = IF state = "closed" THEN "running" ELSE "open"]
  /\ UNCHANGED <<state, failureCount, elapsed, counters, forced, streak>>

Failed(c) ==
  /\ call[c] = "running"
  /\ LET opens == failureCount + 1 >= failureThreshold IN
     /\ counters' = Counted({"requests", "failures"} \cup (IF opens THEN {"opens"} ELSE {}))
     /\ state' = IF opens THEN "open" ELSE state
     /\ failureCount' = IF opens THEN 0 ELSE failureCount + 1
     /\ streak' = IF opens THEN 0 ELSE streak + 1
  /\ elapsed' = FALSE
  /\ Returns(c, "done")
  /\ UNCHANGED forced
Succeeded(c) ==
  /\ call[c] = "running"
  /\ counters' = Counted({"requests", "successes"})
  /\ failureCount' = 0 /\ streak' = 0
  /\ Returns(c, "done")
  /\ UNCHANGED <<state, elapsed, forced>>

\* Mutant of Refuse: returns with the mutex held.
Refuse_Locked(c) ==
  /\ call[c] = "open" /\ MutexFree /\ ~elapsed
  /\ holder' = {c} /\ call' = [call EXCEPT ![c] = "refused"]
  /\ UNCHANGED <<state, failureCount, elapsed, counters, forced, streak>>

\* executeOpen before the timeout.
Refuse(c) ==
  /\ call[c] = "open" /\ MutexFree /\ ~elapsed
  /\ Returns(c, "refused")
  /\ UNCHANGED <<state, failureCount, elapsed, counters, forced, streak>>

\* executeOpen after it: the circuit turns half-open and executeHalfOpen is
\* called with the mutex held, which it begins by waiting for.  Nobody else
\* ever sees the half-open state, and executeHalfOpen never gets further.
\* The state may also be closed by now, since executeOpen does not look.
TestRecovery(c) ==
  /\ call[c] = "open" /\ MutexFree /\ elapsed
  /\ holder' = {c}
  /\ Turn("halfopen")
  /\ counters' = Counted(IF Changes("halfopen") THEN {"halfOpens"} ELSE {})
  /\ call' = [call EXCEPT ![c] = "halfopen"]
  /\ streak' = 0
  /\ UNCHANGED <<elapsed, forced>>

\* ForceOpen; ForceClose, by hand, by self-healing or by Stop.
ForceTo(s) ==
  /\ s \in {"open", "closed"} /\ MutexFree /\ forced < MaxForced
  /\ Turn(s)
  /\ counters' = Counted(IF Changes(s) THEN {Stat(s)} ELSE {})
  /\ streak' = IF Changes(s) THEN 0 ELSE streak
  /\ forced' = forced + 1
  /\ UNCHANGED <<holder, call, elapsed>>

\* Reset forgets the last failure, so that the timeout counts as elapsed.
Reset ==
  /\ MutexFree /\ forced < MaxForced
  /\ state' = "closed" /\ failureCount' = 0 /\ elapsed' = TRUE /\ streak' = 0
  /\ forced' = forced + 1
  /\ UNCHANGED <<holder, call, counters>>

Timeout ==
  /\ ~elapsed /\ elapsed' = TRUE
  /\ UNCHANGED <<state, holder, call, failureCount, counters, forced, streak>>

Proceed(c) ==
  \/ Execute(c) \/ EnterClosed(c) \/ Failed(c) \/ Succeeded(c)
  \/ Refuse(c) \/ TestRecovery(c)

Next ==
  \/ \E c \in Calls : Proceed(c) \/ Cancelled(c)
  \/ \E s \in States : ForceTo(s)
  \/ Reset \/ Timeout

\* A goroutine that can go on does; operations end.
Fairness == \A c \in Calls : WF_vars(Proceed(c))

Spec == Init /\ [][Next]_vars /\ Fairness

----------------------------------------------------------------------------
\* Every variable keeps its type (CircuitBreaker, CircuitBreakerStats).
TypeOK ==
  /\ state \in States /\ holder \in {{}} \cup {{c} : c \in Calls}
  /\ call \in [Calls -> PCs] /\ elapsed \in BOOLEAN
  /\ failureCount \in 0..failureThreshold - 1 /\ streak \in Nat
  /\ counters \in [Counter -> Nat] /\ forced \in 0..MaxForced

\* While the circuit is open no operation runs, and at most one runs at all,
\* whatever the state was when its call read it (executeClosed's second look).
OpenMeansBlocked ==
  \A c \in Calls : call[c] = "running" => state = "closed" /\ holder = {c}

\* The circuit is closed as long as fewer operations than the threshold have
\* failed in a row: no failure is counted twice or forgotten.
CountsTheStreak == state = "closed" => failureCount = streak /\ streak < failureThreshold

\* The state, the mutex, the count and the calls agree.
BreakerConsistent == OpenMeansBlocked /\ CountsTheStreak

\* A call that waits for the mutex it holds itself: executeOpen entered from
\* executeClosed, or executeHalfOpen from executeOpen.
Wedged == \E c \in holder : call[c] \in {"open", "halfopen"}

\* Re-entry is all that can block a call for good: every call returns, unless
\* the breaker has wedged itself.
Waits(c) == call[c] \in States
Returned(c) == call[c] \in {"done", "refused"}
CallsReturn == \A c \in Calls : Waits(c) ~> (Returned(c) \/ Wedged)
=============================================================================
