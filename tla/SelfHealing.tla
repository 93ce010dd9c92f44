---------------------------- MODULE SelfHealing ----------------------------
(***************************************************************************)
(* The self-healing manager (health_checker.go) and the circuit breakers it *)
(* closes (circuit_breaker.go).  Its routine looks at the breakers one      *)
(* after the other, and each look waits for the mutex of the breaker, which *)
(* is held while an operation runs and for ever by a breaker that has       *)
(* locked itself out.  What the health checker would answer changes at any  *)
(* time; what a breaker does is CircuitBreaker's, in less detail.           *)
(***************************************************************************)
EXTENDS Naturals, FiniteSets

CONSTANTS
  Breakers   \* the circuit breakers of the manager

HealingAssumption == IsFiniteSet(Breakers) /\ "none" \notin Breakers

VARIABLES
  status,    \* what GetOverallStatus would answer: unhealthy, or something else
  healer,    \* the routine: it waits, looks at a breaker, or is about to close it
  breaker,   \* breaker[b]: closed, open, running an operation, locked out, or forgotten
  stop       \* what Shutdown has stopped: nothing yet, the breakers, self-healing too

vars == <<status, healer, breaker, stop>>

Idle == [pc |-> "wait", at |-> "none", todo |-> {}]

\* The breaker's mutex: executeClosed holds it while the operation runs, and a
\* call that enters executeOpen or executeHalfOpen with it never gives it back.
MutexFree(b) == breaker[b] \notin {"running", "wedged"}

----------------------------------------------------------------------------
Init ==
  /\ status = "healthy" /\ healer = Idle /\ breaker = [b \in Breakers |-> "closed"] /\ stop = "no"

\* GetOverallStatus, over whatever checks have found by now.
GetOverallStatus ==
  /\ status' \in {"healthy", "unhealthy"} \ {status}
  /\ UNCHANGED <<healer, breaker, stop>>

\* The range over GetAll's copy of the map takes the breakers in any order.
NextBreaker(rest) == IF rest = {} THEN {Idle}
                     ELSE {[pc |-> "look", at |-> b, todo |-> rest \ {b}] : b \in rest}

\* performSelfHealing acts on the status it has read; only the unhealthy
\* status leads to anything.  GetAll waits while the manager's Stop runs.
PerformSelfHealing ==
  /\ healer = Idle /\ status = "unhealthy" /\ stop \in {"no", "stopped"}
  /\ healer' \in NextBreaker({b \in Breakers : breaker[b] # "gone"})
  /\ UNCHANGED <<status, breaker, stop>>

\* Mutant of Look: a breaker found open is left for the next time.
Look_Later ==
  /\ healer.pc = "look" /\ MutexFree(healer.at)
  /\ healer' \in NextBreaker(healer.todo)
  /\ UNCHANGED <<status, breaker, stop>>

\* handleUnhealthyStatus: GetState, which takes the mutex for reading ...
Look ==
  /\ healer.pc = "look" /\ MutexFree(healer.at)
  /\ healer' \in IF breaker[healer.at] = "open" THEN {[healer EXCEPT !.pc = "close"]}
                 ELSE NextBreaker(healer.todo)
  /\ UNCHANGED <<status, breaker, stop>>

\* ... and ForceClose, which takes it again.
Close ==
  /\ healer.pc = "close" /\ MutexFree(healer.at)
  /\ breaker' = [breaker EXCEPT ![healer.at] = IF @ = "open" THEN "closed" ELSE @]
  /\ healer' \in NextBreaker(healer.todo)
  /\ UNCHANGED <<status, stop>>

----------------------------------------------------------------------------
\* Shutdown stops the breakers' manager, which closes each breaker and forgets
\* it, and self-healing after it.
StopManager ==
  /\ stop = "no" /\ stop' = "stopping"
  /\ UNCHANGED <<status, healer, breaker>>

StopBreaker(b) ==
  /\ stop = "stopping" /\ MutexFree(b)
  /\ breaker' = [breaker EXCEPT ![b] = "gone"]
  /\ UNCHANGED <<status, healer, stop>>

Stopped ==
  /\ stop = "stopping" /\ \A b \in Breakers : breaker[b] = "gone"
  /\ stop' = "stopped"
  /\ UNCHANGED <<status, healer, breaker>>

Stop ==
  /\ stop = "stopped" /\ stop' = "both"
  /\ UNCHANGED <<status, healer, breaker>>

----------------------------------------------------------------------------
Turns(b, from, to) ==
  /\ breaker[b] \in from
  /\ \E s \in to : breaker' = [breaker EXCEPT ![b] = s]
  /\ UNCHANGED <<status, healer, stop>>

\* executeClosed runs the operation under the mutex ...
Executes(b) == Turns(b, {"closed"}, {"running"})

\* ... which ends, with the failure that opens the circuit or without.
Returns(b) == Turns(b, {"running"}, {"closed", "open"})

Opens(b) == Turns(b, {"closed"}, {"open"})

\* A call that has read a state since changed, or finds the timeout over, takes
\* the mutex a second time.
Wedges(b) == Turns(b, {"closed", "open"}, {"wedged"})

Healing == PerformSelfHealing \/ Look \/ Close

Next ==
  \/ GetOverallStatus \/ Healing
  \/ StopManager \/ Stopped \/ Stop
  \/ \E b \in Breakers : StopBreaker(b) \/ Executes(b) \/ Returns(b) \/ Opens(b) \/ Wedges(b)

\* Operations end.  A sync.RWMutex gives whoever waits for it a turn between
\* two holders, so that who can take it again and again does take it.
Fairness == SF_vars(Healing) /\ \A b \in Breakers : WF_vars(Returns(b))

Spec == Init /\ [][Next]_vars /\ Fairness

----------------------------------------------------------------------------
\* Every variable keeps its type (SelfHealingManager, CircuitBreakerManager).
TypeOK ==
  /\ status \in {"healthy", "unhealthy"} /\ stop \in {"no", "stopping", "stopped", "both"}
  /\ healer \in [pc : {"wait", "look", "close"}, at : Breakers \cup {"none"}, todo : SUBSET Breakers]
  /\ breaker \in [Breakers -> {"closed", "running", "open", "wedged", "gone"}]

\* While the service stays unhealthy no breaker stays open, whatever operations
\* the breakers run meanwhile, until Shutdown begins or one of the breakers has
\* locked itself out: self-healing, which has to look at it, is then stuck for
\* good (performSelfHealing, handleUnhealthyStatus).
LockedOut == \E b \in Breakers : breaker[b] = "wedged"
Healed(b) == breaker[b] # "open" \/ status # "unhealthy" \/ stop # "no" \/ LockedOut
BreakersHeal == \A b \in Breakers : []<>Healed(b)
=============================================================================
