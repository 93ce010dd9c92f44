------------------------ MODULE CircuitBreakerProofs ------------------------
(***************************************************************************)
(* What a circuit breaker keeps for any number of calls, any threshold and  *)
(* any sequence of manual changes.  The inductive invariant is the types    *)
(* together with BreakerConsistent: the mutex, held by the operation that   *)
(* runs, is what keeps everyone else from changing the state meanwhile.     *)
(***************************************************************************)
EXTENDS CircuitBreaker, TLAPS

IInv == TypeOK /\ BreakerConsistent

\* Who may take the mutex knows that no operation runs.
LEMMA NothingRuns ==
  ASSUME BreakerConsistent, MutexFree
  PROVE  \A c \in Calls : call[c] # "running"
BY DEF BreakerConsistent, OpenMeansBlocked, MutexFree

\* What a step does to the calls and the mutex is consistent when nobody runs
\* afterwards.
LEMMA NobodyRunsAfter ==
  ASSUME \A c \in Calls : call'[c] # "running",
         state' = "closed" => failureCount' = streak' /\ streak' < failureThreshold
  PROVE  BreakerConsistent'
BY DEF BreakerConsistent, OpenMeansBlocked, CountsTheStreak

\* Initially the circuit is closed and nothing has been called.
LEMMA InitIInv ==
  ASSUME BreakerAssumption, Init
  PROVE  IInv
BY DEF BreakerAssumption, Init, IInv, TypeOK, BreakerConsistent, OpenMeansBlocked,
       CountsTheStreak, States, PCs, Counter

\* The counters stay numbers.
LEMMA CountedTyped ==
  ASSUME TypeOK
  PROVE  \A S : Counted(S) \in [Counter -> Nat]
BY DEF TypeOK, Counted

\* The step of a call.
LEMMA ProceedIInv ==
  ASSUME BreakerAssumption, IInv, NEW c \in Calls, Proceed(c)
  PROVE  IInv'
<1> USE DEF IInv
<1>1. CASE Execute(c)
  <2>1. TypeOK'
    BY <1>1 DEF Execute, TypeOK, PCs
  <2>2. \A d \in Calls : call'[d] # "running"
    BY <1>1, NothingRuns DEF Execute, TypeOK, States
  <2> QED
    BY <1>1, <2>1, <2>2, NobodyRunsAfter DEF Execute, BreakerConsistent, CountsTheStreak
<1>2. CASE EnterClosed(c)
  <2>1. TypeOK'
    BY <1>2 DEF EnterClosed, TypeOK, PCs, States
  <2>2. \A d \in Calls : call'[d] = "running" => d = c /\ state' = "closed"
    BY <1>2, NothingRuns DEF EnterClosed, TypeOK
  <2>3. holder' = {c}
    BY <1>2 DEF EnterClosed
  <2> QED
    BY <1>2, <2>1, <2>2, <2>3 DEF EnterClosed, BreakerConsistent, OpenMeansBlocked, CountsTheStreak
<1>3. CASE Failed(c)
  <2>1. /\ state = "closed" /\ holder = {c}
        /\ failureCount = streak /\ failureCount \in Nat /\ failureCount < failureThreshold
    BY <1>3 DEF Failed, BreakerConsistent, OpenMeansBlocked, CountsTheStreak, TypeOK
  <2>2. counters' \in [Counter -> Nat]
    BY <1>3, CountedTyped DEF Failed
  <2>3. /\ state' \in {"closed", "open"} /\ streak' \in Nat
        /\ failureCount' \in 0..failureThreshold - 1
        /\ state' = "closed" => failureCount' = streak' /\ streak' < failureThreshold
    BY <1>3, <2>1 DEF Failed, BreakerAssumption
  <2>4. holder' = {} /\ call' = [call EXCEPT ![c] = "done"] /\ elapsed' = FALSE /\ forced' = forced
    BY <1>3 DEF Failed, Returns
  <2>5. TypeOK'
    BY <2>2, <2>3, <2>4 DEF TypeOK, PCs, States
  <2>6. \A d \in Calls : call'[d] # "running"
    BY <2>1, <2>4 DEF BreakerConsistent, OpenMeansBlocked, TypeOK
  <2> QED
    BY <2>3, <2>5, <2>6, NobodyRunsAfter
<1>4. CASE Succeeded(c)
  <2>1. state = "closed" /\ holder = {c}
    BY <1>4 DEF Succeeded, BreakerConsistent, OpenMeansBlocked
  <2>2. counters' \in [Counter -> Nat]
    BY <1>4, CountedTyped DEF Succeeded
  <2>3. holder' = {} /\ call' = [call EXCEPT ![c] = "done"]
    BY <1>4 DEF Succeeded, Returns
  <2>4. TypeOK'
    BY <1>4, <2>2, <2>3 DEF Succeeded, TypeOK, PCs, States, BreakerAssumption
  <2>5. \A d \in Calls : call'[d] # "running"
    BY <2>1, <2>3 DEF BreakerConsistent, OpenMeansBlocked, TypeOK
  <2> QED
    BY <1>4, <2>4, <2>5, NobodyRunsAfter DEF Succeeded, BreakerAssumption
<1>5. CASE Refuse(c)
  <2>1. TypeOK'
    BY <1>5 DEF Refuse, Returns, TypeOK, PCs
  <2>2. \A d \in Calls : call'[d] # "running"
    BY <1>5, NothingRuns DEF Refuse, Returns, TypeOK
  <2> QED
    BY <1>5, <2>1, <2>2, NobodyRunsAfter DEF Refuse, BreakerConsistent, CountsTheStreak
<1>6. CASE TestRecovery(c)
  <2>1. counters' \in [Counter -> Nat]
    BY <1>6, CountedTyped DEF TestRecovery
  <2>2. state' = "halfopen" /\ failureCount' \in 0..failureThreshold - 1
    BY <1>6 DEF TestRecovery, Turn, TypeOK, BreakerAssumption
  <2>3. TypeOK'
    BY <1>6, <2>1, <2>2 DEF TestRecovery, TypeOK, PCs, States
  <2>4. \A d \in Calls : call'[d] # "running"
    BY <1>6, NothingRuns DEF TestRecovery, TypeOK
  <2> QED
    BY <2>2, <2>3, <2>4, NobodyRunsAfter
<1> QED
  BY <1>1, <1>2, <1>3, <1>4, <1>5, <1>6 DEF Proceed

\* Manual changes wait for the mutex like everyone else.
LEMMA ForceIInv ==
  ASSUME BreakerAssumption, IInv, NEW s \in States, ForceTo(s)
  PROVE  IInv'
<1> USE DEF IInv
<1>1. s \in {"open", "closed"} /\ state' = s /\ call' = call /\ holder' = holder
  BY DEF ForceTo, Turn
<1>2. counters' \in [Counter -> Nat]
  BY CountedTyped DEF ForceTo
<1>3. /\ failureCount' \in 0..failureThreshold - 1 /\ streak' \in Nat
      /\ state' = "closed" => failureCount' = streak' /\ streak' < failureThreshold
  BY <1>1 DEF ForceTo, Turn, Changes, TypeOK, BreakerAssumption, BreakerConsistent, CountsTheStreak
<1>4. forced' \in 0..MaxForced
  BY DEF ForceTo, TypeOK, BreakerAssumption
<1>5. TypeOK'
  BY <1>1, <1>2, <1>3, <1>4 DEF ForceTo, TypeOK, States
<1>6. \A d \in Calls : call'[d] # "running"
  BY <1>1, NothingRuns DEF ForceTo
<1> QED
  BY <1>3, <1>5, <1>6, NobodyRunsAfter

LEMMA ResetIInv ==
  ASSUME BreakerAssumption, IInv, Reset
  PROVE  IInv'
<1> USE DEF IInv
<1>1. TypeOK'
  BY DEF Reset, TypeOK, States, BreakerAssumption
<1>2. \A d \in Calls : call'[d] # "running"
  BY NothingRuns DEF Reset
<1> QED
  BY <1>1, <1>2, NobodyRunsAfter DEF Reset, BreakerAssumption

\* A cancelled context and the passing of the timeout change nothing else.
LEMMA OtherIInv ==
  ASSUME IInv, (\E c \in Calls : Cancelled(c)) \/ Timeout \/ UNCHANGED vars
  PROVE  IInv'
<1> USE DEF IInv
<1>1. ASSUME NEW c \in Calls, Cancelled(c) PROVE IInv'
  <2>1. TypeOK'
    BY <1>1 DEF Cancelled, TypeOK, PCs
  <2>2. \A d \in Calls : call'[d] = "running" => call[d] = "running"
    BY <1>1 DEF Cancelled, TypeOK
  <2> QED
    BY <1>1, <2>1, <2>2 DEF Cancelled, BreakerConsistent, OpenMeansBlocked, CountsTheStreak
<1>2. CASE Timeout
  BY <1>2 DEF Timeout, TypeOK, BreakerConsistent, OpenMeansBlocked, CountsTheStreak
<1>3. CASE UNCHANGED vars
  BY <1>3 DEF vars, TypeOK, BreakerConsistent, OpenMeansBlocked, CountsTheStreak
<1> QED
  BY <1>1, <1>2, <1>3

----------------------------------------------------------------------------
\* While the circuit is open no operation runs, whatever a call had read
\* before (executeClosed looks again), and the breaker's own count of failures
\* is the number of failures in a row, below the threshold while it is closed.
THEOREM Consistency ==
  ASSUME BreakerAssumption
  PROVE  Spec => []BreakerConsistent
<1>1. Init => IInv
  BY InitIInv
<1>2. IInv /\ [Next]_vars => IInv'
  BY ProceedIInv, ForceIInv, ResetIInv, OtherIInv DEF Next
<1>3. IInv => BreakerConsistent
  BY DEF IInv
<1> QED
  BY <1>1, <1>2, <1>3, PTL DEF Spec

\* Every variable of the breaker keeps its type.
THEOREM TypeCorrect ==
  ASSUME BreakerAssumption
  PROVE  Spec => []TypeOK
<1>1. Init => IInv
  BY InitIInv
<1>2. IInv /\ [Next]_vars => IInv'
  BY ProceedIInv, ForceIInv, ResetIInv, OtherIInv DEF Next
<1>3. IInv => TypeOK
  BY DEF IInv
<1> QED
  BY <1>1, <1>2, <1>3, PTL DEF Spec
=============================================================================
