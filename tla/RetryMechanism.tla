--------------------------- MODULE RetryMechanism ---------------------------
(***************************************************************************)
(* One retry mechanism (retry_mechanism.go) and the calls of                *)
(* ExecuteWithRetryContext that share its statistics.  A delay is a         *)
(* Duration: an integer of a fixed width, whose products wrap round.        *)
(***************************************************************************)
EXTENDS Integers, FiniteSets

CONSTANTS
  Calls,         \* the calls
  MaxAttempts,   \* RetryConfig
  InitialDelay,
  MaxDelay,
  Multiplier,    \* a fraction, as <<numerator, denominator>>
  JitterPercent, \* JitterFactor in percent; 0 with Jitter off
  Strategies,    \* the strategies to check
  Half,          \* half the number of Durations: they lie in -Half..(Half - 1)
  MaxResets      \* bound: calls of Reset

RetryAssumption ==
  /\ MaxAttempts \in Nat \ {0} /\ InitialDelay \in Nat \ {0} /\ MaxDelay \in Nat \ {0}
  /\ Multiplier \in (Nat \ {0}) \X (Nat \ {0}) /\ Multiplier[1] >= Multiplier[2]
  /\ JitterPercent \in 0..100
  /\ Strategies \subseteq {"Exponential", "Linear", "Constant", "Fibonacci"}
  /\ Half \in Nat /\ MaxDelay + (MaxDelay * JitterPercent) \div 100 < Half
  /\ MaxResets \in Nat /\ IsFiniteSet(Calls)

VARIABLES
  strategy,  \* the configured strategy
  call,      \* call[c]: where a call is, its attempt, what it waits for
  stats,     \* RetryStats
  resets,    \* bound: Resets so far
  failures   \* history: failures[c], the retryable failures call c has had

vars == <<strategy, call, stats, resets, failures>>

PCs == {"try", "record", "wait", "success", "failure",
        "succeeded", "gaveUp", "returned", "cancelled"}
Counters == {"TotalAttempts", "SuccessfulRetries", "FailedRetries"}
Zero == [counter \in Counters |-> 0]

----------------------------------------------------------------------------
(* calculateDelay                                                           *)

Wrapped(n) == ((n + Half) % (2 * Half)) - Half

fibonacci[n \in 0..MaxAttempts] ==
  IF n <= 1 THEN n ELSE fibonacci[n - 1] + fibonacci[n - 2]

Powers(base) ==
  LET power[n \in 0..MaxAttempts] == IF n = 0 THEN 1 ELSE base * power[n - 1] IN power

\* What the initial delay is multiplied with; math.Pow is cut to an integer.
Factor(attempt) ==
  CASE strategy = "Exponential" -> 
            Powers(Multiplier[1])[attempt - 1] \div Powers(Multiplier[2])[attempt - 1]
    [] strategy = "Linear" -> attempt
    [] strategy = "Constant" -> 1
    [] strategy = "Fibonacci" -> fibonacci[attempt]

Product(attempt) == InitialDelay * Factor(attempt)

BaseDelay(attempt) ==
  IF Wrapped(Product(attempt)) > MaxDelay THEN MaxDelay ELSE Wrapped(Product(attempt))

\* applyJitter adds or subtracts a part of the delay, after the limit: the
\* extremes and the middle stand for it.
Jitter(delay) == (delay * JitterPercent) \div 100
Delays(attempt) ==
  LET base == BaseDelay(attempt)
  IN {Wrapped(base - Jitter(base)), base, Wrapped(base + Jitter(base))}

----------------------------------------------------------------------------
Init ==
  /\ strategy \in Strategies
  /\ call = [c \in Calls |-> [pc |-> "try", attempt |-> 1, outcome |-> "none", wait |-> 0]]
  /\ stats = Zero /\ resets = 0 /\ failures = [c \in Calls |-> 0]

Goes(c, pc) == call' = [call EXCEPT ![c].pc = pc]
Count(field) == stats' = [stats EXCEPT ![field] = @ + 1]

\* The context is looked at before an attempt and while waiting.
Cancelled(c) ==
  /\ call[c].pc \in {"try", "wait"}
  /\ Goes(c, "cancelled")
  /\ UNCHANGED <<strategy, stats, resets, failures>>

\* The operation runs: it succeeds, or fails with an error that
\* isRetryableError knows or does not know.
Attempt(c) ==
  /\ call[c].pc = "try"
  /\ \E outcome \in {"success", "retryable", "other"} :
       /\ call' = [call EXCEPT ![c].pc = "record", ![c].outcome = outcome]
       /\ failures' = [failures EXCEPT ![c] = IF outcome = "retryable" THEN @ + 1 ELSE @]
  /\ UNCHANGED <<strategy, stats, resets>>

\* Mutant of Record: the last attempt is compared too early.
Record_OneLess(c) ==
  /\ call[c].pc = "record" /\ Count("TotalAttempts")
  /\ \/ /\ call[c].outcome = "success"
        /\ Goes(c, IF call[c].attempt > 1 THEN "success" ELSE "succeeded")
     \/ call[c].outcome = "other" /\ Goes(c, "returned")
     \/ call[c].outcome = "retryable" /\ call[c].attempt + 1 >= MaxAttempts /\ Goes(c, "failure")
     \/ /\ call[c].outcome = "retryable" /\ call[c].attempt + 1 < MaxAttempts
        /\ \E d \in Delays(call[c].attempt) :
             call' = [call EXCEPT ![c].pc = "wait", ![c].wait = d]
  /\ UNCHANGED <<strategy, resets, failures>>

\* The attempt is counted; then it is decided how to go on.
Record(c) ==
  /\ call[c].pc = "record" /\ Count("TotalAttempts")
  /\ \/ /\ call[c].outcome = "success"
        /\ Goes(c, IF call[c].attempt > 1 THEN "success" ELSE "succeeded")
     \/ call[c].outcome = "other" /\ Goes(c, "returned")
     \/ call[c].outcome = "retryable" /\ call[c].attempt = MaxAttempts /\ Goes(c, "failure")
     \/ /\ call[c].outcome = "retryable" /\ call[c].attempt # MaxAttempts
        /\ \E d \in Delays(call[c].attempt) :
             call' = [call EXCEPT ![c].pc = "wait", ![c].wait = d]
  /\ UNCHANGED <<strategy, resets, failures>>

CountSuccess(c) ==
  /\ call[c].pc = "success" /\ Count("SuccessfulRetries") /\ Goes(c, "succeeded")
  /\ UNCHANGED <<strategy, resets, failures>>

CountFailure(c) ==
  /\ call[c].pc = "failure" /\ Count("FailedRetries") /\ Goes(c, "gaveUp")
  /\ UNCHANGED <<strategy, resets, failures>>

\* The delay is over.
Again(c) ==
  /\ call[c].pc = "wait"
  /\ call' = [call EXCEPT ![c].pc = "try", ![c].attempt = @ + 1, ![c].wait = 0]
  /\ UNCHANGED <<strategy, stats, resets, failures>>

Reset ==
  /\ resets < MaxResets
  /\ stats' = Zero /\ resets' = resets + 1
  /\ UNCHANGED <<strategy, call, failures>>

Next ==
  \/ \E c \in Calls : \/ Cancelled(c) \/ Attempt(c) \/ Record(c)
                      \/ CountSuccess(c) \/ CountFailure(c) \/ Again(c)
  \/ Reset

Spec == Init /\ [][Next]_vars

----------------------------------------------------------------------------
\* Every variable keeps its type (RetryMechanism, RetryStats).
TypeOK ==
  /\ strategy \in Strategies /\ resets \in 0..MaxResets
  /\ call \in [Calls -> [pc : PCs, attempt : 1..MaxAttempts, wait : Int,
                         outcome : {"none", "success", "retryable", "other"}]]
  /\ stats \in [Counters -> Nat]
  /\ failures \in [Calls -> 0..MaxAttempts]

\* "Giving up" is reported, and counted, for exactly the calls whose every
\* attempt failed in a way worth retrying, however calls interleave.
GivesUpExhausted ==
  /\ \A c \in Calls : call[c].pc \in {"failure", "gaveUp"} <=>
       failures[c] = MaxAttempts /\ call[c].pc # "record"
  /\ resets = 0 => stats.FailedRetries = Cardinality({c \in Calls : call[c].pc = "gaveUp"})

\* A retry never follows at once and never waits longer than MaxDelay and its
\* jitter, whatever the strategy, as long as the product fits into a Duration;
\* with enough attempts an exponential one does not (calculateDelay).
WaitsWithinBounds ==
  \A c \in Calls :
    call[c].pc = "wait" /\ Product(call[c].attempt) < Half =>
      /\ call[c].wait <= MaxDelay + Jitter(MaxDelay)
      /\ \/ call[c].wait >= InitialDelay - Jitter(InitialDelay)
         \/ call[c].wait >= MaxDelay - Jitter(MaxDelay)

\* A call is tried again as often as configured, never sooner or later than
\* configured, and gives up only then (ExecuteWithRetryContext).
RetriesBounded == GivesUpExhausted /\ WaitsWithinBounds

\* Why: where a call is tells how many of its attempts have failed.
FailuresCounted ==
  \A c \in Calls :
    LET k == call[c] IN
    /\ k.pc \in {"try", "success", "succeeded", "returned"} => failures[c] = k.attempt - 1
    /\ k.pc = "record" =>
         failures[c] = IF k.outcome = "retryable" THEN k.attempt ELSE k.attempt - 1
    /\ k.pc = "wait" => failures[c] = k.attempt /\ k.attempt < MaxAttempts
    /\ k.pc \in {"failure", "gaveUp"} => failures[c] = MaxAttempts
    /\ k.pc = "cancelled" => failures[c] < MaxAttempts
RetryInv == TypeOK /\ FailuresCounted /\ RetriesBounded
=============================================================================
