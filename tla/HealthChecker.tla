--------------------------- MODULE HealthChecker ---------------------------
(***************************************************************************)
(* The health checker (health_checker.go); SelfHealing has what acts on it.  *)
(* A run of a check is a goroutine that waits for the check's answer or for *)
(* its timeout and then records the result in the check it was started     *)
(* with; runs are started by the routine's ticker and on demand, and        *)
(* nothing keeps two runs of one check apart.  Time is counted in the       *)
(* routine's ticks.                                                         *)
(***************************************************************************)
EXTENDS Naturals, FiniteSets

CONSTANTS
  Checks,     \* the names of checks
  Critical,   \* the names of critical ones
  Interval,   \* HealthCheck.Interval
  Timeout,    \* HealthCheck.Timeout
  Runs,       \* room for runs under way at a time
  MaxAdded    \* bound: checks made for one name

CheckerAssumption ==
  /\ Critical \subseteq Checks /\ IsFiniteSet(Runs) /\ MaxAdded \in Nat
  /\ Interval \in Nat \ {0} /\ Timeout \in Nat \ {0}

VARIABLES
  check,     \* check[c]: the last check object made for c, and whether the map has it
  run,       \* run[i]: a run, or the room for one
  tick,      \* a tick that the routine has not received yet
  stop,      \* Stop has been called
  up,        \* external: up[c], what the check of c would find now
  downFor    \* history: ticks since c went down or was added, up to Late

vars == <<check, run, tick, stop, up, downFor>>

Statuses == {"healthy", "degraded", "unhealthy", "unknown"}
Free == [pc |-> "free", check |-> "none", added |-> 0, age |-> 0, ok |-> FALSE]

\* The longest a result stands: a run answers up to Timeout after it looked,
\* its successor starts Interval and at most a tick later, and answers within
\* Timeout.
Late == Timeout + Interval + 1 + Timeout

Present(c) == check[c].present

----------------------------------------------------------------------------
Init ==
  /\ check = [c \in Checks |-> [added |-> 0, present |-> FALSE, status |-> "unknown", since |-> Interval]]
  /\ run = [i \in Runs |-> Free]
  /\ tick = FALSE /\ stop = FALSE
  /\ up = [c \in Checks |-> TRUE] /\ downFor = [c \in Checks |-> 0]

\* AddCheck puts an object of the caller's under the name, with whatever
\* Status and LastCheck the caller has given it ...
AddCheck(c) ==
  /\ check[c].added < MaxAdded
  /\ \E status \in Statuses, since \in 0..Interval :
       check' = [check EXCEPT ![c] = [added |-> @.added + 1, present |-> TRUE,
                                      status |-> status, since |-> since]]
  /\ downFor' = [downFor EXCEPT ![c] = 0]
  /\ UNCHANGED <<run, tick, stop, up>>

\* ... which may be the one that was removed, as the last run has left it.
AddAgain(c) ==
  /\ check[c].added > 0 /\ ~Present(c)
  /\ check' = [check EXCEPT ![c].present = TRUE]
  /\ downFor' = [downFor EXCEPT ![c] = 0]
  /\ UNCHANGED <<run, tick, stop, up>>

\* The runs of the check that are under way go on.
RemoveCheck(c) ==
  /\ Present(c)
  /\ check' = [check EXCEPT ![c].present = FALSE]
  /\ UNCHANGED <<run, tick, stop, up, downFor>>

\* Time passes.  A run that has used up its timeout does not outlive the tick.
Tick ==
  /\ ~tick /\ ~stop /\ \A i \in Runs : run[i].age < Timeout
  /\ tick' = TRUE
  /\ check' = [c \in Checks |-> [check[c] EXCEPT !.since = IF @ = Interval THEN @ ELSE @ + 1]]
  /\ run' = [i \in Runs |-> [run[i] EXCEPT !.age = IF run[i].pc = "free" THEN 0 ELSE @ + 1]]
  /\ downFor' = [c \in Checks |-> IF up[c] THEN 0 ELSE IF downFor[c] = Late THEN Late ELSE downFor[c] + 1]
  /\ UNCHANGED <<stop, up>>

Started(c) == [pc |-> "running", check |-> c, added |-> check[c].added, age |-> 0, ok |-> FALSE]

\* runPeriodicChecks starts a run for every check that is due.
RunPeriodicChecks ==
  LET due == {c \in Checks : Present(c) /\ check[c].since = Interval} IN
  /\ tick /\ ~stop /\ tick' = FALSE
  /\ \E room \in [due -> {i \in Runs : run[i].pc = "free"}] :
       /\ \A c, d \in due : c # d => room[c] # room[d]
       /\ run' = [i \in Runs |-> IF \E c \in due : room[c] = i
                                 THEN Started(CHOOSE c \in due : room[c] = i) ELSE run[i]]
  /\ UNCHANGED <<check, stop, up, downFor>>

\* RunCheck, and RunAllChecks for every client that asks for the health.
RunCheck(c, i) ==
  /\ Present(c) /\ run[i].pc = "free"
  /\ run' = [run EXCEPT ![i] = Started(c)]
  /\ UNCHANGED <<check, tick, stop, up, downFor>>

\* The check's function returns what it finds.  It may also never return.
Answer(i) ==
  /\ run[i].pc = "running"
  /\ run' = [run EXCEPT ![i].pc = "answered", ![i].ok = up[run[i].check]]
  /\ UNCHANGED <<check, tick, stop, up, downFor>>

\* updateCheckStatus changes the object the run was started with, which may
\* no longer be the one in the map.
Recorded(i, ok) ==
  LET c == run[i].check
      status == IF ok THEN "healthy" ELSE IF c \in Critical THEN "unhealthy" ELSE "degraded"
  IN IF run[i].added = check[c].added
     THEN [check EXCEPT ![c].status = status, ![c].since = 0] ELSE check

UpdateCheckStatus(i) ==
  /\ run[i].pc = "answered"
  /\ check' = Recorded(i, run[i].ok)
  /\ run' = [run EXCEPT ![i] = Free]
  /\ UNCHANGED <<tick, stop, up, downFor>>

\* Mutant of TimesOut: the timeout returns without recording anything.
TimesOut_Silently(i) ==
  /\ run[i].pc # "free" /\ (run[i].age >= Timeout \/ stop)
  /\ run' = [run EXCEPT ![i] = Free]
  /\ UNCHANGED <<check, tick, stop, up, downFor>>

\* The timeout, or Stop, which cancels the context of every run: a failure.
\* An answer that has come as well may be passed over.
TimesOut(i) ==
  /\ run[i].pc # "free" /\ (run[i].age >= Timeout \/ stop)
  /\ check' = Recorded(i, FALSE)
  /\ run' = [run EXCEPT ![i] = Free]
  /\ UNCHANGED <<tick, stop, up, downFor>>

Stop ==
  /\ ~stop /\ stop' = TRUE
  /\ UNCHANGED <<check, run, tick, up, downFor>>

\* External: components go down and come back.
Turns(c) ==
  /\ up' = [up EXCEPT ![c] = ~@] /\ downFor' = [downFor EXCEPT ![c] = 0]
  /\ UNCHANGED <<check, run, tick, stop>>

Next ==
  \/ \E c \in Checks : AddCheck(c) \/ AddAgain(c) \/ RemoveCheck(c) \/ Turns(c) \/ \E i \in Runs : RunCheck(c, i)
  \/ Tick \/ RunPeriodicChecks
  \/ \E i \in Runs : Answer(i) \/ UpdateCheckStatus(i) \/ TimesOut(i)
  \/ Stop

Spec == Init /\ [][Next]_vars

----------------------------------------------------------------------------
\* Every variable keeps its type (HealthChecker, HealthCheck).
TypeOK ==
  /\ check \in [Checks -> [added : 0..MaxAdded, present : BOOLEAN, status : Statuses, since : 0..Interval]]
  /\ run \in [Runs -> [pc : {"free", "running", "answered"}, check : Checks \cup {"none"},
                       added : 0..MaxAdded, age : 0..Timeout, ok : BOOLEAN]]
  /\ tick \in BOOLEAN /\ stop \in BOOLEAN
  /\ up \in [Checks -> BOOLEAN] /\ downFor \in [Checks -> 0..Late]

\* Runs of one check overlap, answer late or never, and an old result may
\* replace a newer one, checks are removed, replaced and put back meanwhile, and
\* a new one comes with the status its caller gives it; still nothing is shown
\* healthy that has been down, and watched, for an interval, a tick and two
\* timeouts (AddCheck, RemoveCheck, runCheck, runPeriodicChecks).
DownIsNoticed ==
  \A c \in Checks : Present(c) /\ downFor[c] = Late => check[c].status # "healthy"

----------------------------------------------------------------------------
(* What DownIsNoticed rests on                                              *)

\* A run that has found its component up looked before it went down.
AnswersAged ==
  /\ \A c \in Checks : up[c] => downFor[c] = 0
  /\ \A i \in Runs : /\ run[i].pc # "free" => run[i].check \in Checks
                     /\ run[i].pc = "answered" /\ run[i].ok => downFor[run[i].check] <= run[i].age

\* A run that will say something of the check object that c has now.
Judges(i, c) == run[i].pc # "free" /\ run[i].check = c /\ run[i].added = check[c].added

\* A healthy result is not old yet, or the tick that finds it old is still to
\* be received or, where it was given as old already, to come; or the run that
\* replaces it is under way.
ResultsAged ==
  \A c \in Checks : Present(c) /\ check[c].status = "healthy" =>
    \/ /\ downFor[c] <= Timeout + check[c].since
       /\ check[c].since < Interval \/ tick \/ downFor[c] = 0
    \/ \E i \in Runs : Judges(i, c) /\ downFor[c] <= Timeout + Interval + run[i].age

CheckerInv == TypeOK /\ AnswersAged /\ ResultsAged
=============================================================================
