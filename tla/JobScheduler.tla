---------------------------- MODULE JobScheduler ----------------------------
(***************************************************************************)
(* The job scheduler (job_scheduler.go): a loop that looks for due jobs at  *)
(* every tick of its ticker and starts each in a goroutine of its own, the  *)
(* calls that change the jobs, and Stop.  An execution reads and writes the *)
(* job object it was started with, whatever the map has under the name by   *)
(* then.  The instant of NextRun is kept as the number of ticks until a     *)
(* tick finds it past.                                                      *)
(***************************************************************************)
EXTENDS Naturals, FiniteSets

CONSTANTS
  Names,       \* the IDs jobs are added under
  Objects,     \* the jobs AddJob may create, as 1..n
  Executions,  \* room for executions under way at a time
  Schedule,    \* ticks between two runs of a job
  MaxRetries,  \* ScheduledJob.MaxRetries
  MaxCalls     \* bound: calls of EnableJob, DisableJob and RemoveJob

SchedulerAssumption ==
  /\ Objects \subseteq Nat \ {0} /\ Schedule \in Nat \ {0} /\ MaxRetries \in Nat
  /\ MaxCalls \in Nat /\ IsFiniteSet(Executions) /\ Cardinality(Executions) > 0

VARIABLES
  jobs,     \* the map of jobs
  object,   \* object[o]: the jobs created so far
  exec,     \* exec[e]: an execution, or the room for one
  tick,     \* a tick that the loop has not received yet
  loop,     \* the loop of run: it waits, checks (with the jobs it found due), or has ended
  stop,     \* Stop: not called, stopping, returned
  calls     \* bound: calls so far

vars == <<jobs, object, exec, tick, loop, stop, calls>>

Job == [enabled : BOOLEAN, due : 0..Schedule + 1, retries : 0..MaxRetries]
Free == [pc |-> "free", job |-> 0, aged |-> FALSE, failed |-> FALSE]
UnderWay(o) == {e \in Executions : exec[e].pc # "free" /\ exec[e].job = o}

\* A job whose NextRun lies one schedule ahead is run by the tick after it.
Later == Schedule + 1

----------------------------------------------------------------------------
Init ==
  /\ jobs = <<>> /\ object = <<>> /\ exec = [e \in Executions |-> Free]
  /\ tick = FALSE /\ loop = [pc |-> "wait", found |-> {}] /\ stop = "no" /\ calls = 0

New == [enabled |-> TRUE, due |-> Later, retries |-> 0]

\* A name that is taken is refused.  The scheduler itself never refuses a job
\* because it was stopped.
AddJob(n) ==
  /\ n \notin DOMAIN jobs
  /\ \E o \in Objects \ DOMAIN object :
       /\ \A p \in Objects \ DOMAIN object : o <= p
       /\ jobs' = [m \in DOMAIN jobs \cup {n} |-> IF m = n THEN o ELSE jobs[m]]
       /\ object' = [p \in DOMAIN object \cup {o} |-> IF p = o THEN New ELSE object[p]]
  /\ UNCHANGED <<exec, tick, loop, stop, calls>>

Called == calls < MaxCalls /\ calls' = calls + 1

RemoveJob(n) ==
  /\ n \in DOMAIN jobs /\ Called
  /\ jobs' = [m \in DOMAIN jobs \ {n} |-> jobs[m]]
  /\ UNCHANGED <<object, exec, tick, loop, stop>>

EnableJob(n) ==
  /\ n \in DOMAIN jobs /\ Called
  /\ object' = [object EXCEPT ![jobs[n]].enabled = TRUE, ![jobs[n]].due = Later]
  /\ UNCHANGED <<jobs, exec, tick, loop, stop>>

DisableJob(n) ==
  /\ n \in DOMAIN jobs /\ Called
  /\ object' = [object EXCEPT ![jobs[n]].enabled = FALSE]
  /\ UNCHANGED <<jobs, exec, tick, loop, stop>>

\* Thirty seconds pass.  The loop, which waits for no job, is taken to be done
\* with one tick before the next.
Tick ==
  /\ loop.pc = "wait" /\ ~tick
  /\ tick' = TRUE
  /\ object' = [o \in DOMAIN object |->
                  [object[o] EXCEPT !.due = IF @ = 0 THEN 0 ELSE @ - 1]]
  /\ exec' = [e \in Executions |-> [exec[e] EXCEPT !.aged = exec[e].pc # "free"]]
  /\ UNCHANGED <<jobs, loop, stop, calls>>

\* Mutant of Due: a job that has failed is left to its retries.
Due_NeverFailed ==
  {jobs[n] : n \in {m \in DOMAIN jobs : /\ object[jobs[m]].enabled /\ object[jobs[m]].due = 0
                                        /\ object[jobs[m]].retries = 0}}

Due == {jobs[n] : n \in {m \in DOMAIN jobs : object[jobs[m]].enabled /\ object[jobs[m]].due = 0}}

\* checkAndRunJobs collects the jobs under the read lock ...
Check ==
  /\ loop.pc = "wait" /\ tick
  /\ tick' = FALSE
  /\ loop' = [pc |-> IF Due = {} THEN "wait" ELSE "start", found |-> Due]
  /\ UNCHANGED <<jobs, object, exec, stop, calls>>

\* ... and starts them after giving it up.
Start(e) ==
  /\ loop.pc = "start" /\ exec[e].pc = "free"
  /\ \E o \in loop.found :
       /\ exec' = [exec EXCEPT ![e] = [Free EXCEPT !.pc = "begin", !.job = o]]
       /\ loop' = [pc |-> IF loop.found = {o} THEN "wait" ELSE "start", found |-> loop.found \ {o}]
  /\ UNCHANGED <<jobs, object, tick, stop, calls>>

\* The loop may see a tick before it sees that it was stopped.
LoopEnds ==
  /\ loop.pc = "wait" /\ stop # "no"
  /\ loop' = [pc |-> "ended", found |-> {}]
  /\ UNCHANGED <<jobs, object, exec, tick, stop, calls>>

\* executeJob before its handler, and after it.
Begin(e) ==
  /\ exec[e].pc = "begin"
  /\ exec' = [exec EXCEPT ![e] = IF stop = "no" THEN [@ EXCEPT !.pc = "handler"] ELSE Free]
  /\ UNCHANGED <<jobs, object, tick, loop, stop, calls>>

Handler(e) ==
  /\ exec[e].pc = "handler"
  /\ \E failed \in BOOLEAN :
       exec' = [exec EXCEPT ![e].pc = "end", ![e].failed = failed]
  /\ UNCHANGED <<jobs, object, tick, loop, stop, calls>>

End(e) ==
  /\ exec[e].pc = "end"
  /\ exec' = [exec EXCEPT ![e] = IF stop = "no" THEN [@ EXCEPT !.pc = "update"] ELSE Free]
  /\ UNCHANGED <<jobs, object, tick, loop, stop, calls>>

\* What an execution makes of its job.  A retry is due after five seconds for
\* each retry so far, all of them less than a tick: the next tick finds it past,
\* or comes before and leaves it to the one after.
Soon == {1, 2}
Rescheduled(job, failed, soon) ==
  IF ~failed THEN [job EXCEPT !.due = Later, !.retries = 0]
  ELSE IF job.retries < MaxRetries THEN [job EXCEPT !.due = soon, !.retries = @ + 1]
  ELSE [job EXCEPT !.due = Later]

\* Mutant of Update: a retry is started at once, too.
Update_RetriesItself(e) ==
  LET o == exec[e].job IN
  /\ exec[e].pc = "update"
  /\ \E soon \in Soon : object' = [object EXCEPT ![o] = Rescheduled(@, exec[e].failed, soon)]
  /\ exec' = [exec EXCEPT ![e] =
       IF exec[e].failed THEN [Free EXCEPT !.pc = "begin", !.job = o] ELSE Free]
  /\ UNCHANGED <<jobs, tick, loop, stop, calls>>

Update(e) ==
  LET o == exec[e].job IN
  /\ exec[e].pc = "update"
  /\ \E soon \in Soon : object' = [object EXCEPT ![o] = Rescheduled(@, exec[e].failed, soon)]
  /\ exec' = [exec EXCEPT ![e] = Free]
  /\ UNCHANGED <<jobs, tick, loop, stop, calls>>

StopBegins ==
  /\ stop = "no" /\ stop' = "stopping"
  /\ UNCHANGED <<jobs, object, exec, tick, loop, calls>>

\* After its tenth of a second of grace Stop forgets the jobs.
StopClears ==
  /\ stop = "stopping" /\ stop' = "stopped"
  /\ jobs' = <<>>
  /\ UNCHANGED <<object, exec, tick, loop, calls>>

executeJob(e) == Begin(e) \/ Handler(e) \/ End(e) \/ Update(e)
Loop == Check \/ (\E e \in Executions : Start(e)) \/ LoopEnds

Next ==
  \/ \E n \in Names : AddJob(n) \/ RemoveJob(n) \/ EnableJob(n) \/ DisableJob(n)
  \/ Tick \/ Loop \/ StopBegins \/ StopClears
  \/ \E e \in Executions : executeJob(e)

\* Time passes, the loop runs and handlers end.
Fairness ==
  WF_vars(Tick) /\ WF_vars(Loop) /\ \A e \in Executions : WF_vars(executeJob(e))

Spec == Init /\ [][Next]_vars /\ Fairness

----------------------------------------------------------------------------
\* Every variable keeps its type (JobScheduler, ScheduledJob).
TypeOK ==
  /\ DOMAIN jobs \subseteq Names /\ \A n \in DOMAIN jobs : jobs[n] \in DOMAIN object
  /\ DOMAIN object \subseteq Objects /\ \A o \in DOMAIN object : object[o] \in Job
  /\ exec \in [Executions -> [pc : {"free", "begin", "handler", "end", "update"},
                              job : Objects \cup {0}, aged : BOOLEAN, failed : BOOLEAN]]
  /\ tick \in BOOLEAN /\ loop \in [pc : {"wait", "start", "ended"}, found : SUBSET Objects]
  /\ stop \in {"no", "stopping", "stopped"} /\ calls \in 0..MaxCalls

\* NextRun moves only when an execution ends, and yet two executions of a job
\* overlap only where the older one has outlasted a tick, whatever is enabled,
\* disabled, removed and added again meanwhile (checkAndRunJobs, executeJob).
OverlapMeansSlow ==
  \A o \in DOMAIN object : Cardinality({e \in UnderWay(o) : ~exec[e].aged}) <= 1

Waiting(o) == /\ \E n \in DOMAIN jobs : jobs[n] = o
              /\ o \in DOMAIN object /\ object[o].enabled /\ stop = "no"

\* A job that stays in the map and enabled runs again and again, failures and
\* exhausted retries included, until the scheduler is stopped.
Served(o) == Waiting(o) => UnderWay(o) # {}
JobRuns == \A o \in Objects : []<>Served(o)

----------------------------------------------------------------------------
(* What OverlapMeansSlow rests on                                           *)

Young(e) == exec[e].pc # "free" /\ ~exec[e].aged

\* A tick finds all that is under way aged; a job that is to be started has no
\* young execution; and no job has two.
YoungApart ==
  /\ tick => \A e \in Executions : ~Young(e)
  /\ loop.pc = "start" => ~tick
  /\ loop.pc # "start" => loop.found = {}
  /\ \A e \in Executions : Young(e) => exec[e].job \notin loop.found
  /\ \A e, f \in Executions : Young(e) /\ Young(f) /\ exec[e].job = exec[f].job => e = f

SchedulerInv == TypeOK /\ YoungApart
=============================================================================
