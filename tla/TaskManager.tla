---------------------------- MODULE TaskManager ----------------------------
(***************************************************************************)
(* pkg/server/task_manager.go: the asynchronous tasks behind Redfish's     *)
(* InsertMedia, the priority queue their jobs wait in, the dispatcher, the *)
(* worker pool with one buffered channel per worker, and the retry timers. *)
(*                                                                         *)
(* A job exists for exactly one task, so a job is its task.  The goroutines*)
(* are: request handlers (CreateTask), the dispatcher, the workers, the    *)
(* runtime's timers, the cleanup routine and the caller of Stop.           *)
(*                                                                         *)
(* A step is what a goroutine does under one lock or one channel operation.*)
(* CreateTask is the only operation that keeps taskMutex across other      *)
(* critical sections, so the mutex is represented by the call in progress  *)
(* (variables creating and createStep): while there is one, nobody else    *)
(* enters taskMutex.  The counters nothing reads (TotalTasksCreated, which *)
(* is never incremented, and QueueSize) and the processing times are left  *)
(* out.                                                                    *)
(***************************************************************************)
EXTENDS Naturals, Sequences

CONSTANTS Task,         \* identities of the tasks clients may create
          WorkerCount,  \* workers in the pool (4 in NewServer)
          ChanCap,      \* buffer of a worker's jobChan (10 in NewWorker)
          MaxRetries,   \* MaxRetries of a job (3 in CreateTask)
          NoTask        \* stands for a nil *Job

ASSUME TaskManagerAssumption ==
  /\ NoTask \notin Task
  /\ WorkerCount \in Nat \ {0}
  /\ ChanCap \in Nat \ {0}
  /\ MaxRetries \in Nat

Worker == 1..WorkerCount

\* CreateTask gives every job the same priority.
PriorityNormal == 1
Priority == [t \in Task |-> PriorityNormal]

INSTANCE PriorityQueue WITH Job <- Task

VARIABLES
  taskState,     \* tm.tasks: the TaskState of each task, or why it has no entry
  ended,         \* the tasks whose EndTime is set
  creating,      \* the task of the CreateTask call that is inside taskMutex
  createStep,    \* what that call does next
  jobs,          \* tm.priorityQueue.jobs
  dispatching,   \* the job jobDispatcher has popped and not yet placed
  dispatcher,    \* where jobDispatcher is in its loop
  jobChan,       \* jobChan of each worker
  job,           \* the job each worker is processing
  pc,            \* where each worker is in work and processJob
  timers,        \* the jobs whose retry AfterFunc has not fired
  retryCount,    \* job.RetryCount
  stats,         \* tm.stats: TotalTasksCompleted and TotalTasksFailed
  stop           \* how far Stop has got

createVars == <<taskState, ended, creating, createStep>>
queueVars  == <<jobs, dispatching, dispatcher, timers>>
workerVars == <<jobChan, job, pc, retryCount>>
vars == <<createVars, queueVars, workerVars, stats, stop>>

-----------------------------------------------------------------------------
(* Tasks *)

Live     == {"Pending", "Running"}
Terminal == {"Completed", "Exception"}
Stored   == Live \cup Terminal           \* the task has an entry in tm.tasks
States   == Stored \cup {"Unused", "Expired", "Dropped"}

\* Nobody is inside taskMutex.
TaskMutexFree == createStep = "idle"

Has(s, t) == \E i \in 1..Len(s) : s[i] = t

Stopping == stop # "no"

\* tm.updateStats: one more success or failure on the counters.
Counted(s, success) ==
  IF success THEN [s EXCEPT !.completed = @ + 1]
             ELSE [s EXCEPT !.failed = @ + 1]

\* tm.UpdateTaskState, entered with taskMutex free: nothing happens when the
\* task has no entry; a final state sets EndTime and counts the outcome.
UpdateTaskState(t, state, s) ==
  /\ TaskMutexFree
  /\ IF taskState[t] \notin Stored
     THEN UNCHANGED <<taskState, ended>> /\ stats' = s
     ELSE /\ taskState' = [taskState EXCEPT ![t] = state]
          /\ ended' = IF state \in Terminal THEN ended \cup {t} ELSE ended
          /\ stats' = IF state \in Terminal
                      THEN Counted(s, state = "Completed")
                      ELSE s
  /\ UNCHANGED <<creating, createStep>>

-----------------------------------------------------------------------------
Init ==
  /\ taskState = [t \in Task |-> "Unused"]
  /\ ended = {}
  /\ creating = NoTask
  /\ createStep = "idle"
  /\ jobs = << >>
  /\ dispatching = NoTask
  /\ dispatcher = "check"
  /\ jobChan = [w \in Worker |-> << >>]
  /\ job = [w \in Worker |-> NoTask]
  /\ pc = [w \in Worker |-> "select"]
  /\ timers = {}
  /\ retryCount = [t \in Task |-> 0]
  /\ stats = [completed |-> 0, failed |-> 0]
  /\ stop = "no"

-----------------------------------------------------------------------------
(* CreateTask: three steps inside taskMutex *)

\* The task is stored as Pending.
CreateStore(t) ==
  /\ TaskMutexFree
  /\ taskState[t] = "Unused"
  /\ taskState' = [taskState EXCEPT ![t] = "Pending"]
  /\ creating' = t
  /\ createStep' = "push"
  /\ UNCHANGED <<ended, queueVars, workerVars, stats, stop>>

\* Its job is pushed: from here on the dispatcher can see it.
CreatePush ==
  /\ createStep = "push"
  /\ jobs' = Push(jobs, creating)
  /\ createStep' = "stats"
  /\ UNCHANGED <<taskState, ended, creating, dispatching, dispatcher, timers, workerVars, stats, stop>>

\* Mutant: the creation is not counted among the completions.
CreateStats_Uncounted ==
  /\ createStep = "stats"
  /\ creating' = NoTask
  /\ createStep' = "idle"
  /\ UNCHANGED <<taskState, ended, queueVars, workerVars, stats, stop>>

\* updateStats(0, true) and the deferred unlock.
CreateStats ==
  /\ createStep = "stats"
  /\ stats' = Counted(stats, TRUE)
  /\ creating' = NoTask
  /\ createStep' = "idle"
  /\ UNCHANGED <<taskState, ended, queueVars, workerVars, stop>>

-----------------------------------------------------------------------------
(* jobDispatcher *)

\* A turn of the loop looks at the stop signals first: with one of them up
\* the select takes it and the dispatcher returns.
DispatchCheck ==
  /\ dispatcher = "check"
  /\ dispatcher' = IF Stopping THEN "returned" ELSE "pop"
  /\ UNCHANGED <<createVars, jobs, dispatching, timers, workerVars, stats, stop>>

\* The head of the queue is taken; on an empty queue the turn ends.
DispatchPop ==
  /\ dispatcher = "pop"
  /\ IF CanPop(jobs)
     THEN /\ dispatching' = Popped(jobs)
          /\ jobs' = AfterPop(jobs)
          /\ dispatcher' = "place"
     ELSE /\ dispatcher' = "check"
          /\ UNCHANGED <<dispatching, jobs>>
  /\ UNCHANGED <<createVars, timers, workerVars, stats, stop>>

\* The workers whose channel has room, as getAvailableWorker looks for them.
WithRoom == {w \in Worker : Len(jobChan[w]) < ChanCap}

\* getAvailableWorker: the first such worker; it waits for workerMutex, which
\* Stop keeps while it joins the workers.
FirstWithRoom(w) == w \in WithRoom /\ \A v \in WithRoom : w =< v

\* The job goes to that worker's channel.  Nobody else sends on it, so the
\* room seen is still there and the non-blocking send succeeds.
DispatchAssign(w) ==
  /\ dispatcher = "place"
  /\ stop # "joining"
  /\ FirstWithRoom(w)
  /\ jobChan' = [jobChan EXCEPT ![w] = Append(@, dispatching)]
  /\ dispatching' = NoTask
  /\ dispatcher' = "check"
  /\ UNCHANGED <<createVars, jobs, timers, job, pc, retryCount, stats, stop>>

\* Mutant: the job is dropped when every channel is full.
DispatchPutBack_Dropped ==
  /\ dispatcher = "place" /\ stop # "joining" /\ WithRoom = {}
  /\ dispatching' = NoTask /\ dispatcher' = "check"
  /\ UNCHANGED <<createVars, jobs, timers, workerVars, stats, stop>>

\* Every channel is full: the job is pushed back.
DispatchPutBack ==
  /\ dispatcher = "place"
  /\ stop # "joining"
  /\ WithRoom = {}
  /\ jobs' = Push(jobs, dispatching)
  /\ dispatching' = NoTask
  /\ dispatcher' = "check"
  /\ UNCHANGED <<createVars, timers, workerVars, stats, stop>>

-----------------------------------------------------------------------------
(* Worker.work and processJob *)

\* The select takes a job from the channel.  Once the context is cancelled
\* both cases are ready and the choice between them is random.
Receive(w) ==
  /\ pc[w] = "select"
  /\ jobChan[w] # << >>
  /\ job' = [job EXCEPT ![w] = Head(jobChan[w])]
  /\ jobChan' = [jobChan EXCEPT ![w] = Tail(@)]
  /\ pc' = [pc EXCEPT ![w] = "start"]
  /\ UNCHANGED <<createVars, queueVars, retryCount, stats, stop>>

\* Mutant: the loop ranges over the channel, which nobody closes.
WorkerReturn_Never(w) ==
  /\ pc[w] = "select" /\ Stopping /\ w \notin Worker
  /\ UNCHANGED vars

\* The select takes ctx.Done(): the worker returns.
WorkerReturn(w) ==
  /\ pc[w] = "select"
  /\ Stopping
  /\ pc' = [pc EXCEPT ![w] = "returned"]
  /\ UNCHANGED <<createVars, queueVars, jobChan, job, retryCount, stats, stop>>

\* processJob begins: the task becomes Running.
StartJob(w) ==
  /\ pc[w] = "start"
  /\ UpdateTaskState(job[w], "Running", stats)
  /\ pc' = [pc EXCEPT ![w] = "insert"]
  /\ UNCHANGED <<queueVars, jobChan, job, retryCount, stop>>

\* kubevirtClient.InsertVirtualMedia has returned, with or without an error,
\* and updateStats(duration, err == nil) has run.  This is the call that
\* divides by completed + failed.
JobReturns(w, ok) ==
  /\ pc[w] = "insert"
  /\ stats' = Counted(stats, ok)
  /\ pc' = [pc EXCEPT ![w] = IF ok THEN "succeeded" ELSE "failed"]
  /\ UNCHANGED <<createVars, queueVars, jobChan, job, retryCount, stop>>

\* The worker goes back to its select.
Release(w) ==
  /\ job' = [job EXCEPT ![w] = NoTask]
  /\ pc' = [pc EXCEPT ![w] = "select"]

\* err == nil: CompleteTask.
Complete(w) ==
  /\ pc[w] = "succeeded"
  /\ UpdateTaskState(job[w], "Completed", stats)
  /\ Release(w)
  /\ UNCHANGED <<queueVars, jobChan, retryCount, stop>>

\* Mutant: the comparison admits one retry too many.
ScheduleRetry_OneMore(w) ==
  /\ pc[w] = "failed" /\ retryCount[job[w]] =< MaxRetries
  /\ retryCount' = [retryCount EXCEPT ![job[w]] = @ + 1]
  /\ timers' = timers \cup {job[w]}
  /\ Release(w)
  /\ UNCHANGED <<createVars, jobs, dispatching, dispatcher, jobChan, stats, stop>>

\* A failed attempt with retries left: a timer will push the job again.
ScheduleRetry(w) ==
  /\ pc[w] = "failed"
  /\ retryCount[job[w]] < MaxRetries
  /\ retryCount' = [retryCount EXCEPT ![job[w]] = @ + 1]
  /\ timers' = timers \cup {job[w]}
  /\ Release(w)
  /\ UNCHANGED <<createVars, jobs, dispatching, dispatcher, jobChan, stats, stop>>

\* Mutant: the retry budget is not looked at.
Fail_Early(w) ==
  /\ pc[w] = "failed"
  /\ UpdateTaskState(job[w], "Exception", stats)
  /\ Release(w)
  /\ UNCHANGED <<queueVars, jobChan, retryCount, stop>>

\* The last attempt failed: FailTask.
Fail(w) ==
  /\ pc[w] = "failed"
  /\ retryCount[job[w]] >= MaxRetries
  /\ UpdateTaskState(job[w], "Exception", stats)
  /\ Release(w)
  /\ UNCHANGED <<queueVars, jobChan, retryCount, stop>>

\* Mutant: a ticker instead of a one-shot timer.
TimerFires_Ticker(t) ==
  /\ t \in timers /\ Len(jobs) < 3
  /\ jobs' = Push(jobs, t)
  /\ UNCHANGED <<createVars, dispatching, dispatcher, timers, workerVars, stats, stop>>

\* The AfterFunc of a retry fires; Stop does not stop these timers.
TimerFires(t) ==
  /\ t \in timers
  /\ timers' = timers \ {t}
  /\ jobs' = Push(jobs, t)
  /\ UNCHANGED <<createVars, dispatching, dispatcher, workerVars, stats, stop>>

-----------------------------------------------------------------------------
(* CleanupOldTasks: entries whose EndTime is more than a day ago go.  Any  *)
(* set of ended tasks may be that old when the hourly tick comes.          *)

\* Mutant: the age is taken from StartTime.
Cleanup_ByStart(old) ==
  /\ TaskMutexFree
  /\ old # {} /\ old \subseteq {t \in Task : taskState[t] \in Stored}
  /\ taskState' = [t \in Task |-> IF t \in old THEN "Expired" ELSE taskState[t]]
  /\ UNCHANGED <<ended, creating, createStep, queueVars, workerVars, stats, stop>>

Cleanup(old) ==
  /\ TaskMutexFree
  /\ old # {} /\ old \subseteq {t \in ended : taskState[t] \in Stored}
  /\ taskState' = [t \in Task |-> IF t \in old THEN "Expired" ELSE taskState[t]]
  /\ UNCHANGED <<ended, creating, createStep, queueVars, workerVars, stats, stop>>

-----------------------------------------------------------------------------
(* Stop *)

\* close(stopChan) and cancel(): every goroutine can see that it has to stop.
StopSignal ==
  /\ stop = "no"
  /\ stop' = "signalled"
  /\ UNCHANGED <<createVars, queueVars, workerVars, stats>>

\* workerMutex is taken for the loop over the workers.
StopJoin ==
  /\ stop = "signalled"
  /\ stop' = "joining"
  /\ UNCHANGED <<createVars, queueVars, workerVars, stats>>

\* Every worker.Stop() has returned from its wg.Wait().
StopJoined ==
  /\ stop = "joining"
  /\ \A w \in Worker : pc[w] = "returned"
  /\ stop' = "joined"
  /\ UNCHANGED <<createVars, queueVars, workerVars, stats>>

\* The task map is replaced by an empty one.
StopClear ==
  /\ stop = "joined"
  /\ TaskMutexFree
  /\ taskState' = [t \in Task |-> IF taskState[t] \in Stored THEN "Dropped" ELSE taskState[t]]
  /\ stop' = "stopped"
  /\ UNCHANGED <<ended, creating, createStep, queueVars, workerVars, stats>>

-----------------------------------------------------------------------------
Dispatch ==
  \/ DispatchCheck
  \/ DispatchPop
  \/ \E w \in Worker : DispatchAssign(w)
  \/ DispatchPutBack

Process(w) ==
  \/ Receive(w)
  \/ StartJob(w)
  \/ \E ok \in BOOLEAN : JobReturns(w, ok)
  \/ Complete(w)
  \/ ScheduleRetry(w)
  \/ Fail(w)

StopStep == StopSignal \/ StopJoin \/ StopJoined \/ StopClear

Next ==
  \/ \E t \in Task : CreateStore(t)
  \/ CreatePush
  \/ CreateStats
  \/ Dispatch
  \/ \E w \in Worker : Process(w) \/ WorkerReturn(w)
  \/ \E t \in Task : TimerFires(t)
  \/ \E old \in SUBSET Task : Cleanup(old)
  \/ StopStep

Spec == Init /\ [][Next]_vars

\* The Go scheduler runs every goroutine that can run, InsertVirtualMedia is
\* bounded by its context's deadline, and timers fire.  Clients need not call
\* and nobody has to stop the server; once Stop is called it goes on.
Fairness ==
  /\ WF_vars(CreatePush) /\ WF_vars(CreateStats)
  /\ WF_vars(Dispatch)
  /\ \A w \in Worker : WF_vars(Process(w)) /\ WF_vars(WorkerReturn(w))
  /\ \A t \in Task : WF_vars(TimerFires(t))
  /\ WF_vars(StopJoin \/ StopJoined \/ StopClear)

FairSpec == Spec /\ Fairness

-----------------------------------------------------------------------------
(* Properties *)

TypeOK ==
  /\ taskState \in [Task -> States]
  /\ ended \in SUBSET Task
  /\ creating \in Task \cup {NoTask}
  /\ createStep \in {"idle", "push", "stats"}
  /\ jobs \in Seq(Task)
  /\ dispatching \in Task \cup {NoTask}
  /\ dispatcher \in {"check", "pop", "place", "returned"}
  /\ jobChan \in [Worker -> Seq(Task)]
  /\ job \in [Worker -> Task \cup {NoTask}]
  /\ pc \in [Worker -> {"select", "start", "insert", "succeeded", "failed", "returned"}]
  /\ timers \in SUBSET Task
  /\ retryCount \in [Task -> 0..MaxRetries]
  /\ stats \in [completed : Nat, failed : Nat]
  /\ stop \in {"no", "signalled", "joining", "joined", "stopped"}

\* The places a job can be in: the queue, the dispatcher's hands, a pending
\* timer, and the channel and the hands of each worker.
Place == {<<"queue", 0>>, <<"dispatcher", 0>>, <<"timer", 0>>}
         \cup ({"chan", "worker"} \X Worker)

Holds(p, t) ==
  \/ p[1] = "queue" /\ Has(jobs, t)
  \/ p[1] = "dispatcher" /\ dispatching = t
  \/ p[1] = "timer" /\ t \in timers
  \/ p[1] = "chan" /\ Has(jobChan[p[2]], t)
  \/ p[1] = "worker" /\ job[p[2]] = t

NoRepetition(s) == \A i, k \in 1..Len(s) : s[i] = s[k] => i = k

\* A job is never in two places nor twice in one, however its retries, the
\* put-backs of the dispatcher and a Stop interleave: no task is ever worked
\* on by two workers, and no insertion is repeated after it succeeded.
OneCopy ==
  /\ \A t \in Task, p, q \in Place : Holds(p, t) /\ Holds(q, t) => p = q
  /\ NoRepetition(jobs)
  /\ \A w \in Worker : NoRepetition(jobChan[w])

\* The task a job works for is never taken away from it and no unfinished
\* task is left without a job: as long as Stop has not dropped the map, the
\* tasks that have a job somewhere are exactly the stored, unfinished ones
\* (the one CreateTask is still queueing excepted).
JobIffUnfinished ==
  stop # "stopped" =>
    \A t \in Task :
      (\E p \in Place : Holds(p, t)) <=>
        taskState[t] \in Live /\ ~(creating = t /\ createStep = "push")

\* updateStats divides by TotalTasksCompleted + TotalTasksFailed before it
\* counts the job it is called for.  The divisor is positive whenever a
\* worker can get there, since the task's creation has been counted by then:
\* CreateTask queues the job first, but keeps taskMutex until it has counted.
DivisorPositive ==
  \A w \in Worker : pc[w] = "insert" => stats.completed + stats.failed > 0

\* A task is failed only when its retry budget is used up.
ExceptionMeansExhausted ==
  \A t \in Task : taskState[t] = "Exception" => retryCount[t] = MaxRetries

\* A task that was reported Completed or Exception is never reported in
\* another state again: its entry can only go away.
TerminalIsFinal ==
  [][\A t \in Task :
       taskState[t] \in Terminal =>
         taskState'[t] \in {taskState[t], "Expired", "Dropped"}]_vars

\* Every task a client was given is eventually Completed or Exception, unless
\* the server is stopped.
TaskEnds ==
  \A t \in Task :
    taskState[t] = "Pending" ~> (taskState[t] \notin Live \/ Stopping)

\* Stop returns, however many jobs the workers still have in their channels.
StopReturns == Stopping ~> stop = "stopped"

-----------------------------------------------------------------------------
(* The promise to the client (TaskLifecycle), seen in this module's state *)

Reported ==
  [t \in Task |-> CASE taskState[t] = "Unused" -> "none"
                    [] taskState[t] = "Pending" -> "pending"
                    [] taskState[t] = "Running" -> "running"
                    [] taskState[t] = "Completed" -> "completed"
                    [] taskState[t] = "Exception" -> "exception"
                    [] OTHER -> "gone"]

Lifecycle == INSTANCE TaskLifecycle WITH state <- Reported

\* What a client polling its task sees is a run of TaskLifecycle.
ImplementsLifecycle == Lifecycle!Spec
=============================================================================
