------------------------- MODULE TaskManagerProofs -------------------------
(***************************************************************************)
(* Theorems about TaskManager, for every set of tasks and every number of  *)
(* workers, channel capacity and retry budget.                             *)
(***************************************************************************)
EXTENDS TaskManager, TLAPS

(***************************************************************************)
(* Facts about the sequences jobs move through.                            *)
(***************************************************************************)

\* With one priority for all jobs the swapping pass of Push swaps nothing.
LEMMA PassIsIdentity ==
  ASSUME NEW q \in Seq(Task)
  PROVE  SwapPass(q) = q
<1>1. ASSUME NEW i \in 1..Len(q)
      PROVE  Carried(q, i) = i
  <2>1. \A m \in 1..Len(q) : Priority[q[m]] = PriorityNormal
    BY DEF Priority
  <2>2. /\ i \in i..Len(q)
        /\ \A m \in i..Len(q) : Priority[q[m]] =< Priority[q[i]]
        /\ \A m \in i..(i - 1) : Priority[q[m]] < Priority[q[i]]
    BY <2>1 DEF PriorityNormal
  <2>3. ASSUME NEW k \in i..Len(q), \A m \in i..(k - 1) : Priority[q[m]] < Priority[q[k]]
        PROVE  k = i
    BY <2>1, <2>3 DEF PriorityNormal
  <2> QED
    BY <2>2, <2>3 DEF Carried
<1>2. SwapPass(q) = [i \in 1..Len(q) |-> q[i]]
  <2>1. ASSUME NEW i \in 1..Len(q)
        PROVE  (IF i > 1 /\ Priority[q[i - 1]] < Priority[q[Carried(q, i)]]
                THEN q[i - 1] ELSE q[Carried(q, i)]) = q[i]
    BY <1>1 DEF Priority, PriorityNormal
  <2> QED
    BY <2>1 DEF SwapPass
<1> QED
  BY <1>2

LEMMA PushIsAppend ==
  ASSUME NEW q \in Seq(Task), NEW t \in Task
  PROVE  Push(q, t) = Append(q, t)
<1>1. Append(q, t) \in Seq(Task)
  OBVIOUS
<1> QED
  BY <1>1, PassIsIdentity DEF Push

LEMMA AppendHas ==
  ASSUME NEW s \in Seq(Task), NEW t \in Task
  PROVE  /\ Append(s, t) \in Seq(Task)
         /\ \A u \in Task : Has(Append(s, t), u) <=> Has(s, u) \/ u = t
         /\ NoRepetition(s) /\ ~Has(s, t) => NoRepetition(Append(s, t))
<1>1. /\ Append(s, t) \in Seq(Task)
      /\ Len(Append(s, t)) = Len(s) + 1
      /\ Append(s, t)[Len(s) + 1] = t
      /\ \A i \in 1..Len(s) : Append(s, t)[i] = s[i]
      /\ Len(s) \in Nat
  OBVIOUS
<1>2. \A u \in Task : Has(Append(s, t), u) <=> Has(s, u) \/ u = t
  BY <1>1 DEF Has
<1>3. NoRepetition(s) /\ ~Has(s, t) => NoRepetition(Append(s, t))
  BY <1>1 DEF Has, NoRepetition
<1> QED
  BY <1>1, <1>2, <1>3

LEMMA TailHas ==
  ASSUME NEW s \in Seq(Task), s # << >>, NoRepetition(s)
  PROVE  /\ Tail(s) \in Seq(Task)
         /\ Head(s) \in Task
         /\ Has(s, Head(s))
         /\ \A u \in Task : Has(Tail(s), u) <=> Has(s, u) /\ u # Head(s)
         /\ NoRepetition(Tail(s))
<1>1. /\ Tail(s) \in Seq(Task)
      /\ Len(s) \in Nat /\ Len(s) > 0
      /\ Len(Tail(s)) = Len(s) - 1
      /\ Head(s) = s[1]
      /\ \A i \in 1..(Len(s) - 1) : Tail(s)[i] = s[i + 1]
  OBVIOUS
<1>2. Head(s) \in Task /\ Has(s, Head(s))
  BY <1>1 DEF Has
<1>3. ASSUME NEW u \in Task
      PROVE  Has(Tail(s), u) <=> Has(s, u) /\ u # Head(s)
  <2>1. ASSUME Has(Tail(s), u)
        PROVE  Has(s, u) /\ u # Head(s)
    <3>1. PICK i \in 1..Len(Tail(s)) : Tail(s)[i] = u
      BY <2>1 DEF Has
    <3>2. i + 1 \in 1..Len(s) /\ s[i + 1] = u /\ i + 1 # 1 /\ 1 \in 1..Len(s)
      BY <1>1, <3>1
    <3> QED
      BY <1>1, <3>2 DEF Has, NoRepetition
  <2>2. ASSUME Has(s, u), u # Head(s)
        PROVE  Has(Tail(s), u)
    <3>1. PICK i \in 1..Len(s) : s[i] = u
      BY <2>2 DEF Has
    <3>2. i - 1 \in 1..Len(Tail(s)) /\ Tail(s)[i - 1] = u
      BY <1>1, <2>2, <3>1
    <3> QED
      BY <3>2 DEF Has
  <2> QED
    BY <2>1, <2>2
<1>4. NoRepetition(Tail(s))
  BY <1>1 DEF NoRepetition
<1> QED
  BY <1>1, <1>2, <1>3, <1>4

(***************************************************************************)
(* The inductive invariant.                                                *)
(***************************************************************************)

\* The program counters agree with what the goroutines hold.
Control ==
  /\ \A w \in Worker : pc[w] \in {"start", "insert", "succeeded", "failed"} <=> job[w] \in Task
  /\ dispatcher = "place" <=> dispatching \in Task
  /\ createStep # "idle" <=> creating \in Task
  /\ stop \in {"joined", "stopped"} => \A w \in Worker : pc[w] = "returned"

\* What the task map and the call inside taskMutex say of each other.
MapAgrees ==
  /\ createStep # "idle" => taskState[creating] = "Pending"
  /\ \A t \in ended : taskState[t] \notin Live \cup {"Unused"}
  /\ \A w \in Worker : pc[w] \in {"insert", "succeeded", "failed"} /\ stop # "stopped"
                         => taskState[job[w]] = "Running"

\* A task whose job has not been queued has no job anywhere, Stop or not.
UnqueuedNowhere ==
  \A t \in Task, p \in Place :
    Holds(p, t) => taskState[t] # "Unused" /\ ~(creating = t /\ createStep = "push")

\* With nobody inside taskMutex, every created task has been counted.
CreatedIsCounted ==
  \A t \in Task :
    taskState[t] # "Unused" /\ creating # t => stats.completed + stats.failed > 0

(***************************************************************************)
(* Type correctness, with the agreement of control and held jobs.          *)
(***************************************************************************)

LEMMA InitTyping == Init => TypeOK /\ Control
BY TaskManagerAssumption DEF Init, TypeOK, Control, States, Stored, Live, Terminal

StatsType == [completed : Nat, failed : Nat]

LEMMA CountedTyping ==
  ASSUME NEW s \in StatsType, NEW success \in BOOLEAN
  PROVE  /\ Counted(s, success) \in StatsType
         /\ Counted(s, success).completed + Counted(s, success).failed
              = s.completed + s.failed + 1
<1>1. CASE success
  BY <1>1 DEF StatsType, Counted
<1>2. CASE ~success
  BY <1>2 DEF StatsType, Counted
<1> QED
  BY <1>1, <1>2

\* UpdateTaskState keeps the types of the variables it writes.
LEMMA UpdateTyping ==
  ASSUME TypeOK, NEW t \in Task, NEW state \in Stored, NEW s,
         s \in StatsType, UpdateTaskState(t, state, s)
  PROVE  /\ taskState' \in [Task -> States]
         /\ ended' \in SUBSET Task
         /\ stats' \in StatsType
         /\ UNCHANGED <<creating, createStep>>
<1>1. Counted(s, state = "Completed") \in StatsType
  BY CountedTyping
<1> QED
  BY <1>1 DEF TypeOK, UpdateTaskState, States, Stored, Live, Terminal

LEMMA StepTyping ==
  ASSUME TypeOK, Control, [Next]_vars
  PROVE  TypeOK' /\ Control'
<1> USE TaskManagerAssumption
<1>1. ASSUME NEW t \in Task, CreateStore(t)
      PROVE  TypeOK' /\ Control'
  BY <1>1 DEF TypeOK, Control, CreateStore, queueVars, workerVars, States, Stored, Live
<1>2. CASE CreatePush
  <2>1. creating \in Task /\ jobs' = Append(jobs, creating)
    BY <1>2, PushIsAppend DEF CreatePush, TypeOK, Control
  <2> QED
    BY <1>2, <2>1 DEF TypeOK, Control, CreatePush, workerVars
<1>3. CASE CreateStats
  <2>1. stats' \in StatsType
    BY <1>3, CountedTyping DEF TypeOK, CreateStats, StatsType
  <2> QED
    BY <1>3, <2>1 DEF TypeOK, Control, CreateStats, queueVars, workerVars, StatsType
<1>4. CASE DispatchCheck
  BY <1>4 DEF TypeOK, Control, DispatchCheck, createVars, workerVars
<1>5. CASE DispatchPop
  <2>1. CASE jobs = << >>
    BY <1>5, <2>1 DEF TypeOK, Control, DispatchPop, CanPop, createVars, workerVars
  <2>2. CASE jobs # << >>
    <3>1. dispatching' = Head(jobs) /\ jobs' = Tail(jobs) /\ dispatcher' = "place"
      BY <1>5, <2>2 DEF DispatchPop, CanPop, Popped, AfterPop
    <3>2. dispatching' \in Task /\ jobs' \in Seq(Task)
      BY <2>2, <3>1 DEF TypeOK
    <3> QED
      BY <1>5, <3>1, <3>2 DEF TypeOK, Control, DispatchPop, createVars, workerVars
  <2> QED
    BY <2>1, <2>2
<1>6. ASSUME NEW w \in Worker, DispatchAssign(w)
      PROVE  TypeOK' /\ Control'
  BY <1>6 DEF TypeOK, Control, DispatchAssign, createVars
<1>7. CASE DispatchPutBack
  <2>1. dispatching \in Task /\ jobs' = Append(jobs, dispatching)
    BY <1>7, PushIsAppend DEF DispatchPutBack, TypeOK, Control
  <2> QED
    BY <1>7, <2>1 DEF TypeOK, Control, DispatchPutBack, createVars, workerVars
<1>8. ASSUME NEW w \in Worker, Receive(w)
      PROVE  TypeOK' /\ Control'
  BY <1>8 DEF TypeOK, Control, Receive, createVars, queueVars
<1>9. ASSUME NEW w \in Worker, WorkerReturn(w)
      PROVE  TypeOK' /\ Control'
  BY <1>9 DEF TypeOK, Control, WorkerReturn, createVars, queueVars
<1>10. ASSUME NEW w \in Worker, StartJob(w)
       PROVE  TypeOK' /\ Control'
  <2>1. job[w] \in Task /\ UpdateTaskState(job[w], "Running", stats)
    BY <1>10 DEF StartJob, Control, TypeOK
  <2> QED
    BY <1>10, <2>1, UpdateTyping DEF StatsType, TypeOK, Control, StartJob, queueVars, Stored, Live
<1>11. ASSUME NEW w \in Worker, NEW ok \in BOOLEAN, JobReturns(w, ok)
       PROVE  TypeOK' /\ Control'
  <2>1. stats' \in StatsType
    BY <1>11, CountedTyping DEF TypeOK, JobReturns, StatsType
  <2> QED
    BY <1>11, <2>1 DEF TypeOK, Control, JobReturns, createVars, queueVars, StatsType
<1>12. ASSUME NEW w \in Worker, Complete(w)
       PROVE  TypeOK' /\ Control'
  <2>1. job[w] \in Task /\ UpdateTaskState(job[w], "Completed", stats)
    BY <1>12 DEF Complete, Control, TypeOK
  <2> QED
    BY <1>12, <2>1, UpdateTyping DEF StatsType, TypeOK, Control, Complete, Release, queueVars, Stored, Terminal
<1>13. ASSUME NEW w \in Worker, ScheduleRetry(w)
       PROVE  TypeOK' /\ Control'
  BY <1>13 DEF TypeOK, Control, ScheduleRetry, Release, createVars
<1>14. ASSUME NEW w \in Worker, Fail(w)
       PROVE  TypeOK' /\ Control'
  <2>1. job[w] \in Task /\ UpdateTaskState(job[w], "Exception", stats)
    BY <1>14 DEF Fail, Control, TypeOK
  <2> QED
    BY <1>14, <2>1, UpdateTyping DEF StatsType, TypeOK, Control, Fail, Release, queueVars, Stored, Terminal
<1>15. ASSUME NEW t \in Task, TimerFires(t)
       PROVE  TypeOK' /\ Control'
  <2>1. jobs' = Append(jobs, t)
    BY <1>15, PushIsAppend DEF TimerFires, TypeOK
  <2> QED
    BY <1>15, <2>1 DEF TypeOK, Control, TimerFires, createVars, workerVars
<1>16. ASSUME NEW old \in SUBSET Task, Cleanup(old)
       PROVE  TypeOK' /\ Control'
  BY <1>16 DEF TypeOK, Control, Cleanup, queueVars, workerVars, States
<1>17. CASE StopStep
  BY <1>17 DEF TypeOK, Control, StopStep, StopSignal, StopJoin, StopJoined, StopClear,
               createVars, queueVars, workerVars, States
<1>18. CASE UNCHANGED vars
  BY <1>18 DEF TypeOK, Control, vars, createVars, queueVars, workerVars
<1> QED
  BY <1>1, <1>2, <1>3, <1>4, <1>5, <1>6, <1>7, <1>8, <1>9, <1>10, <1>11, <1>12, <1>13,
     <1>14, <1>15, <1>16, <1>17, <1>18 DEF Next, Dispatch, Process

\* Every variable keeps its type, for any number of tasks, workers, buffered
\* jobs and retries.
THEOREM TypeCorrect == Spec => []TypeOK
<1>1. TypeOK /\ Control /\ [Next]_vars => (TypeOK /\ Control)'
  BY StepTyping
<1> QED
  BY InitTyping, <1>1, PTL DEF Spec

(***************************************************************************)
(* How each step moves jobs between places.                                *)
(***************************************************************************)

Queue == <<"queue", 0>>
Dispatcher == <<"dispatcher", 0>>
Timer == <<"timer", 0>>
Chan(w) == <<"chan", w>>
Hands(w) == <<"worker", w>>

\* Only the job of u changes place, and D is where it is afterwards.
Moved(u, D) ==
  \A t \in Task, p \in Place : Holds(p, t)' <=> IF t = u THEN p \in D ELSE Holds(p, t)

\* No job changes place.
Kept == \A t \in Task, p \in Place : Holds(p, t)' <=> Holds(p, t)

NoRepetitions == NoRepetition(jobs) /\ \A w \in Worker : NoRepetition(jobChan[w])

\* At most one place.
Single(D) == \A p, q \in D : p = q

LEMMA PlaceForms ==
  /\ Queue \in Place /\ Dispatcher \in Place /\ Timer \in Place
  /\ \A w \in Worker : Chan(w) \in Place /\ Hands(w) \in Place
  /\ \A p \in Place : \/ p \in {Queue, Dispatcher, Timer}
                      \/ \E w \in Worker : p = Chan(w) \/ p = Hands(w)
BY DEF Place, Queue, Dispatcher, Timer, Chan, Hands

LEMMA HoldsForms ==
  ASSUME NEW t \in Task
  PROVE  /\ Holds(Queue, t) <=> Has(jobs, t)
         /\ Holds(Dispatcher, t) <=> dispatching = t
         /\ Holds(Timer, t) <=> t \in timers
         /\ \A w \in Worker : Holds(Chan(w), t) <=> Has(jobChan[w], t)
         /\ \A w \in Worker : Holds(Hands(w), t) <=> job[w] = t
BY DEF Holds, Queue, Dispatcher, Timer, Chan, Hands

LEMMA HoldsFormsNext ==
  ASSUME NEW t \in Task
  PROVE  /\ Holds(Queue, t)' <=> Has(jobs', t)
         /\ Holds(Dispatcher, t)' <=> dispatching' = t
         /\ Holds(Timer, t)' <=> t \in timers'
         /\ \A w \in Worker : Holds(Chan(w), t)' <=> Has(jobChan'[w], t)
         /\ \A w \in Worker : Holds(Hands(w), t)' <=> job'[w] = t
BY DEF Holds, Has, Queue, Dispatcher, Timer, Chan, Hands

LEMMA MovedIf ==
  ASSUME NEW u \in Task, NEW D \in SUBSET Place,
         \A t \in Task :
           /\ Has(jobs', t) <=> IF t = u THEN Queue \in D ELSE Has(jobs, t)
           /\ dispatching' = t <=> IF t = u THEN Dispatcher \in D ELSE dispatching = t
           /\ t \in timers' <=> IF t = u THEN Timer \in D ELSE t \in timers
           /\ \A w \in Worker :
                /\ Has(jobChan'[w], t) <=> IF t = u THEN Chan(w) \in D ELSE Has(jobChan[w], t)
                /\ job'[w] = t <=> IF t = u THEN Hands(w) \in D ELSE job[w] = t
  PROVE  Moved(u, D)
<1> SUFFICES ASSUME NEW t \in Task, NEW p \in Place
             PROVE  Holds(p, t)' <=> IF t = u THEN p \in D ELSE Holds(p, t)
  BY DEF Moved
<1>1. CASE p = Queue
  BY <1>1, HoldsForms, HoldsFormsNext
<1>2. CASE p = Dispatcher
  BY <1>2, HoldsForms, HoldsFormsNext
<1>3. CASE p = Timer
  BY <1>3, HoldsForms, HoldsFormsNext
<1>4. ASSUME NEW w \in Worker, p = Chan(w)
      PROVE  Holds(p, t)' <=> IF t = u THEN p \in D ELSE Holds(p, t)
  BY <1>4, HoldsForms, HoldsFormsNext
<1>5. ASSUME NEW w \in Worker, p = Hands(w)
      PROVE  Holds(p, t)' <=> IF t = u THEN p \in D ELSE Holds(p, t)
  BY <1>5, HoldsForms, HoldsFormsNext
<1> QED
  BY <1>1, <1>2, <1>3, <1>4, <1>5, PlaceForms

LEMMA KeptIf ==
  ASSUME UNCHANGED <<jobs, dispatching, timers, jobChan, job>>, NoRepetitions
  PROVE  Kept /\ NoRepetitions'
BY DEF Kept, Holds, Has, NoRepetitions, NoRepetition

\* Moving the only copy of a job to one place or to none leaves one copy.
LEMMA MovedOneCopy ==
  ASSUME OneCopy, NEW u \in Task, NEW D, Single(D), Moved(u, D), NoRepetitions'
  PROVE  OneCopy'
BY DEF OneCopy, Moved, Single, NoRepetitions

LEMMA KeptOneCopy ==
  ASSUME OneCopy, Kept, NoRepetitions'
  PROVE  OneCopy'
BY DEF OneCopy, Kept, NoRepetitions

\* The two ends of a channel or queue: what a push adds and a pop takes.
LEMMA EffectCreatePush ==
  ASSUME TypeOK, Control, OneCopy, UnqueuedNowhere, CreatePush
  PROVE  Moved(creating, {Queue}) /\ NoRepetitions'
<1>1. creating \in Task /\ jobs \in Seq(Task) /\ jobs' = Append(jobs, creating)
  BY PushIsAppend DEF CreatePush, TypeOK, Control
<1>2. UNCHANGED <<dispatching, timers, jobChan, job>>
  BY DEF CreatePush, workerVars
<1>3. \A p \in Place : ~Holds(p, creating)
  BY <1>1 DEF UnqueuedNowhere, CreatePush
<1>4. /\ ~Has(jobs, creating) /\ dispatching # creating /\ creating \notin timers
      /\ \A w \in Worker : ~Has(jobChan[w], creating) /\ job[w] # creating
  BY <1>1, <1>3, HoldsForms, PlaceForms
<1>5. /\ \A t \in Task : Has(jobs', t) <=> Has(jobs, t) \/ t = creating
      /\ NoRepetition(jobs')
  BY <1>1, <1>4, AppendHas DEF OneCopy
<1>6. /\ Dispatcher \notin {Queue} /\ Timer \notin {Queue} /\ {Queue} \in SUBSET Place
      /\ \A w \in Worker : Chan(w) \notin {Queue} /\ Hands(w) \notin {Queue}
  BY PlaceForms DEF Queue, Dispatcher, Timer, Chan, Hands
<1>7. Moved(creating, {Queue})
  BY <1>1, <1>2, <1>4, <1>5, <1>6, MovedIf
<1> QED
  BY <1>2, <1>5, <1>7 DEF NoRepetitions, OneCopy

\* The places are different from each other.
LEMMA PlacesDiffer ==
  /\ Queue # Dispatcher /\ Queue # Timer /\ Dispatcher # Timer
  /\ \A w \in Worker : Chan(w) \notin {Queue, Dispatcher, Timer}
  /\ \A w \in Worker : Hands(w) \notin {Queue, Dispatcher, Timer}
  /\ \A v, w \in Worker : Chan(v) # Hands(w)
  /\ \A v, w \in Worker : Chan(v) = Chan(w) => v = w
  /\ \A v, w \in Worker : Hands(v) = Hands(w) => v = w
BY DEF Queue, Dispatcher, Timer, Chan, Hands

\* A job that is held at p is nowhere else.
LEMMA OnlyThere ==
  ASSUME OneCopy, NEW t \in Task, NEW p \in Place, Holds(p, t)
  PROVE  \A q \in Place : Holds(q, t) <=> q = p
BY DEF OneCopy

LEMMA EffectPop ==
  ASSUME TypeOK, Control, OneCopy, DispatchPop, jobs # << >>
  PROVE  Moved(Head(jobs), {Dispatcher}) /\ NoRepetitions' /\ Head(jobs) \in Task
<1> DEFINE t0 == Head(jobs)
<1>1. /\ jobs \in Seq(Task) /\ NoRepetition(jobs)
      /\ jobs' = Tail(jobs) /\ dispatching' = t0
      /\ UNCHANGED <<timers, jobChan, job>>
      /\ dispatching = NoTask
  BY DEF DispatchPop, CanPop, Popped, AfterPop, TypeOK, Control, OneCopy, workerVars
<1>2. /\ t0 \in Task /\ Has(jobs, t0) /\ NoRepetition(jobs')
      /\ \A u \in Task : Has(jobs', u) <=> Has(jobs, u) /\ u # t0
  BY <1>1, TailHas
<1>3. \A q \in Place : Holds(q, t0) <=> q = Queue
  BY <1>2, OnlyThere, HoldsForms, PlaceForms
<1>4. t0 \notin timers /\ \A w \in Worker : ~Has(jobChan[w], t0) /\ job[w] # t0
  BY <1>2, <1>3, HoldsForms, PlaceForms, PlacesDiffer
<1>5. Moved(t0, {Dispatcher})
  BY <1>1, <1>2, <1>4, MovedIf, PlaceForms, PlacesDiffer, TaskManagerAssumption
<1> QED
  BY <1>1, <1>2, <1>5 DEF NoRepetitions, OneCopy

LEMMA EffectAssign ==
  ASSUME TypeOK, Control, OneCopy, NEW w \in Worker, DispatchAssign(w)
  PROVE  Moved(dispatching, {Chan(w)}) /\ NoRepetitions' /\ dispatching \in Task
<1>1. /\ dispatching \in Task /\ dispatching' = NoTask
      /\ jobChan \in [Worker -> Seq(Task)]
      /\ jobChan' = [jobChan EXCEPT ![w] = Append(@, dispatching)]
      /\ UNCHANGED <<jobs, timers, job>>
  BY DEF DispatchAssign, TypeOK, Control
<1>2. \A q \in Place : Holds(q, dispatching) <=> q = Dispatcher
  BY <1>1, OnlyThere, HoldsForms, PlaceForms
<1>3. /\ ~Has(jobs, dispatching) /\ dispatching \notin timers
      /\ \A v \in Worker : ~Has(jobChan[v], dispatching) /\ job[v] # dispatching
  BY <1>1, <1>2, HoldsForms, PlaceForms, PlacesDiffer
<1>4. /\ \A t \in Task : Has(jobChan'[w], t) <=> Has(jobChan[w], t) \/ t = dispatching
      /\ NoRepetition(jobChan'[w])
  BY <1>1, <1>3, AppendHas DEF OneCopy
<1>5. \A v \in Worker : v # w => jobChan'[v] = jobChan[v]
  BY <1>1
<1>6. Moved(dispatching, {Chan(w)})
  <2>1. \A t \in Task, v \in Worker :
          Has(jobChan'[v], t) <=> IF t = dispatching THEN Chan(v) \in {Chan(w)} ELSE Has(jobChan[v], t)
    BY <1>3, <1>4, <1>5, PlacesDiffer
  <2> QED
    BY <1>1, <1>3, <2>1, MovedIf, PlaceForms, PlacesDiffer, TaskManagerAssumption
<1>7. NoRepetition(jobs') /\ \A v \in Worker : NoRepetition(jobChan'[v])
  BY <1>1, <1>4, <1>5 DEF OneCopy
<1> QED
  BY <1>1, <1>6, <1>7 DEF NoRepetitions

LEMMA EffectPutBack ==
  ASSUME TypeOK, Control, OneCopy, DispatchPutBack
  PROVE  Moved(dispatching, {Queue}) /\ NoRepetitions' /\ dispatching \in Task
<1>1. /\ dispatching \in Task /\ dispatching' = NoTask
      /\ jobs \in Seq(Task) /\ jobs' = Append(jobs, dispatching)
      /\ UNCHANGED <<jobChan, timers, job>>
  BY PushIsAppend DEF DispatchPutBack, TypeOK, Control, workerVars
<1>2. \A q \in Place : Holds(q, dispatching) <=> q = Dispatcher
  BY <1>1, OnlyThere, HoldsForms, PlaceForms
<1>3. /\ ~Has(jobs, dispatching) /\ dispatching \notin timers
      /\ \A v \in Worker : ~Has(jobChan[v], dispatching) /\ job[v] # dispatching
  BY <1>1, <1>2, HoldsForms, PlaceForms, PlacesDiffer
<1>4. /\ \A t \in Task : Has(jobs', t) <=> Has(jobs, t) \/ t = dispatching
      /\ NoRepetition(jobs')
  BY <1>1, <1>3, AppendHas DEF OneCopy
<1>5. Moved(dispatching, {Queue})
  BY <1>1, <1>3, <1>4, MovedIf, PlaceForms, PlacesDiffer, TaskManagerAssumption
<1> QED
  BY <1>1, <1>4, <1>5 DEF NoRepetitions, OneCopy

LEMMA EffectReceive ==
  ASSUME TypeOK, Control, OneCopy, NEW w \in Worker, Receive(w)
  PROVE  /\ Moved(Head(jobChan[w]), {Hands(w)}) /\ NoRepetitions'
         /\ Head(jobChan[w]) \in Task
<1> DEFINE t0 == Head(jobChan[w])
<1>1. /\ jobChan \in [Worker -> Seq(Task)] /\ job \in [Worker -> Task \cup {NoTask}]
      /\ jobChan[w] \in Seq(Task) /\ jobChan[w] # << >> /\ NoRepetition(jobChan[w])
      /\ jobChan' = [jobChan EXCEPT ![w] = Tail(@)]
      /\ job' = [job EXCEPT ![w] = t0]
      /\ UNCHANGED <<jobs, dispatching, timers>>
      /\ job[w] = NoTask
  BY DEF Receive, TypeOK, Control, OneCopy, queueVars
<1>2. /\ t0 \in Task /\ Has(jobChan[w], t0) /\ NoRepetition(jobChan'[w])
      /\ \A u \in Task : Has(jobChan'[w], u) <=> Has(jobChan[w], u) /\ u # t0
  BY <1>1, TailHas
<1>3. \A q \in Place : Holds(q, t0) <=> q = Chan(w)
  BY <1>2, OnlyThere, HoldsForms, PlaceForms
<1>4. /\ ~Has(jobs, t0) /\ t0 \notin timers /\ dispatching # t0
      /\ \A v \in Worker : job[v] # t0 /\ (v # w => ~Has(jobChan[v], t0))
  BY <1>2, <1>3, HoldsForms, PlaceForms, PlacesDiffer
<1>5. \A v \in Worker : v # w => jobChan'[v] = jobChan[v] /\ job'[v] = job[v]
  BY <1>1
<1>6. job'[w] = t0
  BY <1>1
<1>7. Moved(t0, {Hands(w)})
  <2>1. \A t \in Task, v \in Worker :
          /\ Has(jobChan'[v], t) <=> IF t = t0 THEN Chan(v) \in {Hands(w)} ELSE Has(jobChan[v], t)
          /\ job'[v] = t <=> IF t = t0 THEN Hands(v) \in {Hands(w)} ELSE job[v] = t
    BY <1>1, <1>2, <1>4, <1>5, <1>6, PlacesDiffer, TaskManagerAssumption
  <2>2. /\ {Hands(w)} \in SUBSET Place
        /\ Queue \notin {Hands(w)} /\ Dispatcher \notin {Hands(w)} /\ Timer \notin {Hands(w)}
    BY PlaceForms, PlacesDiffer
  <2>3. \A t \in Task :
          /\ Has(jobs', t) <=> IF t = t0 THEN Queue \in {Hands(w)} ELSE Has(jobs, t)
          /\ dispatching' = t <=> IF t = t0 THEN Dispatcher \in {Hands(w)} ELSE dispatching = t
          /\ t \in timers' <=> IF t = t0 THEN Timer \in {Hands(w)} ELSE t \in timers
    BY <1>1, <1>4, <2>2
  <2> QED
    BY <1>2, <2>1, <2>2, <2>3, MovedIf
<1>8. NoRepetition(jobs') /\ \A v \in Worker : NoRepetition(jobChan'[v])
  BY <1>1, <1>2, <1>5 DEF OneCopy
<1> QED
  BY <1>2, <1>7, <1>8 DEF NoRepetitions

\* What the three ways to finish with a job have in common: the worker's
\* hands are empty and at most a timer was set.
LEMMA EffectRelease ==
  ASSUME TypeOK, Control, OneCopy, NEW w \in Worker, job[w] \in Task, Release(w),
         UNCHANGED <<jobs, dispatching, jobChan>>,
         NEW D, \/ D = {} /\ timers' = timers
                \/ D = {Timer} /\ timers' = timers \cup {job[w]}
  PROVE  Moved(job[w], D) /\ NoRepetitions'
<1>1. job' = [job EXCEPT ![w] = NoTask] /\ job \in [Worker -> Task \cup {NoTask}]
  BY DEF Release, TypeOK
<1>2. \A q \in Place : Holds(q, job[w]) <=> q = Hands(w)
  BY OnlyThere, HoldsForms, PlaceForms
<1>3. /\ ~Has(jobs, job[w]) /\ job[w] \notin timers /\ dispatching # job[w]
      /\ \A v \in Worker : ~Has(jobChan[v], job[w]) /\ (v # w => job[v] # job[w])
  BY <1>2, HoldsForms, PlaceForms, PlacesDiffer
<1>4. D \in SUBSET Place /\ \A p \in D : p = Timer
  BY PlaceForms
<1>5. \A t \in Task, v \in Worker :
        job'[v] = t <=> IF t = job[w] THEN Hands(v) \in D ELSE job[v] = t
  BY <1>1, <1>3, <1>4, PlacesDiffer, TaskManagerAssumption
<1>6. \A t \in Task : t \in timers' <=> IF t = job[w] THEN Timer \in D ELSE t \in timers
  BY <1>3, <1>4
<1>7. Moved(job[w], D)
  BY <1>3, <1>4, <1>5, <1>6, MovedIf, PlacesDiffer
<1> QED
  BY <1>7 DEF NoRepetitions, OneCopy

LEMMA EffectTimer ==
  ASSUME TypeOK, Control, OneCopy, NEW u \in Task, TimerFires(u)
  PROVE  Moved(u, {Queue}) /\ NoRepetitions'
<1>1. /\ u \in timers /\ timers' = timers \ {u}
      /\ jobs \in Seq(Task) /\ jobs' = Append(jobs, u)
      /\ UNCHANGED <<jobChan, dispatching, job>>
  BY PushIsAppend DEF TimerFires, TypeOK, workerVars
<1>2. \A q \in Place : Holds(q, u) <=> q = Timer
  BY <1>1, OnlyThere, HoldsForms, PlaceForms
<1>3. /\ ~Has(jobs, u) /\ dispatching # u
      /\ \A v \in Worker : ~Has(jobChan[v], u) /\ job[v] # u
  BY <1>1, <1>2, HoldsForms, PlaceForms, PlacesDiffer
<1>4. /\ \A t \in Task : Has(jobs', t) <=> Has(jobs, t) \/ t = u
      /\ NoRepetition(jobs')
  BY <1>1, <1>3, AppendHas DEF OneCopy
<1>5. Moved(u, {Queue})
  BY <1>1, <1>3, <1>4, MovedIf, PlaceForms, PlacesDiffer
<1> QED
  BY <1>1, <1>4, <1>5 DEF NoRepetitions, OneCopy

(***************************************************************************)
(* The invariant is inductive.                                             *)
(***************************************************************************)

\* The part of the invariant that is about the places of jobs.
Places == OneCopy /\ JobIffUnfinished /\ UnqueuedNowhere

\* The part that is about the task map and the counters.
Records == MapAgrees /\ CreatedIsCounted /\ DivisorPositive /\ ExceptionMeansExhausted

IInv == TypeOK /\ Control /\ Places /\ Records

\* The changes of a task's state that leave its need for a job as it was.
SameNeed(t) ==
  \/ taskState'[t] = taskState[t]
  \/ taskState[t] \in Live /\ taskState'[t] \in Live
  \/ taskState[t] \in Terminal /\ taskState'[t] \notin Live \cup {"Unused"}
  \/ stop' = "stopped" /\ taskState'[t] # "Unused"

LEMMA KeptPlaces ==
  ASSUME Places, Kept, NoRepetitions',
         UNCHANGED <<creating, createStep>>,
         stop = "stopped" => stop' = "stopped",
         \A t \in Task : SameNeed(t)
  PROVE  Places'
<1>1. OneCopy'
  BY KeptOneCopy DEF Places
<1>2. UnqueuedNowhere'
  BY DEF Places, UnqueuedNowhere, Kept, SameNeed, Live, Terminal
<1>3. JobIffUnfinished'
  BY DEF Places, JobIffUnfinished, Kept, SameNeed, Live, Terminal
<1> QED
  BY <1>1, <1>2, <1>3 DEF Places

LEMMA MovedPlaces ==
  ASSUME Places, NEW u \in Task, NEW o \in Place, Holds(o, u), NEW q \in Place,
         Moved(u, {q}), NoRepetitions',
         UNCHANGED <<taskState, creating, createStep, stop>>
  PROVE  Places'
<1>1. OneCopy'
  BY MovedOneCopy DEF Places, Single
<1>2. UnqueuedNowhere'
  BY DEF Places, UnqueuedNowhere, Moved
<1>3. JobIffUnfinished'
  <2>1. \A t \in Task : (\E p \in Place : Holds(p, t)') <=> (\E p \in Place : Holds(p, t))
    BY DEF Moved
  <2> QED
    BY <2>1 DEF Places, JobIffUnfinished
<1> QED
  BY <1>1, <1>2, <1>3 DEF Places

\* A job leaves its last place when its task gets a final state.
LEMMA FinishedPlaces ==
  ASSUME TypeOK, Control, Places, NEW w \in Worker, job[w] \in Task, stop # "stopped",
         Moved(job[w], {}), NoRepetitions', NEW state \in Terminal,
         taskState' = [taskState EXCEPT ![job[w]] = state],
         UNCHANGED <<creating, createStep, stop>>
  PROVE  Places'
<1>1. OneCopy'
  BY MovedOneCopy DEF Places, Single
<1>2. UnqueuedNowhere'
  BY DEF Places, UnqueuedNowhere, Moved, TypeOK, Terminal
<1>3. JobIffUnfinished'
  BY DEF Places, JobIffUnfinished, Moved, TypeOK, Terminal, Live
<1> QED
  BY <1>1, <1>2, <1>3 DEF Places

\* A worker inside processJob works on a live task, unless the map is gone.
LEMMA WorkedIsLive ==
  ASSUME TypeOK, Control, Places, NEW w \in Worker, pc[w] \notin {"select", "returned"}
  PROVE  /\ job[w] \in Task /\ Hands(w) \in Place /\ Holds(Hands(w), job[w])
         /\ stop # "stopped"
         /\ taskState[job[w]] \in Live
<1>1. job[w] \in Task /\ stop # "stopped"
  BY DEF TypeOK, Control
<1>2. Holds(Hands(w), job[w]) /\ Hands(w) \in Place
  BY <1>1, HoldsForms, PlaceForms
<1> QED
  BY <1>1, <1>2 DEF Places, JobIffUnfinished

LEMMA InitIInv == Init => Places /\ Records
<1> SUFFICES ASSUME Init PROVE Places /\ Records
  OBVIOUS
<1>1. \A t \in Task, p \in Place : ~Holds(p, t)
  BY TaskManagerAssumption DEF Init, Place, Holds, Has
<1> QED
  BY <1>1 DEF Init, Places, Records, OneCopy, NoRepetition, JobIffUnfinished, UnqueuedNowhere,
              MapAgrees, CreatedIsCounted, DivisorPositive, ExceptionMeansExhausted, Live

LEMMA StepPlaces ==
  ASSUME TypeOK, Control, Places, MapAgrees, [Next]_vars
  PROVE  Places'
<1> USE DEF Places
<1>a. NoRepetitions
  BY DEF OneCopy, NoRepetitions
<1>1. ASSUME NEW t \in Task, CreateStore(t)
      PROVE  Places'
  <2>1. Kept /\ NoRepetitions'
    BY <1>a, <1>1, KeptIf DEF CreateStore, queueVars, workerVars
  <2>2. OneCopy'
    BY <2>1, KeptOneCopy
  <2>3. \A p \in Place : ~Holds(p, t)
    BY <1>1 DEF UnqueuedNowhere, CreateStore
  <2>4. UnqueuedNowhere'
    BY <1>1, <2>1, <2>3 DEF UnqueuedNowhere, Kept, CreateStore, TypeOK
  <2>5. JobIffUnfinished'
    BY <1>1, <2>1, <2>3 DEF JobIffUnfinished, Kept, CreateStore, TypeOK, TaskMutexFree, Live
  <2> QED
    BY <2>2, <2>4, <2>5
<1>2. CASE CreatePush
  <2>1. Moved(creating, {Queue}) /\ NoRepetitions' /\ creating \in Task /\ Queue \in Place
    BY <1>2, EffectCreatePush, PlaceForms DEF CreatePush, Control
  <2>2. OneCopy'
    BY <2>1, MovedOneCopy DEF Single
  <2>3. taskState[creating] = "Pending"
    BY <1>2 DEF CreatePush, MapAgrees
  <2>4. UnqueuedNowhere'
    BY <1>2, <2>1, <2>3 DEF UnqueuedNowhere, Moved, CreatePush
  <2>5. JobIffUnfinished'
    BY <1>2, <2>1, <2>3 DEF JobIffUnfinished, Moved, CreatePush, Live
  <2> QED
    BY <2>2, <2>4, <2>5
<1>3. CASE CreateStats
  <2>1. Kept /\ NoRepetitions'
    BY <1>a, <1>3, KeptIf DEF CreateStats, queueVars, workerVars
  <2>2. OneCopy'
    BY <2>1, KeptOneCopy
  <2>3. UnqueuedNowhere'
    BY <1>3, <2>1 DEF UnqueuedNowhere, Kept, CreateStats
  <2>4. JobIffUnfinished'
    BY <1>3, <2>1 DEF JobIffUnfinished, Kept, CreateStats
  <2> QED
    BY <2>2, <2>3, <2>4
<1>4. CASE DispatchCheck
  <2>1. Kept /\ NoRepetitions'
    BY <1>a, <1>4, KeptIf DEF DispatchCheck, workerVars
  <2> QED
    BY <1>4, <2>1, KeptPlaces DEF SameNeed, DispatchCheck, createVars
<1>5. CASE DispatchPop
  <2>1. CASE jobs = << >>
    <3>1. Kept /\ NoRepetitions'
      BY <1>a, <1>5, <2>1, KeptIf DEF DispatchPop, CanPop, workerVars
    <3> QED
      BY <1>5, <3>1, KeptPlaces DEF SameNeed, DispatchPop, createVars
  <2>2. CASE jobs # << >>
    <3>1. Moved(Head(jobs), {Dispatcher}) /\ NoRepetitions' /\ Head(jobs) \in Task
      BY <1>5, <2>2, EffectPop
    <3>2. Holds(Queue, Head(jobs)) /\ Queue \in Place /\ Dispatcher \in Place
      BY <2>2, <3>1, TailHas, HoldsForms, PlaceForms DEF OneCopy, TypeOK
    <3> QED
      BY <1>5, <3>1, <3>2, MovedPlaces DEF DispatchPop, createVars
  <2> QED
    BY <2>1, <2>2
<1>6. ASSUME NEW w \in Worker, DispatchAssign(w)
      PROVE  Places'
  <2>1. Moved(dispatching, {Chan(w)}) /\ NoRepetitions' /\ dispatching \in Task
    BY <1>6, EffectAssign
  <2>2. Holds(Dispatcher, dispatching) /\ Dispatcher \in Place /\ Chan(w) \in Place
    BY <2>1, HoldsForms, PlaceForms
  <2> QED
    BY <1>6, <2>1, <2>2, MovedPlaces DEF DispatchAssign, createVars
<1>7. CASE DispatchPutBack
  <2>1. Moved(dispatching, {Queue}) /\ NoRepetitions' /\ dispatching \in Task
    BY <1>7, EffectPutBack
  <2>2. Holds(Dispatcher, dispatching) /\ Dispatcher \in Place /\ Queue \in Place
    BY <2>1, HoldsForms, PlaceForms
  <2> QED
    BY <1>7, <2>1, <2>2, MovedPlaces DEF DispatchPutBack, createVars
<1>8. ASSUME NEW w \in Worker, Receive(w)
      PROVE  Places'
  <2>1. /\ Moved(Head(jobChan[w]), {Hands(w)}) /\ NoRepetitions'
        /\ Head(jobChan[w]) \in Task
    BY <1>8, EffectReceive
  <2>2. Has(jobChan[w], Head(jobChan[w]))
    BY <1>8, TailHas DEF Receive, TypeOK, OneCopy
  <2>3. Holds(Chan(w), Head(jobChan[w])) /\ Chan(w) \in Place /\ Hands(w) \in Place
    BY <2>1, <2>2, HoldsForms, PlaceForms
  <2> QED
    BY <1>8, <2>1, <2>3, MovedPlaces DEF Receive, createVars
<1>9. ASSUME NEW w \in Worker, WorkerReturn(w)
      PROVE  Places'
  <2>1. Kept /\ NoRepetitions'
    BY <1>a, <1>9, KeptIf DEF WorkerReturn, queueVars
  <2> QED
    BY <1>9, <2>1, KeptPlaces DEF SameNeed, WorkerReturn, createVars
<1>10. ASSUME NEW w \in Worker, StartJob(w)
       PROVE  Places'
  <2>1. Kept /\ NoRepetitions'
    BY <1>a, <1>10, KeptIf DEF StartJob, queueVars
  <2>2. job[w] \in Task /\ taskState[job[w]] \in Live
    BY <1>10, WorkedIsLive DEF StartJob
  <2>3. /\ taskState' = [taskState EXCEPT ![job[w]] = "Running"]
        /\ UNCHANGED <<creating, createStep, stop>>
    BY <1>10, <2>2 DEF StartJob, UpdateTaskState, Stored
  <2> QED
    BY <2>1, <2>2, <2>3, KeptPlaces DEF SameNeed, TypeOK, Live
<1>11. ASSUME NEW w \in Worker, NEW ok \in BOOLEAN, JobReturns(w, ok)
       PROVE  Places'
  <2>1. Kept /\ NoRepetitions'
    BY <1>a, <1>11, KeptIf DEF JobReturns, queueVars
  <2> QED
    BY <1>11, <2>1, KeptPlaces DEF SameNeed, JobReturns, createVars
<1>12. ASSUME NEW w \in Worker, NEW state \in Terminal, pc[w] \in {"succeeded", "failed"},
              UpdateTaskState(job[w], state, stats), Release(w),
              UNCHANGED <<queueVars, jobChan, retryCount, stop>>
       PROVE  Places'
  <2>1. job[w] \in Task /\ taskState[job[w]] \in Live /\ stop # "stopped"
    BY <1>12, WorkedIsLive
  <2>2. Moved(job[w], {}) /\ NoRepetitions'
    BY <1>12, <2>1, EffectRelease DEF queueVars
  <2>3. /\ taskState' = [taskState EXCEPT ![job[w]] = state]
        /\ UNCHANGED <<creating, createStep, stop>>
    BY <1>12, <2>1 DEF UpdateTaskState, Stored
  <2> QED
    BY <2>1, <2>2, <2>3, FinishedPlaces
<1>13. ASSUME NEW w \in Worker, ScheduleRetry(w)
       PROVE  Places'
  <2>1. job[w] \in Task /\ Hands(w) \in Place /\ Holds(Hands(w), job[w]) /\ Timer \in Place
    BY <1>13, WorkedIsLive, PlaceForms DEF ScheduleRetry
  <2>2. Moved(job[w], {Timer}) /\ NoRepetitions'
    BY <1>13, <2>1, EffectRelease DEF ScheduleRetry
  <2> QED
    BY <1>13, <2>1, <2>2, MovedPlaces DEF ScheduleRetry, createVars
<1>14. ASSUME NEW t \in Task, TimerFires(t)
       PROVE  Places'
  <2>1. Moved(t, {Queue}) /\ NoRepetitions'
    BY <1>14, EffectTimer
  <2>2. Holds(Timer, t) /\ Timer \in Place /\ Queue \in Place
    BY <1>14, HoldsForms, PlaceForms DEF TimerFires
  <2> QED
    BY <1>14, <2>1, <2>2, MovedPlaces DEF TimerFires, createVars
<1>15. ASSUME NEW old \in SUBSET Task, Cleanup(old)
       PROVE  Places'
  <2>1. Kept /\ NoRepetitions'
    BY <1>a, <1>15, KeptIf DEF Cleanup, queueVars, workerVars
  <2>2. \A t \in old : taskState[t] \in Terminal
    BY <1>15 DEF Cleanup, MapAgrees, Stored
  <2> QED
    BY <1>15, <2>1, <2>2, KeptPlaces DEF SameNeed, Cleanup, Live
<1>16. CASE StopStep
  <2>1. Kept /\ NoRepetitions'
    BY <1>a, <1>16, KeptIf DEF StopStep, StopSignal, StopJoin, StopJoined, StopClear,
                               queueVars, workerVars
  <2>2. CASE StopClear
    BY <2>1, <2>2, KeptPlaces DEF SameNeed, StopClear
  <2>3. CASE StopSignal \/ StopJoin \/ StopJoined
    BY <2>1, <2>3, KeptPlaces DEF SameNeed, StopSignal, StopJoin, StopJoined, createVars
  <2> QED
    BY <1>16, <2>2, <2>3 DEF StopStep
<1>17. CASE UNCHANGED vars
  <2>1. Kept /\ NoRepetitions'
    BY <1>a, <1>17, KeptIf DEF vars, queueVars, workerVars
  <2> QED
    BY <1>17, <2>1, KeptPlaces DEF SameNeed, vars, createVars
<1>18. ASSUME NEW w \in Worker, Complete(w) \/ Fail(w)
       PROVE  Places'
  BY <1>12, <1>18 DEF Complete, Fail, Terminal
<1> QED
  BY <1>1, <1>2, <1>3, <1>4, <1>5, <1>6, <1>7, <1>8, <1>9, <1>10, <1>11, <1>13,
     <1>14, <1>15, <1>16, <1>17, <1>18 DEF Next, Dispatch, Process

\* A created task whose CreateTask has returned has been counted, and so has
\* every task a worker has.
LEMMA StepRecords ==
  ASSUME IInv, [Next]_vars
  PROVE  Records'
<1> USE DEF IInv, Records
<1>0. stats.completed \in Nat /\ stats.failed \in Nat /\ stats \in StatsType
  BY DEF TypeOK, StatsType
<1>1. ASSUME NEW t \in Task, CreateStore(t)
      PROVE  Records'
  <2>1. /\ taskState' = [taskState EXCEPT ![t] = "Pending"] /\ taskState \in [Task -> States]
        /\ taskState[t] = "Unused" /\ creating' = t /\ createStep' = "push"
        /\ UNCHANGED <<ended, pc, job, stats, stop, retryCount>>
        /\ creating \notin Task
    BY <1>1 DEF CreateStore, TypeOK, workerVars, TaskMutexFree, Control
  <2>2. MapAgrees'
    BY <2>1 DEF MapAgrees, Live, TypeOK, Control
  <2>3. CreatedIsCounted'
    BY <2>1 DEF CreatedIsCounted
  <2>4. DivisorPositive' /\ ExceptionMeansExhausted'
    BY <2>1 DEF DivisorPositive, ExceptionMeansExhausted
  <2> QED
    BY <2>2, <2>3, <2>4
<1>2. CASE CreatePush
  BY <1>2 DEF CreatePush, workerVars, MapAgrees, CreatedIsCounted, DivisorPositive,
              ExceptionMeansExhausted
<1>3. CASE CreateStats
  <2>1. /\ stats' \in StatsType
        /\ stats'.completed + stats'.failed = stats.completed + stats.failed + 1
        /\ createStep' = "idle"
        /\ UNCHANGED <<taskState, ended, pc, job, stop, retryCount>>
    BY <1>0, <1>3, CountedTyping DEF CreateStats, workerVars
  <2>2. stats'.completed + stats'.failed > 0
    BY <1>0, <2>1
  <2> QED
    BY <2>1, <2>2 DEF MapAgrees, CreatedIsCounted, DivisorPositive, ExceptionMeansExhausted
<1>4. CASE UNCHANGED <<taskState, ended, creating, createStep, pc, job, stats, stop, retryCount>>
  BY <1>4 DEF MapAgrees, CreatedIsCounted, DivisorPositive, ExceptionMeansExhausted
<1>5. ASSUME NEW w \in Worker, Receive(w)
      PROVE  Records'
  <2>1. /\ pc' = [pc EXCEPT ![w] = "start"] /\ \A v \in Worker : v # w => job'[v] = job[v]
        /\ UNCHANGED <<taskState, ended, creating, createStep, stats, stop, retryCount>>
    BY <1>5 DEF Receive, TypeOK, createVars
  <2> QED
    BY <2>1 DEF MapAgrees, CreatedIsCounted, DivisorPositive, ExceptionMeansExhausted, TypeOK
<1>6. ASSUME NEW w \in Worker, WorkerReturn(w)
      PROVE  Records'
  BY <1>6 DEF WorkerReturn, createVars, MapAgrees, CreatedIsCounted, DivisorPositive,
              ExceptionMeansExhausted, TypeOK
<1>7. ASSUME NEW w \in Worker, StartJob(w)
      PROVE  Records'
  <2>1. /\ job[w] \in Task /\ taskState[job[w]] \in Live /\ stop # "stopped"
        /\ \A v \in Worker : v # w => job[v] # job[w]
    BY <1>7, WorkedIsLive, HoldsForms, PlaceForms, PlacesDiffer DEF StartJob, Places, OneCopy
  <2>2. /\ taskState' = [taskState EXCEPT ![job[w]] = "Running"]
        /\ pc' = [pc EXCEPT ![w] = "insert"]
        /\ UNCHANGED <<ended, creating, createStep, job, stats, stop, retryCount>>
        /\ createStep = "idle"
    BY <1>7, <2>1 DEF StartJob, UpdateTaskState, Stored, Terminal, TaskMutexFree
  <2>3. MapAgrees'
    BY <2>1, <2>2 DEF MapAgrees, TypeOK, Live
  <2>a. stats.completed + stats.failed > 0
    BY <2>1, <2>2 DEF CreatedIsCounted, Control, Live
  <2>4. CreatedIsCounted' /\ DivisorPositive'
    BY <2>a, <2>2 DEF CreatedIsCounted, DivisorPositive
  <2>5. ExceptionMeansExhausted'
    BY <2>1, <2>2 DEF ExceptionMeansExhausted, TypeOK, Live
  <2> QED
    BY <2>3, <2>4, <2>5
<1>8. ASSUME NEW w \in Worker, NEW ok \in BOOLEAN, JobReturns(w, ok)
      PROVE  Records'
  <2>1. /\ stats' \in StatsType
        /\ stats'.completed + stats'.failed = stats.completed + stats.failed + 1
        /\ pc' = [pc EXCEPT ![w] = IF ok THEN "succeeded" ELSE "failed"] /\ pc[w] = "insert"
        /\ UNCHANGED <<taskState, ended, creating, createStep, job, stop, retryCount>>
    BY <1>0, <1>8, CountedTyping DEF JobReturns, createVars
  <2>2. stats'.completed + stats'.failed > 0
    BY <1>0, <2>1
  <2> QED
    BY <2>1, <2>2 DEF MapAgrees, CreatedIsCounted, DivisorPositive, ExceptionMeansExhausted, TypeOK
<1>9. ASSUME NEW w \in Worker, NEW state \in Terminal, pc[w] \in {"succeeded", "failed"},
             state = "Exception" => retryCount[job[w]] >= MaxRetries,
             UpdateTaskState(job[w], state, stats), Release(w),
             UNCHANGED <<queueVars, jobChan, retryCount, stop>>
      PROVE  Records'
  <2>1. /\ job[w] \in Task /\ taskState[job[w]] \in Live /\ stop # "stopped"
        /\ \A v \in Worker : v # w => job[v] # job[w]
    BY <1>9, WorkedIsLive, HoldsForms, PlaceForms, PlacesDiffer DEF Places, OneCopy
  <2>2. /\ taskState' = [taskState EXCEPT ![job[w]] = state]
        /\ ended' = ended \cup {job[w]}
        /\ stats' = Counted(stats, state = "Completed")
        /\ job' = [job EXCEPT ![w] = NoTask] /\ pc' = [pc EXCEPT ![w] = "select"]
        /\ UNCHANGED <<creating, createStep, stop, retryCount>>
        /\ createStep = "idle"
    BY <1>9, <2>1 DEF UpdateTaskState, Stored, TaskMutexFree, Release
  <2>3. /\ stats' \in StatsType
        /\ stats'.completed + stats'.failed = stats.completed + stats.failed + 1
    BY <1>0, <2>2, CountedTyping
  <2>4. stats'.completed + stats'.failed > 0
    BY <1>0, <2>3
  <2>5. MapAgrees'
    BY <2>1, <2>2 DEF MapAgrees, TypeOK, Live, Terminal
  <2>6. CreatedIsCounted' /\ DivisorPositive'
    BY <2>4 DEF CreatedIsCounted, DivisorPositive
  <2>7. ExceptionMeansExhausted'
    BY <1>9, <2>1, <2>2, TaskManagerAssumption DEF ExceptionMeansExhausted, TypeOK
  <2> QED
    BY <2>5, <2>6, <2>7
<1>10. ASSUME NEW w \in Worker, ScheduleRetry(w)
       PROVE  Records'
  <2>1. job[w] \in Task /\ taskState[job[w]] \in Live
    BY <1>10, WorkedIsLive DEF ScheduleRetry
  <2>2. /\ retryCount' = [retryCount EXCEPT ![job[w]] = @ + 1]
        /\ job' = [job EXCEPT ![w] = NoTask] /\ pc' = [pc EXCEPT ![w] = "select"]
        /\ UNCHANGED <<taskState, ended, creating, createStep, stats, stop>>
    BY <1>10 DEF ScheduleRetry, Release, createVars
  <2>3. MapAgrees' /\ CreatedIsCounted' /\ DivisorPositive'
    BY <2>2 DEF MapAgrees, CreatedIsCounted, DivisorPositive, TypeOK
  <2>4. ExceptionMeansExhausted'
    BY <2>1, <2>2 DEF ExceptionMeansExhausted, TypeOK, Live
  <2> QED
    BY <2>3, <2>4
<1>11. ASSUME NEW old \in SUBSET Task, Cleanup(old)
       PROVE  Records'
  <2>1. /\ taskState' = [t \in Task |-> IF t \in old THEN "Expired" ELSE taskState[t]]
        /\ \A t \in old : t \in ended /\ taskState[t] \in Terminal
        /\ UNCHANGED <<ended, creating, createStep, pc, job, stats, stop, retryCount>>
        /\ createStep = "idle"
    BY <1>11 DEF Cleanup, MapAgrees, Stored, queueVars, workerVars, TaskMutexFree
  <2>2. \A t \in Task : \/ taskState'[t] = taskState[t]
                        \/ taskState[t] \in Terminal /\ taskState'[t] = "Expired"
    BY <2>1
  <2>3. MapAgrees'
    BY <2>1, <2>2, WorkedIsLive DEF MapAgrees, Live, Terminal, TypeOK, Control
  <2>4. CreatedIsCounted' /\ DivisorPositive' /\ ExceptionMeansExhausted'
    BY <2>1, <2>2 DEF CreatedIsCounted, DivisorPositive, ExceptionMeansExhausted, Terminal
  <2> QED
    BY <2>3, <2>4
<1>12. CASE StopSignal \/ StopJoin \/ StopJoined
  BY <1>12 DEF StopSignal, StopJoin, StopJoined, createVars, workerVars,
               MapAgrees, CreatedIsCounted, DivisorPositive, ExceptionMeansExhausted
<1>13. CASE StopClear
  BY <1>13 DEF StopClear, TaskMutexFree, workerVars, Stored, Live, Terminal, TypeOK,
               MapAgrees, CreatedIsCounted, DivisorPositive, ExceptionMeansExhausted
<1>14. ASSUME NEW w \in Worker, Complete(w) \/ Fail(w)
       PROVE  Records'
  BY <1>9, <1>14 DEF Complete, Fail, Terminal
<1>15. CASE Dispatch
  BY <1>4, <1>15 DEF Dispatch, DispatchCheck, DispatchPop, DispatchAssign, DispatchPutBack,
                     createVars, workerVars
<1>16. ASSUME NEW t \in Task, TimerFires(t)
       PROVE  Records'
  BY <1>4, <1>16 DEF TimerFires, createVars, workerVars
<1>17. CASE UNCHANGED vars
  BY <1>4, <1>17 DEF vars, createVars, workerVars
<1> QED
  BY <1>1, <1>2, <1>3, <1>5, <1>6, <1>7, <1>8, <1>10, <1>11, <1>12, <1>13, <1>14, <1>15,
     <1>16, <1>17 DEF Next, Process, StopStep

THEOREM Invariance == Spec => []IInv
<1>1. Init => IInv
  BY InitTyping, InitIInv DEF IInv
<1>2. IInv /\ [Next]_vars => IInv'
  BY StepTyping, StepPlaces, StepRecords DEF IInv, Records
<1> QED
  BY <1>1, <1>2, PTL DEF Spec

(***************************************************************************)
(* What the invariant says of the model's properties.                      *)
(***************************************************************************)

\* No job is ever in two places or twice in one: for any number of tasks,
\* workers, channel capacity and retries.
THEOREM JobsAreUnique == Spec => []OneCopy
<1>1. IInv => OneCopy
  BY DEF IInv, Places
<1> QED
  BY <1>1, Invariance, PTL

\* No job is lost, and none outlives its task, until Stop drops the map.
THEOREM JobsAreConserved == Spec => []JobIffUnfinished
<1>1. IInv => JobIffUnfinished
  BY DEF IInv, Places
<1> QED
  BY <1>1, Invariance, PTL

\* updateStats never divides by zero.
THEOREM DivisionIsDefined == Spec => []DivisorPositive
<1>1. IInv => DivisorPositive
  BY DEF IInv, Records
<1> QED
  BY <1>1, Invariance, PTL

\* A task fails only after MaxRetries retries.
THEOREM FailureIsExhaustion == Spec => []ExceptionMeansExhausted
<1>1. IInv => ExceptionMeansExhausted
  BY DEF IInv, Records
<1> QED
  BY <1>1, Invariance, PTL

(***************************************************************************)
(* The changes a step makes to the task map.                               *)
(***************************************************************************)

TaskChanges(t, from, to) ==
  taskState[t] \in from /\ taskState' = [taskState EXCEPT ![t] = to]

EntriesGo(S, where) ==
  taskState' = [t \in Task |-> IF t \in S THEN where ELSE taskState[t]]

\* A step leaves the map alone, creates, starts or finishes one task, forgets
\* finished ones, or drops them all.
MapStep ==
  \/ taskState' = taskState
  \/ \E t \in Task : TaskChanges(t, {"Unused"}, "Pending")
  \/ \E t \in Task : TaskChanges(t, Live, "Running")
  \/ \E t \in Task, s \in Terminal : TaskChanges(t, {"Running"}, s)
  \/ \E S \in SUBSET Task : (\A t \in S : taskState[t] \in Terminal) /\ EntriesGo(S, "Expired")
  \/ EntriesGo({t \in Task : taskState[t] \in Stored}, "Dropped")

LEMMA StepMap ==
  ASSUME IInv, [Next]_vars
  PROVE  MapStep
<1> USE DEF IInv
<1>1. ASSUME NEW t \in Task, CreateStore(t)
      PROVE  MapStep
  BY <1>1 DEF CreateStore, MapStep, TaskChanges
<1>2. ASSUME NEW w \in Worker, StartJob(w)
      PROVE  MapStep
  <2>1. job[w] \in Task /\ taskState[job[w]] \in Live
    BY <1>2, WorkedIsLive DEF StartJob
  <2>2. TaskChanges(job[w], Live, "Running")
    BY <1>2, <2>1 DEF StartJob, UpdateTaskState, TaskChanges, Stored
  <2> QED
    BY <2>1, <2>2 DEF MapStep
<1>3. ASSUME NEW w \in Worker, NEW state \in Terminal, pc[w] \in {"succeeded", "failed"},
             UpdateTaskState(job[w], state, stats)
      PROVE  MapStep
  <2>1. job[w] \in Task /\ taskState[job[w]] = "Running"
    BY <1>3, WorkedIsLive DEF MapAgrees, Records
  <2>2. TaskChanges(job[w], {"Running"}, state)
    BY <1>3, <2>1 DEF UpdateTaskState, TaskChanges, Stored, Live
  <2> QED
    BY <2>1, <2>2 DEF MapStep
<1>4. ASSUME NEW w \in Worker, Complete(w) \/ Fail(w)
      PROVE  MapStep
  BY <1>3, <1>4 DEF Complete, Fail, Terminal
<1>5. ASSUME NEW old \in SUBSET Task, Cleanup(old)
      PROVE  MapStep
  <2>1. EntriesGo(old, "Expired") /\ \A t \in old : taskState[t] \in Terminal
    BY <1>5 DEF Cleanup, EntriesGo, MapAgrees, Records, Stored
  <2> QED
    BY <2>1 DEF MapStep
<1>6. CASE StopClear
  <2>1. EntriesGo({t \in Task : taskState[t] \in Stored}, "Dropped")
    BY <1>6 DEF StopClear, EntriesGo
  <2> QED
    BY <2>1 DEF MapStep
<1>7. CASE taskState' = taskState
  BY <1>7 DEF MapStep
<1>8. CASE CreatePush \/ CreateStats \/ Dispatch
  BY <1>7, <1>8 DEF CreatePush, CreateStats, Dispatch, DispatchCheck, DispatchPop,
                    DispatchAssign, DispatchPutBack, createVars
<1>9. ASSUME NEW w \in Worker, NEW ok \in BOOLEAN,
             Receive(w) \/ JobReturns(w, ok) \/ ScheduleRetry(w) \/ WorkerReturn(w)
      PROVE  MapStep
  BY <1>7, <1>9 DEF Receive, JobReturns, ScheduleRetry, WorkerReturn, createVars
<1>10. ASSUME NEW t \in Task, TimerFires(t)
       PROVE  MapStep
  BY <1>7, <1>10 DEF TimerFires, createVars
<1>11. CASE StopSignal \/ StopJoin \/ StopJoined \/ UNCHANGED vars
  BY <1>7, <1>11 DEF StopSignal, StopJoin, StopJoined, vars, createVars
<1> QED
  BY <1>1, <1>2, <1>4, <1>5, <1>6, <1>8, <1>9, <1>10, <1>11 DEF Next, Process, StopStep

\* A reported outcome stays until the task's entry goes.
THEOREM OutcomesAreFinal == Spec => TerminalIsFinal
<1>1. ASSUME IInv, [Next]_vars, NEW t \in Task, taskState[t] \in Terminal
      PROVE  taskState'[t] \in {taskState[t], "Expired", "Dropped"}
  <2>1. MapStep
    BY <1>1, StepMap
  <2> QED
    BY <1>1, <2>1 DEF MapStep, TaskChanges, EntriesGo, IInv, TypeOK, Live, Terminal
<1>2. IInv /\ [Next]_vars
        => [\A t \in Task : taskState[t] \in Terminal =>
              taskState'[t] \in {taskState[t], "Expired", "Dropped"}]_vars
  BY <1>1
<1> QED
  BY <1>2, Invariance, PTL DEF Spec, TerminalIsFinal

\* The task manager implements TaskLifecycle under the mapping Reported.
THEOREM Refinement == Spec => ImplementsLifecycle
<1> USE DEF Reported
<1>1. Init => Lifecycle!Init
  BY DEF Init, Lifecycle!Init
<1>2. ASSUME IInv, [Next]_vars
      PROVE  [Lifecycle!Next]_Reported
  <2>0. taskState \in [Task -> States] /\ MapStep
    BY <1>2, StepMap DEF IInv, TypeOK
  <2>1. CASE taskState' = taskState
    BY <2>1
  <2>2. ASSUME NEW t \in Task, TaskChanges(t, {"Unused"}, "Pending")
        PROVE  Lifecycle!Create(t)
    BY <2>0, <2>2 DEF TaskChanges, Lifecycle!Create, Lifecycle!Change
  <2>3. ASSUME NEW t \in Task, TaskChanges(t, Live, "Running")
        PROVE  Lifecycle!Start(t) \/ Reported' = Reported
    <3>1. CASE taskState[t] = "Pending"
      BY <2>0, <2>3, <3>1 DEF TaskChanges, Lifecycle!Start, Lifecycle!Change
    <3>2. CASE taskState[t] = "Running"
      <4>1. taskState' = taskState
        BY <2>0, <2>3, <3>2 DEF TaskChanges
      <4> QED
        BY <4>1
    <3> QED
      BY <2>3, <3>1, <3>2 DEF TaskChanges, Live
  <2>4. ASSUME NEW t \in Task, NEW s \in Terminal, TaskChanges(t, {"Running"}, s)
        PROVE  Lifecycle!End(t)
    BY <2>0, <2>4 DEF TaskChanges, Lifecycle!End, Lifecycle!Change, Terminal
  <2>5. ASSUME NEW S \in SUBSET Task, \A t \in S : taskState[t] \in Terminal,
               EntriesGo(S, "Expired")
        PROVE  Lifecycle!Forget(S)
    BY <2>0, <2>5 DEF EntriesGo, Lifecycle!Forget, Terminal
  <2>6. CASE EntriesGo({t \in Task : taskState[t] \in Stored}, "Dropped")
    <3>1. ASSUME NEW t \in Task
          PROVE  /\ taskState[t] = "Unused" => taskState'[t] = "Unused"
                 /\ taskState[t] # "Unused" => taskState'[t] \in {"Expired", "Dropped"}
      BY <2>0, <2>6 DEF EntriesGo, States, Stored, Live, Terminal
    <3>2. ASSUME NEW t \in Task
          PROVE  Reported'[t] = IF Reported[t] = "none" THEN "none" ELSE "gone"
      <4>1. CASE taskState[t] = "Unused"
        BY <3>1, <4>1
      <4>2. CASE taskState[t] # "Unused"
        BY <3>1, <4>2
      <4> QED
        BY <4>1, <4>2
    <3>3. Reported' = [t \in Task |-> Reported'[t]]
      OBVIOUS
    <3> HIDE DEF Reported
    <3>4. Reported' = [t \in Task |-> IF Reported[t] = "none" THEN "none" ELSE "gone"]
      BY <3>2, <3>3
    <3> QED
      BY <3>4 DEF Lifecycle!Close, Lifecycle!Next
  <2> QED
    BY <2>0, <2>1, <2>2, <2>3, <2>4, <2>5, <2>6 DEF MapStep, Lifecycle!Next
<1> QED
  BY <1>1, <1>2, Invariance, PTL DEF Spec, Lifecycle!Spec, ImplementsLifecycle
=============================================================================
