-------------------------- MODULE MCPriorityQueue --------------------------
(***************************************************************************)
(* The queue driven by any order of Push and Pop, checked against what a   *)
(* priority queue promises.  A job is its priority and its age: the k-th   *)
(* job to be pushed has age k.                                             *)
(***************************************************************************)
EXTENDS PriorityQueue, SequencesExt

CONSTANTS MaxJobs,     \* bound: jobs pushed in a behaviour
          Priorities   \* the priorities a job may have

QueueAssumption == PriorityAssumption /\ MaxJobs \in Nat /\ Priorities \subseteq Nat

VARIABLES jobs,        \* pq.jobs
          pushed       \* number of jobs pushed so far

vars == <<jobs, pushed>>

Init == jobs = << >> /\ pushed = 0

PushJob(p) ==
  /\ pushed < MaxJobs
  /\ pushed' = pushed + 1
  /\ jobs' = Push(jobs, <<p, pushed'>>)

PopJob ==
  /\ CanPop(jobs)
  /\ jobs' = AfterPop(jobs)
  /\ UNCHANGED pushed

Next == PopJob \/ \E p \in Priorities : PushJob(p)

Spec == Init /\ [][Next]_vars

\* "Pop removes and returns the highest priority job", and among equals the
\* one that has waited longest: one swapping pass per Push is enough to keep
\* the slice sorted by priority and, within a priority, by age.
PriorityThenAge ==
  \A i, k \in DOMAIN jobs :
    i < k => LET a == jobs[i]  b == jobs[k]
             IN a[1] > b[1] \/ (a[1] = b[1] /\ a[2] < b[2])

\* MC values of PriorityQueue's constants.
MCJob == Priorities \X (1..MaxJobs)
MCPriority == [j \in MCJob |-> j[1]]
=============================================================================
