--------------------------- MODULE PriorityQueue ---------------------------
(***************************************************************************)
(* The priority queue of pkg/server/task_manager.go (type PriorityQueue):  *)
(* a slice of jobs, kept in order by one swapping pass per Push.           *)
(*                                                                         *)
(* The pass of the code walks from the tail to the head and swaps          *)
(* neighbours when the right one has the strictly higher priority.  Its    *)
(* effect is written here without a loop: when the walk reaches position   *)
(* i, the job standing there is the leftmost of the highest-priority jobs  *)
(* of positions i..n, and the loser of its comparison with position i-1    *)
(* stays behind at position i.                                             *)
(***************************************************************************)
EXTENDS Naturals, Sequences

CONSTANTS Job,        \* the jobs that can be queued
          Priority    \* the Priority field of each job

PriorityAssumption == Priority \in [Job -> Nat]

\* The position whose job the pass carries when it has reached position i.
Carried(q, i) ==
  CHOOSE k \in i..Len(q) :
    /\ \A m \in i..Len(q) : Priority[q[m]] =< Priority[q[k]]
    /\ \A m \in i..(k - 1) : Priority[q[m]] < Priority[q[k]]

\* Mutant of SwapPass: only the new job's first neighbour is compared.
SwapPassOnce(q) ==
  LET n == Len(q)
  IN  IF n > 1 /\ Priority[q[n - 1]] < Priority[q[n]]
      THEN [q EXCEPT ![n] = q[n - 1], ![n - 1] = q[n]]
      ELSE q

\* The slice after the pass.
SwapPass(q) ==
  [i \in 1..Len(q) |->
     IF i > 1 /\ Priority[q[i - 1]] < Priority[q[Carried(q, i)]]
     THEN q[i - 1]
     ELSE q[Carried(q, i)]]

\* PriorityQueue.Push: append, then one pass.
Push(q, j) == SwapPass(Append(q, j))

\* PriorityQueue.Pop: nothing when empty, else the head is removed.
CanPop(q) == q # << >>
Popped(q) == Head(q)
AfterPop(q) == Tail(q)
=============================================================================
