----------------------------- MODULE LockOrder -----------------------------
(***************************************************************************)
(* Threads that run operations, each of which takes and gives up mutexes in *)
(* a fixed order, under the rules of sync.Mutex and sync.RWMutex: a writer   *)
(* announces itself, which keeps new readers out, and then waits for the    *)
(* readers that are in.  Go lets the readers that wait in before the next   *)
(* writer; here they may be overtaken.                                      *)
(***************************************************************************)
EXTENDS Naturals, Sequences

CONSTANTS
  Threads,  \* the goroutines
  Program,  \* Program[o]: the lock and unlock steps of operation o
  Level,    \* Level[m]: the place of mutex m in the intended order, innermost lowest
  Suspects  \* the operations that are not held to the order

VARIABLES
  op,        \* op[t]: the operation t runs, or ran last
  pc,        \* pc[t]: the step of it that comes next
  announced  \* the writers that wait for readers

vars == <<op, pc, announced>>

Ops == DOMAIN Program
Mutexes == DOMAIN Level

\* p holds m in one of the modes before its step n.
Keeps(p, n, m, modes) ==
  \E i \in 1..(n - 1) :
    /\ p[i].do = "lock" /\ p[i].mutex = m /\ p[i].mode \in modes
    /\ \A j \in (i + 1)..(n - 1) : ~(p[j].do = "unlock" /\ p[j].mutex = m)

\* Whatever p takes is of a lower level than all it holds.
Disciplined(p) ==
  \A n \in 1..Len(p) : p[n].do = "lock" =>
    \A m \in Mutexes : Keeps(p, n, m, {"R", "W"}) => Level[p[n].mutex] < Level[m]

GivesBack(p) == \A m \in Mutexes : ~Keeps(p, Len(p) + 1, m, {"R", "W"})

Step == [do : {"lock", "unlock"}, mutex : Mutexes, mode : {"R", "W"}]

LockAssumption ==
  /\ Level \in [Mutexes -> Nat]
  /\ \A o \in Ops : Program[o] \in Seq(Step) /\ GivesBack(Program[o])

----------------------------------------------------------------------------
Done(t) == pc[t] = Len(Program[op[t]]) + 1
Now(t) == Program[op[t]][pc[t]]
Holds(t, m, modes) == Keeps(Program[op[t]], pc[t], m, modes)
Wants(t, mode) == ~Done(t) /\ Now(t).do = "lock" /\ Now(t).mode = mode

WriterFree(m) ==
  \A u \in Threads : ~Holds(u, m, {"W"}) /\ ~(u \in announced /\ Now(u).mutex = m)

Init ==
  /\ op \in [Threads -> Ops] /\ announced = {}
  /\ pc = [t \in Threads |-> Len(Program[op[t]]) + 1]

Begin(t, o) ==
  /\ Done(t)
  /\ op' = [op EXCEPT ![t] = o] /\ pc' = [pc EXCEPT ![t] = 1]
  /\ UNCHANGED announced

Advance(t) == pc' = [pc EXCEPT ![t] = @ + 1] /\ UNCHANGED op

RLock(t) ==
  /\ Wants(t, "R") /\ WriterFree(Now(t).mutex)
  /\ Advance(t) /\ UNCHANGED announced

Announce(t) ==
  /\ Wants(t, "W") /\ t \notin announced /\ WriterFree(Now(t).mutex)
  /\ announced' = announced \cup {t} /\ UNCHANGED <<op, pc>>

Lock(t) ==
  /\ Wants(t, "W") /\ t \in announced
  /\ \A u \in Threads : ~Holds(u, Now(t).mutex, {"R", "W"})
  /\ Advance(t) /\ announced' = announced \ {t}

Unlock(t) ==
  /\ ~Done(t) /\ Now(t).do = "unlock"
  /\ Advance(t) /\ UNCHANGED announced

Next ==
  \E t \in Threads : \/ \E o \in Ops : Begin(t, o)
                     \/ RLock(t) \/ Announce(t) \/ Lock(t) \/ Unlock(t)

Spec == Init /\ [][Next]_vars

----------------------------------------------------------------------------
\* Every variable keeps its type, and who has announced itself wants to write.
TypeOK ==
  /\ op \in [Threads -> Ops] /\ announced \subseteq Threads
  /\ pc \in [Threads -> Nat] /\ \A t \in Threads : pc[t] \in 1..(Len(Program[op[t]]) + 1)
  /\ \A t \in announced : Wants(t, "W")

\* What a thread that has started waits for.
Blocked(t) ==
  /\ ~Done(t) /\ Now(t).do = "lock"
  /\ \/ Now(t).mode = "R" /\ ~WriterFree(Now(t).mutex)
     \/ Now(t).mode = "W" /\ t \notin announced /\ ~WriterFree(Now(t).mutex)
     \/ /\ Now(t).mode = "W" /\ t \in announced
        /\ \E u \in Threads : Holds(u, Now(t).mutex, {"R", "W"})

Busy == {t \in Threads : ~Done(t)}
Deadlocked == Busy # {} /\ \A t \in Busy : Blocked(t)

\* Every operation but the suspects takes a mutex only while all it holds are
\* of higher levels, through whatever methods it calls on the way.
NestsInOrder == \A o \in Ops \ Suspects : Disciplined(Program[o])

\* However many goroutines run whichever of the services' operations at a
\* time, they wait for each other for ever only if one of the suspects is
\* among them.
DeadlockNeedsSuspect == Deadlocked => \E t \in Busy : op[t] \in Suspects

\* No operation waits for ever for a mutex.
NoDeadlock == ~Deadlocked
=============================================================================
