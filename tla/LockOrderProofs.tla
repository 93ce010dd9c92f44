-------------------------- MODULE LockOrderProofs --------------------------
(***************************************************************************)
(* The order of the mutexes keeps threads from deadlock, whatever their     *)
(* number and whatever the operations.  Were all busy threads blocked, look *)
(* at one that wants a mutex of the lowest level wanted: whoever keeps it   *)
(* from going on is busy, so wants a mutex of a lower level, or has         *)
(* announced itself at the same mutex and is kept waiting by one who does.   *)
(***************************************************************************)
EXTENDS LockOrder, TLAPS, WellFoundedInduction

\* Every nonempty set of natural numbers has a least element.
LEMMA LeastOf ==
  ASSUME NEW T, T \subseteq Nat, T # {}
  PROVE  \E x \in T : \A y \in T : ~(y < x)
<1> DEFINE R == {ss \in Nat \X Nat : ss[1] < ss[2]}
<1>1. IsWellFoundedOn(R, Nat)
  BY NatLessThanWellFounded DEF OpToRel
<1>2. \A x, y \in Nat : y < x => <<y, x>> \in R
  OBVIOUS
<1> HIDE DEF R
<1>3. \E x \in T : \A y \in T : ~(<<y, x>> \in R)
  BY <1>1, WFMin
<1> QED
  BY <1>2, <1>3

----------------------------------------------------------------------------
(* Type correctness                                                         *)

\* The step a busy thread comes to is a step of its operation.
LEMMA StepsTyped ==
  ASSUME LockAssumption, TypeOK, NEW t \in Threads
  PROVE  /\ op[t] \in Ops /\ Program[op[t]] \in Seq(Step) /\ pc[t] \in Nat
         /\ Len(Program[op[t]]) \in Nat
         /\ ~Done(t) => pc[t] \in 1..Len(Program[op[t]]) /\ Now(t) \in Step
<1>1. op[t] \in Ops /\ pc[t] \in 1..(Len(Program[op[t]]) + 1)
  BY DEF TypeOK
<1>2. Program[op[t]] \in Seq(Step)
  BY <1>1 DEF LockAssumption
<1>3. Len(Program[op[t]]) \in Nat
  BY <1>2
<1>4. ~Done(t) => pc[t] \in 1..Len(Program[op[t]])
  BY <1>1, <1>3 DEF Done
<1> QED
  BY <1>1, <1>2, <1>3, <1>4 DEF Now

\* A step of t leaves the programs and places of the other threads alone.
LEMMA AdvanceTyped ==
  ASSUME LockAssumption, TypeOK, NEW t \in Threads, ~Done(t), Advance(t),
         announced' = announced \ {t}
  PROVE  TypeOK'
<1>1. /\ pc[t] \in 1..Len(Program[op[t]]) /\ Len(Program[op[t]]) \in Nat
  BY StepsTyped
<1>2. op' = op /\ pc' = [pc EXCEPT ![t] = @ + 1]
  BY DEF Advance
<1>3. pc' \in [Threads -> Nat] /\ \A u \in Threads : pc'[u] \in 1..(Len(Program[op'[u]]) + 1)
  BY <1>1, <1>2 DEF TypeOK
<1>4. ASSUME NEW u \in announced' PROVE Wants(u, "W")'
  BY <1>2, <1>4 DEF TypeOK, Wants, Done, Now
<1> QED
  BY <1>2, <1>3, <1>4 DEF TypeOK

\* Where all threads start, and where each step leads, is typed.
LEMMA TypeInit ==
  ASSUME LockAssumption
  PROVE  Init => TypeOK
<1> SUFFICES ASSUME Init PROVE TypeOK
  OBVIOUS
<1>1. ASSUME NEW t \in Threads PROVE Program[op[t]] \in Seq(Step) /\ pc[t] = Len(Program[op[t]]) + 1
  BY <1>1 DEF Init, LockAssumption
<1>2. ASSUME NEW t \in Threads PROVE pc[t] \in Nat /\ pc[t] \in 1..(Len(Program[op[t]]) + 1)
  BY <1>1
<1> QED
  BY <1>2 DEF Init, TypeOK

LEMMA TypeStep ==
  ASSUME LockAssumption
  PROVE  TypeOK /\ [Next]_vars => TypeOK'
<1> SUFFICES ASSUME TypeOK, [Next]_vars PROVE TypeOK'
  OBVIOUS
<1>1. ASSUME NEW t \in Threads, NEW o \in Ops, Begin(t, o) PROVE TypeOK'
  <2>1. op' = [op EXCEPT ![t] = o] /\ pc' = [pc EXCEPT ![t] = 1] /\ announced' = announced
    BY <1>1 DEF Begin
  <2>2. Program[o] \in Seq(Step)
    BY DEF LockAssumption
  <2>3. Len(Program[o]) \in Nat
    BY <2>2
  <2>4. op' \in [Threads -> Ops] /\ pc' \in [Threads -> Nat]
    BY <2>1 DEF TypeOK
  <2>5. \A u \in Threads : pc'[u] \in 1..(Len(Program[op'[u]]) + 1)
    BY <2>1, <2>3 DEF TypeOK
  <2>6. t \notin announced
    BY <1>1 DEF Begin, TypeOK, Wants
  <2>7. ASSUME NEW u \in announced' PROVE Wants(u, "W")'
    <3>1. u \in Threads /\ u # t /\ Wants(u, "W")
      BY <2>1, <2>6, <2>7 DEF TypeOK
    <3>2. op'[u] = op[u] /\ pc'[u] = pc[u]
      BY <2>1, <3>1 DEF TypeOK
    <3> QED
      BY <3>1, <3>2 DEF Wants, Done, Now
  <2> QED
    BY <2>1, <2>4, <2>5, <2>7 DEF TypeOK
<1>2. ASSUME NEW t \in Threads, RLock(t) PROVE TypeOK'
  <2>1. t \notin announced
    BY <1>2 DEF RLock, TypeOK, Wants
  <2> QED
    BY <1>2, <2>1, AdvanceTyped DEF RLock, Wants
<1>3. ASSUME NEW t \in Threads, Announce(t) PROVE TypeOK'
  BY <1>3 DEF Announce, TypeOK, Wants, Done, Now
<1>4. ASSUME NEW t \in Threads, Lock(t) PROVE TypeOK'
  BY <1>4, AdvanceTyped DEF Lock, Wants
<1>5. ASSUME NEW t \in Threads, Unlock(t) PROVE TypeOK'
  <2>1. t \notin announced
    BY <1>5 DEF Unlock, TypeOK, Wants
  <2> QED
    BY <1>5, <2>1, AdvanceTyped DEF Unlock
<1>6. CASE UNCHANGED vars
  BY <1>6 DEF vars, TypeOK, Wants, Done, Now
<1> QED
  BY <1>1, <1>2, <1>3, <1>4, <1>5, <1>6 DEF Next

\* Init and every step keep the types.
LEMMA TypeInvariant ==
  ASSUME LockAssumption
  PROVE  Spec => []TypeOK
BY TypeInit, TypeStep, PTL DEF Spec

----------------------------------------------------------------------------
(* Who waits for whom                                                       *)

\* A thread that holds a mutex has not come to the end of its operation.
LEMMA HolderIsBusy ==
  ASSUME LockAssumption, TypeOK, NEW u \in Threads, NEW m \in Mutexes,
         Holds(u, m, {"R", "W"})
  PROVE  u \in Busy
<1>1. GivesBack(Program[op[u]])
  BY StepsTyped DEF LockAssumption
<1>2. pc[u] # Len(Program[op[u]]) + 1
  BY <1>1 DEF Holds, GivesBack
<1> QED
  BY <1>2 DEF Busy, Done

\* ... and if it waits for another, that one is of a lower level.
LEMMA HolderWantsLower ==
  ASSUME LockAssumption, NestsInOrder, TypeOK, NEW u \in Threads, NEW m \in Mutexes,
         Holds(u, m, {"R", "W"}), op[u] \notin Suspects, Blocked(u)
  PROVE  Level[Now(u).mutex] < Level[m]
<1>1. Disciplined(Program[op[u]])
  BY StepsTyped DEF NestsInOrder
<1>2. pc[u] \in 1..Len(Program[op[u]]) /\ Program[op[u]][pc[u]].do = "lock"
  BY StepsTyped DEF Blocked, Now
<1> QED
  BY <1>1, <1>2 DEF Disciplined, Holds, Now

LEMMA WritersAreHolders ==
  ASSUME NEW u, NEW m, Holds(u, m, {"W"})
  PROVE  Holds(u, m, {"R", "W"})
BY DEF Holds, Keeps

\* Where all that are busy are blocked, and none is suspect, a thread waits
\* for one that waits at a lower level.
LEMMA WaitsForLower ==
  ASSUME LockAssumption, NestsInOrder, TypeOK, \A u \in Busy : Blocked(u) /\ op[u] \notin Suspects,
         NEW t \in Busy
  PROVE  \E u \in Busy : Level[Now(u).mutex] < Level[Now(t).mutex]
<1> DEFINE m == Now(t).mutex
<1>1. Blocked(t) /\ t \in Threads /\ Now(t) \in Step
  BY StepsTyped DEF Busy
<1>2. m \in Mutexes
  BY <1>1 DEF Step
<1>3. ASSUME NEW u \in Threads, Holds(u, m, {"R", "W"})
      PROVE  \E v \in Busy : Level[Now(v).mutex] < Level[m]
  <2>1. u \in Busy
    BY <1>2, <1>3, HolderIsBusy
  <2> QED
    BY <1>2, <1>3, <2>1, HolderWantsLower
<1>4. CASE ~WriterFree(m)
  <2>1. PICK u \in Threads : Holds(u, m, {"W"}) \/ (u \in announced /\ Now(u).mutex = m)
    BY <1>4 DEF WriterFree
  <2>2. CASE Holds(u, m, {"W"})
    BY <1>3, <2>2, WritersAreHolders
  <2>3. CASE u \in announced /\ Now(u).mutex = m
    <3>1. Wants(u, "W") /\ u \in Busy
      BY <2>3 DEF TypeOK, Wants, Busy
    <3>2. Blocked(u)
      BY <3>1
    <3>3. \E v \in Threads : Holds(v, m, {"R", "W"})
      BY <2>3, <3>1, <3>2 DEF Blocked, Wants
    <3> QED
      BY <1>3, <3>3
  <2> QED
    BY <2>1, <2>2, <2>3
<1>5. CASE \E u \in Threads : Holds(u, m, {"R", "W"})
  BY <1>3, <1>5
<1> QED
  BY <1>1, <1>4, <1>5 DEF Blocked

\* Of the busy threads of a deadlock, the one that wants the lowest mutex
\* waits for no thread that keeps to the order.
LEMMA SuspectIn ==
  ASSUME LockAssumption, NestsInOrder, TypeOK
  PROVE  DeadlockNeedsSuspect
<1> SUFFICES ASSUME Deadlocked, \A u \in Busy : op[u] \notin Suspects
             PROVE  FALSE
  BY DEF DeadlockNeedsSuspect
<1> DEFINE T == {Level[Now(t).mutex] : t \in Busy}
<1>1. \A t \in Busy : Blocked(t)
  BY DEF Deadlocked
<1>2. ASSUME NEW t \in Busy PROVE Level[Now(t).mutex] \in Nat
  <2>1. Now(t) \in Step
    BY StepsTyped DEF Busy
  <2> QED
    BY <2>1 DEF Step, LockAssumption
<1>3. T \subseteq Nat /\ T # {}
  BY <1>2 DEF Deadlocked
<1>4. PICK x \in T : \A y \in T : ~(y < x)
  BY <1>3, LeastOf
<1>5. PICK t \in Busy : x = Level[Now(t).mutex]
  BY <1>4
<1>6. \E u \in Busy : Level[Now(u).mutex] < Level[Now(t).mutex]
  BY <1>1, WaitsForLower
<1> QED
  BY <1>4, <1>5, <1>6

\* For all goroutines, operations, mutexes and levels: a deadlock has a
\* suspect in it, because the others take their mutexes in the order of the
\* levels (the nesting of Lock and RLock in the services' methods).
THEOREM SuspectsInEveryDeadlock ==
  ASSUME LockAssumption, NestsInOrder
  PROVE  Spec => []DeadlockNeedsSuspect
<1>1. TypeOK => DeadlockNeedsSuspect
  BY SuspectIn
<1> QED
  BY <1>1, TypeInvariant, PTL

----------------------------------------------------------------------------
(* Programs that keep to the order are built from programs that do.         *)

\* p keeps to the order, gives back what it takes, and takes only mutexes of
\* a level below l.
Nested(p, l) ==
  /\ p \in Seq(Step) /\ GivesBack(p) /\ Disciplined(p)
  /\ \A n \in 1..Len(p) : p[n].do = "lock" => Level[p[n].mutex] < l

LEMMA NothingNests ==
  ASSUME NEW l
  PROVE  Nested(<<>>, l)
BY DEF Nested, GivesBack, Disciplined, Keeps

\* One after the other: the second starts where nothing is held.
LEMMA NestedJoin ==
  ASSUME NEW p, NEW q, NEW l, Nested(p, l), Nested(q, l)
  PROVE  Nested(p \o q, l)
<1> DEFINE r == p \o q
<1>1. p \in Seq(Step) /\ q \in Seq(Step)
  BY DEF Nested
<1>2. /\ r \in Seq(Step) /\ Len(p) \in Nat /\ Len(q) \in Nat /\ Len(r) = Len(p) + Len(q)
      /\ \A n \in 1..Len(p) : r[n] = p[n]
      /\ \A n \in 1..Len(q) : r[Len(p) + n] = q[n]
  BY <1>1
<1> HIDE DEF r
<1>3. ASSUME NEW n \in 1..Len(p), NEW m \in Mutexes, Keeps(r, n, m, {"R", "W"})
      PROVE  Keeps(p, n, m, {"R", "W"})
  <2>1. \A i \in 1..(n - 1) : i \in 1..Len(p) /\ \A j \in (i + 1)..(n - 1) : j \in 1..Len(p)
    BY <1>2
  <2>2. \A i \in 1..(n - 1) : r[i] = p[i] /\ \A j \in (i + 1)..(n - 1) : r[j] = p[j]
    BY <1>2, <2>1
  <2> QED
    BY <1>3, <2>2 DEF Keeps
<1>4. ASSUME NEW n \in 1..(Len(q) + 1), NEW m \in Mutexes, Keeps(r, Len(p) + n, m, {"R", "W"})
      PROVE  Keeps(q, n, m, {"R", "W"})
  <2>1. PICK i \in 1..(Len(p) + n - 1) :
              /\ r[i].do = "lock" /\ r[i].mutex = m /\ r[i].mode \in {"R", "W"}
              /\ \A j \in (i + 1)..(Len(p) + n - 1) : ~(r[j].do = "unlock" /\ r[j].mutex = m)
    BY <1>4 DEF Keeps
  <2>2. CASE i <= Len(p)
    <3>1. i \in 1..Len(p) /\ \A j \in (i + 1)..Len(p) : j \in (i + 1)..(Len(p) + n - 1) /\ j \in 1..Len(p)
      BY <1>2, <2>2
    <3>2. Keeps(p, Len(p) + 1, m, {"R", "W"})
      BY <1>2, <2>1, <3>1 DEF Keeps
    <3> QED
      BY <3>2 DEF Nested, GivesBack
  <2>3. CASE i > Len(p)
    <3>1. /\ i - Len(p) \in 1..(n - 1) /\ i - Len(p) \in 1..Len(q) /\ Len(p) + (i - Len(p)) = i
          /\ \A j \in (i - Len(p) + 1)..(n - 1) :
               Len(p) + j \in (i + 1)..(Len(p) + n - 1) /\ j \in 1..Len(q)
      BY <1>2, <2>3
    <3>2. r[i] = q[i - Len(p)] /\ \A j \in (i - Len(p) + 1)..(n - 1) : r[Len(p) + j] = q[j]
      BY <1>2, <3>1
    <3> QED
      BY <2>1, <3>1, <3>2 DEF Keeps
  <2> QED
    BY <1>2, <2>1, <2>2, <2>3
<1>5. GivesBack(r)
  <2>1. ASSUME NEW m \in Mutexes, Keeps(r, Len(r) + 1, m, {"R", "W"}) PROVE FALSE
    <3>1. Len(r) + 1 = Len(p) + (Len(q) + 1) /\ Len(q) + 1 \in 1..(Len(q) + 1)
      BY <1>2
    <3>2. Keeps(q, Len(q) + 1, m, {"R", "W"})
      BY <1>4, <2>1, <3>1
    <3> QED
      BY <3>2 DEF Nested, GivesBack
  <2> QED
    BY <2>1 DEF GivesBack
<1>6. ASSUME NEW n \in 1..Len(r), r[n].do = "lock"
      PROVE  /\ Level[r[n].mutex] < l
             /\ \A m \in Mutexes : Keeps(r, n, m, {"R", "W"}) => Level[r[n].mutex] < Level[m]
  <2>1. CASE n <= Len(p)
    BY <1>2, <1>3, <1>6, <2>1 DEF Nested, Disciplined
  <2>2. CASE n > Len(p)
    <3>1. n - Len(p) \in 1..Len(q) /\ n - Len(p) \in 1..(Len(q) + 1) /\ Len(p) + (n - Len(p)) = n
      BY <1>2, <2>2
    <3>2. r[n] = q[n - Len(p)]
      BY <1>2, <3>1
    <3>3. \A m \in Mutexes : Keeps(r, n, m, {"R", "W"}) => Keeps(q, n - Len(p), m, {"R", "W"})
      BY <1>4, <3>1
    <3> QED
      BY <1>6, <3>1, <3>2, <3>3 DEF Nested, Disciplined
  <2> QED
    BY <1>2, <2>1, <2>2
<1>7. Nested(r, l)
  BY <1>2, <1>5, <1>6 DEF Nested, Disciplined
<1> QED
  BY <1>7 DEF r

\* Between the lock and the unlock of a mutex of a higher level.
LEMMA NestedSection ==
  ASSUME LockAssumption, NEW m \in Mutexes, NEW mode \in {"R", "W"}, NEW body, NEW l \in Nat,
         Nested(body, Level[m]), Level[m] < l
  PROVE  Nested(<<[do |-> "lock", mutex |-> m, mode |-> mode]>> \o body
                  \o <<[do |-> "unlock", mutex |-> m, mode |-> mode]>>, l)
<1> DEFINE k == [do |-> "lock", mutex |-> m, mode |-> mode]
           u == [do |-> "unlock", mutex |-> m, mode |-> mode]
           r == <<k>> \o body \o <<u>>
<1>1. body \in Seq(Step) /\ k \in Step /\ u \in Step
  BY DEF Nested, Step
<1>2. /\ r \in Seq(Step) /\ Len(body) \in Nat /\ Len(r) = Len(body) + 2
      /\ r[1] = k /\ r[Len(body) + 2] = u
      /\ \A n \in 1..Len(body) : r[n + 1] = body[n]
  BY <1>1
<1>3. k.do = "lock" /\ k.mutex = m /\ u.do = "unlock" /\ u.mutex = m
  OBVIOUS
<1> HIDE DEF r, k, u
<1>4. ASSUME NEW n \in 1..(Len(body) + 1), NEW x \in Mutexes, Keeps(r, n + 1, x, {"R", "W"})
      PROVE  x = m \/ Keeps(body, n, x, {"R", "W"})
  <2>1. PICK i \in 1..n :
              /\ r[i].do = "lock" /\ r[i].mutex = x /\ r[i].mode \in {"R", "W"}
              /\ \A j \in (i + 1)..n : ~(r[j].do = "unlock" /\ r[j].mutex = x)
    <3>1. (n + 1) - 1 = n
      BY <1>2
    <3> QED
      BY <1>4, <3>1 DEF Keeps
  <2>2. CASE i = 1
    BY <1>2, <1>3, <2>1, <2>2
  <2>3. CASE i > 1
    <3>1. PICK c \in 1..(n - 1) : c + 1 = i /\ c \in 1..Len(body)
      BY <1>2, <2>3
    <3>2. \A j \in (c + 1)..(n - 1) : j + 1 \in (i + 1)..n /\ j \in 1..Len(body)
      BY <1>2, <3>1
    <3>3. r[i] = body[c] /\ \A j \in (c + 1)..(n - 1) : r[j + 1] = body[j]
      BY <1>2, <3>1, <3>2
    <3>4. \A j \in (c + 1)..(n - 1) : ~(body[j].do = "unlock" /\ body[j].mutex = x)
      BY <2>1, <3>2, <3>3
    <3> QED
      BY <2>1, <3>1, <3>3, <3>4 DEF Keeps
  <2> QED
    BY <2>1, <2>2, <2>3
<1>5. GivesBack(r)
  <2>1. ASSUME NEW x \in Mutexes, Keeps(r, Len(body) + 3, x, {"R", "W"}) PROVE FALSE
    <3>1. PICK i \in 1..(Len(body) + 2) :
                /\ r[i].do = "lock" /\ r[i].mutex = x /\ r[i].mode \in {"R", "W"}
                /\ \A j \in (i + 1)..(Len(body) + 2) : ~(r[j].do = "unlock" /\ r[j].mutex = x)
      BY <1>2, <2>1 DEF Keeps
    <3>2. i # Len(body) + 2
      BY <1>2, <1>3, <3>1
    <3>3. i \in 1..(Len(body) + 1) /\ Len(body) + 2 \in (i + 1)..(Len(body) + 2)
      BY <1>2, <3>2
    <3>4. x # m
      BY <1>2, <1>3, <3>1, <3>3
    <3>5. \A j \in (i + 1)..(Len(body) + 1) : ~(r[j].do = "unlock" /\ r[j].mutex = x)
      BY <1>2, <3>1
    <3>6. Keeps(r, (Len(body) + 1) + 1, x, {"R", "W"})
      BY <1>2, <3>1, <3>3, <3>5 DEF Keeps
    <3>7. Len(body) + 1 \in 1..(Len(body) + 1)
      BY <1>2
    <3>8. Keeps(body, Len(body) + 1, x, {"R", "W"})
      BY <1>4, <3>4, <3>6, <3>7
    <3> QED
      BY <3>8 DEF Nested, GivesBack
  <2>2. Len(r) + 1 = Len(body) + 3
    BY <1>2
  <2> QED
    BY <2>1, <2>2 DEF GivesBack
<1>6. ASSUME NEW n \in 1..Len(r), r[n].do = "lock"
      PROVE  /\ Level[r[n].mutex] < l
             /\ \A x \in Mutexes : Keeps(r, n, x, {"R", "W"}) => Level[r[n].mutex] < Level[x]
  <2>1. CASE n = 1
    BY <1>2, <1>3, <2>1 DEF Keeps
  <2>2. CASE n \in 2..(Len(body) + 1)
    <3>1. n - 1 \in 1..Len(body) /\ n - 1 \in 1..(Len(body) + 1) /\ (n - 1) + 1 = n
      BY <1>2, <2>2
    <3>2. r[n] = body[n - 1]
      BY <1>2, <3>1
    <3>3. body[n - 1] \in Step
      BY <1>1, <3>1
    <3>4. Level[r[n].mutex] < Level[m]
      BY <1>6, <3>1, <3>2 DEF Nested
    <3>5. Level[r[n].mutex] \in Nat /\ Level[m] \in Nat
      BY <3>2, <3>3 DEF LockAssumption, Step
    <3>6. \A x \in Mutexes : Keeps(r, n, x, {"R", "W"}) => x = m \/ Keeps(body, n - 1, x, {"R", "W"})
      BY <1>4, <3>1
    <3>7. \A x \in Mutexes : Keeps(body, n - 1, x, {"R", "W"}) => Level[r[n].mutex] < Level[x]
      BY <1>6, <3>1, <3>2 DEF Nested, Disciplined
    <3> QED
      BY <3>4, <3>5, <3>6, <3>7
  <2>3. n # Len(body) + 2
    BY <1>2, <1>3, <1>6
  <2> QED
    BY <1>2, <2>1, <2>2, <2>3
<1>7. Nested(r, l)
  BY <1>2, <1>5, <1>6 DEF Nested, Disciplined
<1> QED
  BY <1>7 DEF r, k, u
=============================================================================
