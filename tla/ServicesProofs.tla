--------------------------- MODULE ServicesProofs ---------------------------
(***************************************************************************)
(* The services that serve requests keep what they promise, whatever their  *)
(* parameters: for each part of Services an invariant that its initial      *)
(* states have and its steps keep, the properties that follow from it, and   *)
(* the theorem that every behaviour of Services has them.                   *)
(***************************************************************************)
EXTENDS Services, Integers, FiniteSetTheorems, TLAPS

----------------------------------------------------------------------------
(* The instances have copies of the library's operators.                    *)
\* Cardinality and IsFiniteSet are the same in the instance of the pool.
LEMMA ClientsSets == \A S : /\ Clients!Cardinality(S) = Cardinality(S)
                            /\ Clients!IsFiniteSet(S) <=> IsFiniteSet(S)
BY DEF Clients!Cardinality, Cardinality, Clients!IsFiniteSet, IsFiniteSet

----------------------------------------------------------------------------
(* The pool of HTTP clients                                                 *)

\* Those of G who owe d.
Who(G, f, d) == {x \in G : f[x] = d}
\* h is f but for what g of G owes.
ButFor(G, f, g, a, h) == \A x \in G : h[x] = IF x = g THEN a ELSE f[x]

\* When one of finitely many goroutines has another deed to count, the number
\* that have a given one changes by that goroutine.
LEMMA OneOwesAnother ==
  ASSUME NEW G, IsFiniteSet(G), NEW f, NEW g \in G, NEW a, NEW h,
         ButFor(G, f, g, a, h), NEW d
  PROVE  /\ Cardinality(Who(G, f, d)) \in Nat
         /\ Cardinality(Who(G, h, d)) =
              Cardinality(Who(G, f, d))
                + (IF a = d /\ f[g] # d THEN 1 ELSE IF a # d /\ f[g] = d THEN -1 ELSE 0)
<1> DEFINE F == {x \in G : f[x] = d}
           H == {x \in G : h[x] = d}
<1> USE DEF Who, ButFor
<1>1. IsFiniteSet(F) /\ Cardinality(F) \in Nat
  BY FS_Subset, FS_CardinalityType
<1>2. h[g] = a /\ \A x \in G : x # g => h[x] = f[x]
  OBVIOUS
<1>3. CASE a = d /\ f[g] # d
  <2>1. H = F \cup {g} /\ g \notin F
    BY <1>2, <1>3
  <2> QED
    BY <1>1, <1>3, <2>1, FS_AddElement
<1>4. CASE a # d /\ f[g] = d
  <2>1. H = F \ {g} /\ g \in F
    BY <1>2, <1>4
  <2> QED
    BY <1>1, <1>4, <2>1, FS_RemoveElement
<1>5. CASE (a = d) <=> (f[g] = d)
  <2>1. H = F
    BY <1>2, <1>5
  <2> QED
    BY <1>1, <1>5, <2>1
<1> QED
  BY <1>3, <1>4, <1>5

\* What is taken and made stays within the limits of the pool.
ClientsInv ==
  Clients!TypeOK /\ Clients!ActiveAreAccountedFor

\* The pool starts within its bounds and with nobody served.
LEMMA ClientsInit == Clients!Init => ClientsInv
<1> SUFFICES ASSUME Clients!Init PROVE ClientsInv
  OBVIOUS
<1>1. clients.maxSize \in Nat
  BY ServicesAssumption DEF ServicesAssumption, Clients!PoolAssumption
<1>0. clients.maxSize \div 2 \in 0..clients.maxSize
  BY <1>1
<1>2. Clients!Cardinality({}) = 0
  BY ClientsSets, FS_EmptySet
<1>3. Clients!Owing("created") = {} /\ Clients!Owing("closed") = {}
  BY DEF Clients!Init, Clients!Owing
<1>4. Clients!TypeOK
  BY <1>0, <1>1 DEF Clients!Init, Clients!TypeOK, Clients!Half, Clients!Deeds
<1>5. Clients!ActiveAreAccountedFor
  <2>1. v5.TotalCreated = clients.maxSize \div 2 /\ v5.TotalClosed = 0 /\ v2 = {} /\ v1 = clients.maxSize \div 2
    BY DEF Clients!Init, Clients!Half
  <2>2. /\ Clients!Cardinality(v2) = 0 /\ Clients!Cardinality(Clients!Owing("created")) = 0
        /\ Clients!Cardinality(Clients!Owing("closed")) = 0
    BY <1>2, <1>3, <2>1, Zenon
  <2> QED
    BY <1>0, <1>1, <2>1, <2>2 DEF Clients!ActiveAreAccountedFor, Clients!CurrentActive
<1> QED
  BY <1>4, <1>5 DEF ClientsInv

\* Each step of a user, of the cleanup and of Stop keeps the accounts.
LEMMA ClientsNext == ClientsInv /\ [Clients!Next]_(Clients!vars) => ClientsInv'
<1> SUFFICES ASSUME ClientsInv, [Clients!Next]_(Clients!vars) PROVE ClientsInv'
  OBVIOUS
<1> USE DEF ClientsInv
<1> DEFINE created == Cardinality(Clients!Owing("created"))
           closed == Cardinality(Clients!Owing("closed"))
           out == Cardinality(v2)
<1>1. /\ clients.maxSize \in Nat /\ IsFiniteSet(clients.Users)
      /\ \A S : Clients!Cardinality(S) = Cardinality(S)
  BY ServicesAssumption, ClientsSets DEF ServicesAssumption, Clients!PoolAssumption
<1>2. IsFiniteSet(Clients!Goroutines)
  <2>1. IsFiniteSet({Clients!Cleaner, Clients!Stopper})
    <3>1. {Clients!Cleaner, Clients!Stopper} = {Clients!Cleaner} \cup {Clients!Stopper}
      OBVIOUS
    <3>2. IsFiniteSet({Clients!Cleaner}) /\ IsFiniteSet({Clients!Stopper})
      BY FS_Singleton
    <3> QED
      BY <3>1, <3>2, FS_Union
  <2> QED
    BY <1>1, <2>1, FS_Union DEF Clients!Goroutines
<1>3. v2 \subseteq clients.Users /\ IsFiniteSet(v2)
  BY <1>1, FS_Subset DEF Clients!TypeOK
<1>4. out \in Nat /\ created \in Nat /\ closed \in Nat
  <2>1. IsFiniteSet(Clients!Owing("created")) /\ IsFiniteSet(Clients!Owing("closed"))
    BY <1>2, FS_Subset DEF Clients!Owing
  <2> QED
    BY <1>3, <2>1, FS_CardinalityType
<1>5. DOMAIN v4 = Clients!Goroutines
  BY DEF Clients!TypeOK
<1>6. Clients!ActiveAreAccountedFor <=>
        v5.TotalCreated - v5.TotalClosed + created = out + v1 + closed
  BY <1>1 DEF Clients!ActiveAreAccountedFor, Clients!CurrentActive
<1>7. Clients!ActiveAreAccountedFor' <=>
        v5'.TotalCreated - v5'.TotalClosed + created' = out' + v1' + closed'
  BY <1>1 DEF Clients!ActiveAreAccountedFor, Clients!CurrentActive
<1>who. /\ created = Cardinality(Who(Clients!Goroutines, v4, "created"))
        /\ closed = Cardinality(Who(Clients!Goroutines, v4, "closed"))
        /\ created' = Cardinality(Who(Clients!Goroutines, v4', "created"))
        /\ closed' = Cardinality(Who(Clients!Goroutines, v4', "closed"))
  BY DEF Clients!Owing, Who, Clients!Goroutines, Clients!Cleaner, Clients!Stopper
<1> HIDE DEF created, closed, out
<1>does. ASSUME NEW g \in Clients!Goroutines, NEW deed \in Clients!Deeds, Clients!Does(g, deed)
         PROVE  /\ v4' \in [Clients!Goroutines -> Clients!Deeds]
                /\ created' = IF deed = "created" THEN created + 1 ELSE created
                /\ closed' = IF deed = "closed" THEN closed + 1 ELSE closed
  <2>1. v4' = [v4 EXCEPT ![g] = deed] /\ v4[g] = "nothing"
    BY <1>does DEF Clients!Does
  <2>5. ButFor(Clients!Goroutines, v4, g, deed, v4')
    BY <1>5, <2>1 DEF ButFor
  <2>2. Cardinality(Who(Clients!Goroutines, v4', "created"))
          = created + (IF deed = "created" THEN 1 ELSE 0)
    <3>1. Cardinality(Who(Clients!Goroutines, v4', "created")) =
            Cardinality(Who(Clients!Goroutines, v4, "created"))
              + (IF deed = "created" /\ v4[g] # "created" THEN 1
                 ELSE IF deed # "created" /\ v4[g] = "created" THEN -1 ELSE 0)
      BY <1>2, <2>5, OneOwesAnother
    <3>2. v4[g] # "created"
      BY <2>1
    <3> QED
      BY <1>4, <1>who, <3>1, <3>2
  <2>3. Cardinality(Who(Clients!Goroutines, v4', "closed"))
          = closed + (IF deed = "closed" THEN 1 ELSE 0)
    <3>1. Cardinality(Who(Clients!Goroutines, v4', "closed")) =
            Cardinality(Who(Clients!Goroutines, v4, "closed"))
              + (IF deed = "closed" /\ v4[g] # "closed" THEN 1
                 ELSE IF deed # "closed" /\ v4[g] = "closed" THEN -1 ELSE 0)
      BY <1>2, <2>5, OneOwesAnother
    <3>2. v4[g] # "closed"
      BY <2>1
    <3> QED
      BY <1>4, <1>who, <3>1, <3>2
  <2> QED
    BY <1>4, <1>who, <2>1, <2>2, <2>3 DEF Clients!TypeOK
<1>same. ASSUME v4' = v4 PROVE created' = created /\ closed' = closed
  BY <1>same DEF created, closed, Clients!Owing
<1>8. CASE UNCHANGED Clients!vars
  BY <1>6, <1>7, <1>8, <1>same DEF Clients!vars, Clients!TypeOK, out
<1>9. ASSUME NEW u \in clients.Users, Clients!Get(u) PROVE ClientsInv'
  <2>1. v2' = v2 \cup {u} /\ out' = out + 1
    BY <1>3, <1>9, FS_AddElement DEF Clients!Get, out
  <2>2. \/ v1 > 0 /\ v1' = v1 - 1 /\ Clients!Does(u, "reused")
        \/ v1' = v1 /\ Clients!Does(u, "created")
    BY <1>9 DEF Clients!Get
  <2>3. u \in Clients!Goroutines /\ "reused" \in Clients!Deeds /\ "created" \in Clients!Deeds
    BY DEF Clients!Goroutines, Clients!Deeds
  <2>4. UNCHANGED <<v3, v5, v6, v7>>
    BY <1>9 DEF Clients!Get
  <2> QED
    BY <1>1, <1>4, <1>6, <1>7, <2>1, <2>2, <2>3, <2>4, <1>does DEF Clients!TypeOK
<1>10. ASSUME NEW u \in clients.Users, Clients!Put(u) PROVE ClientsInv'
  <2>1. v2' = v2 \ {u} /\ out' = out - 1
    BY <1>3, <1>10, FS_RemoveElement DEF Clients!Put, out
  <2>2. \/ v1 < clients.maxSize /\ v1' = v1 + 1 /\ Clients!Does(u, "returned")
        \/ v1' = v1 /\ Clients!Does(u, "closed")
    BY <1>10 DEF Clients!Put
  <2>3. u \in Clients!Goroutines /\ "returned" \in Clients!Deeds /\ "closed" \in Clients!Deeds
    BY DEF Clients!Goroutines, Clients!Deeds
  <2>4. UNCHANGED <<v3, v5, v6, v7>>
    BY <1>10 DEF Clients!Put
  <2> QED
    BY <1>1, <1>4, <1>6, <1>7, <2>1, <2>2, <2>3, <2>4, <1>does DEF Clients!TypeOK
<1>11. ASSUME NEW g \in Clients!Goroutines, Clients!UpdateStats(g) PROVE ClientsInv'
  <2>1. v4' = [v4 EXCEPT ![g] = "nothing"] /\ UNCHANGED <<v1, v2, v3, v6, v7>>
    BY <1>11 DEF Clients!UpdateStats
  <2>2. v4' \in [Clients!Goroutines -> Clients!Deeds]
    BY <2>1 DEF Clients!TypeOK, Clients!Deeds
  <2>8. ButFor(Clients!Goroutines, v4, g, "nothing", v4')
    BY <1>5, <2>1 DEF ButFor
  <2>3. created' = created + (IF v4[g] = "created" THEN -1 ELSE 0)
    BY <1>2, <1>4, <1>who, <2>8, OneOwesAnother
  <2>4. closed' = closed + (IF v4[g] = "closed" THEN -1 ELSE 0)
    BY <1>2, <1>4, <1>who, <2>8, OneOwesAnother
  <2>5. \/ v4[g] = "reused" /\ Clients!Counts(1, 0, 0)
        \/ v4[g] = "created" /\ Clients!Counts(0, 1, 0)
        \/ v4[g] = "returned" /\ Clients!Counts(-1, 0, 0)
        \/ v4[g] = "closed" /\ Clients!Counts(0, 0, 1)
    BY <1>11 DEF Clients!UpdateStats
  <2>6. out' = out
    BY <2>1 DEF out
  <2>7. /\ v5' \in [TotalReused : Int, TotalCreated : Nat, TotalClosed : Nat]
        /\ v5'.TotalCreated - v5'.TotalClosed + created' = out' + v1' + closed'
    BY <1>4, <1>6, <2>1, <2>3, <2>4, <2>5, <2>6 DEF Clients!TypeOK, Clients!Counts
  <2> QED
    BY <1>7, <2>1, <2>2, <2>7 DEF Clients!TypeOK
<1>12. CASE Clients!CleanupBegins
  BY <1>1, <1>6, <1>7, <1>12, <1>same DEF Clients!CleanupBegins, Clients!TypeOK, Clients!Half, out
<1>13. CASE Clients!CleanupCloses
  <2>1. \/ v1 > 0 /\ v1' = v1 - 1 /\ Clients!Does(Clients!Cleaner, "closed")
        \/ v1' = v1 /\ v4' = v4
    BY <1>13 DEF Clients!CleanupCloses
  <2>2. v3 > 0 /\ v3' = v3 - 1 /\ UNCHANGED <<v2, v5, v6, v7>> /\ out' = out
    BY <1>13 DEF Clients!CleanupCloses, out
  <2>3. Clients!Cleaner \in Clients!Goroutines /\ "closed" \in Clients!Deeds
    BY DEF Clients!Goroutines, Clients!Deeds
  <2> QED
    BY <1>1, <1>4, <1>6, <1>7, <2>1, <2>2, <2>3, <1>does, <1>same DEF Clients!TypeOK
<1>14. CASE Clients!UpdatePeak
  BY <1>6, <1>7, <1>14, <1>same DEF Clients!UpdatePeak, Clients!TypeOK, Clients!CurrentActive, out
<1>15. CASE Clients!StopBegins
  BY <1>6, <1>7, <1>15, <1>same DEF Clients!StopBegins, Clients!TypeOK, out
<1>16. CASE Clients!StopDrains
  <2>1. \/ v1 > 0 /\ v1' = v1 - 1 /\ Clients!Does(Clients!Stopper, "closed") /\ v7' = v7
        \/ v1' = v1 /\ v4' = v4 /\ v7' = "done"
    BY <1>16 DEF Clients!StopDrains
  <2>2. UNCHANGED <<v2, v3, v5, v6>> /\ out' = out
    BY <1>16 DEF Clients!StopDrains, out
  <2>3. Clients!Stopper \in Clients!Goroutines /\ "closed" \in Clients!Deeds
    BY DEF Clients!Goroutines, Clients!Deeds
  <2> QED
    BY <1>1, <1>4, <1>6, <1>7, <2>1, <2>2, <2>3, <1>does, <1>same DEF Clients!TypeOK
<1> QED
  BY <1>8, <1>9, <1>10, <1>11, <1>12, <1>13, <1>14, <1>15, <1>16 DEF Clients!Next

\* Whatever the users, the cleanup and Stop do to the pool in whichever order,
\* the clients it counts as active are those in use and those it has.
THEOREM ClientsAreAccountedFor == Spec => []ActiveAreAccountedFor
<1> DEFINE Inv == part = "clients" => ClientsInv
<1>1. Init => Inv
  BY ClientsInit DEF Init
<1>2. Inv /\ [Next]_vars => Inv'
  BY ClientsNext DEF Next, vars, Clients!vars
<1>3. Inv => ActiveAreAccountedFor
  BY DEF ActiveAreAccountedFor, ClientsInv
<1> QED
  BY <1>1, <1>2, <1>3, PTL DEF Spec

----------------------------------------------------------------------------
(* The rate limiter                                                         *)

\* The same for the instance of the rate limiter.
LEMMA LimiterSets == \A S : /\ Limiter!Cardinality(S) = Cardinality(S)
                            /\ Limiter!IsFiniteSet(S) <=> IsFiniteSet(S)
BY DEF Limiter!Cardinality, Cardinality, Limiter!IsFiniteSet, IsFiniteSet

\* A request that has still to take has a bucket left to take from; the one it
\* is about to take from exists; and a bucket was refilled in the past.
LimiterInv ==
  /\ Limiter!TypeOK /\ Limiter!RequestsAddUp
  /\ v1 \in [DOMAIN v1 -> [tokens : Nat, lastRefill : Nat]]
  /\ \A b \in DOMAIN v1 : v1[b].lastRefill <= v4
  /\ v2 \in [limiter.Requests -> [pc : {"new", "find", "take", "allow", "block", "done"}, passed : Nat]]
  /\ \A r \in limiter.Requests :
       /\ v2[r].pc \in {"new", "find", "take"} => v2[r].passed < Len(Limiter!Path(r))
       /\ v2[r].pc = "take" => Limiter!Bucket(r) \in DOMAIN v1

\* Every request passes at least one limiter.
LEMMA LimiterPaths ==
  ASSUME NEW r \in limiter.Requests
  PROVE  Len(Limiter!Path(r)) \in Nat /\ 0 < Len(Limiter!Path(r))
<1> DEFINE S == STRING \cup {"global", "main"}
<1>1. limiter.Route[r] \in Seq(S)
  <2>1. limiter.Route[r] \in Seq(STRING)
    BY ServicesAssumption DEF ServicesAssumption, Limiter!LimiterAssumption
  <2> QED
    BY <2>1
<1>2. "global" \in S /\ "main" \in S
  OBVIOUS
<1> HIDE DEF S
<1>3. <<"global">> \o limiter.Route[r] \in Seq(S)
  BY <1>1, <1>2
<1> QED
  BY <1>2, <1>3 DEF Limiter!Path

\* A bucket holds no more than its capacity when it is taken from.
LEMMA RefilledIsBounded ==
  ASSUME LimiterInv, NEW b \in DOMAIN v1
  PROVE  Limiter!Refilled(b) \in 0..limiter.BurstSize
<1>1. limiter.BurstSize \in Nat /\ limiter.Rate \in Nat
  BY ServicesAssumption DEF ServicesAssumption, Limiter!LimiterAssumption
<1>2. v4 \in Nat /\ v1[b].lastRefill \in Nat /\ v1[b].lastRefill <= v4
  BY DEF LimiterInv, Limiter!TypeOK
<1>3. \A m, n \in Nat : m * n \in Nat
  OBVIOUS
<1>4. (v4 - v1[b].lastRefill) * limiter.Rate \in Nat
  BY <1>1, <1>2, <1>3
<1> QED
  BY <1>1, <1>4 DEF Limiter!Refilled

\* The buckets start full and unused.
LEMMA LimiterInit == Limiter!Init => LimiterInv
<1> SUFFICES ASSUME Limiter!Init PROVE LimiterInv
  OBVIOUS
<1>1. /\ limiter.BurstSize \in Nat /\ limiter.MaxTime \in Nat /\ limiter.MaxResets \in Nat
      /\ Limiter!Cardinality({}) = 0
  BY ServicesAssumption, LimiterSets, FS_EmptySet DEF ServicesAssumption, Limiter!LimiterAssumption
<1>2. \A r \in limiter.Requests : Len(Limiter!Path(r)) \in Nat /\ 0 < Len(Limiter!Path(r))
  BY LimiterPaths
<1>3. Limiter!UnderWay = {}
  BY DEF Limiter!Init, Limiter!UnderWay
<1>4. Limiter!RequestsAddUp
  BY <1>1, <1>3 DEF Limiter!Init, Limiter!RequestsAddUp, Limiter!Zero
<1>5. Limiter!TypeOK
  <2> USE <1>1 DEF Limiter!Init, Limiter!Zero
  <2>1. \A b \in DOMAIN v1 : v1[b] \in [tokens : 0..limiter.BurstSize, lastRefill : 0..limiter.MaxTime]
    OBVIOUS
  <2>2. \A r \in limiter.Requests : /\ v2[r].pc \in {"new", "find", "take", "allow", "block", "done"}
                                    /\ v2[r].passed \in 0..Len(Limiter!Path(r))
    BY <1>2
  <2>3. {"global", "main"} \subseteq DOMAIN v1
    OBVIOUS
  <2>4. v3 \in [TotalRequests : Nat, AllowedRequests : Nat, BlockedRequests : Nat]
    OBVIOUS
  <2>5. v4 \in 0..limiter.MaxTime /\ v5 \in 0..limiter.MaxResets
    OBVIOUS
  <2>6. v6 \in BOOLEAN
    OBVIOUS
  <2> QED
    BY <2>1, <2>2, <2>3, <2>4, <2>5, <2>6 DEF Limiter!TypeOK
<1> QED
  BY <1>1, <1>2, <1>4, <1>5 DEF Limiter!Init, LimiterInv

\* Requests under way come and go one at a time.
LEMMA UnderWayCounted ==
  ASSUME LimiterInv, NEW r \in limiter.Requests, NEW k,
         v2' = [v2 EXCEPT ![r] = k]
  PROVE  LET new == Cardinality(Limiter!UnderWay')  old == Cardinality(Limiter!UnderWay)
             stays == {"find", "take", "allow", "block"} IN
         /\ new \in Nat /\ old \in Nat
         /\ v2[r].pc \in stays /\ k.pc \in stays => new = old
         /\ v2[r].pc \notin stays /\ k.pc \in stays => new = old + 1
         /\ v2[r].pc \in stays /\ k.pc \notin stays => new = old - 1
<1> DEFINE new == Limiter!UnderWay'  old == Limiter!UnderWay
<1>1. IsFiniteSet(limiter.Requests)
  BY ServicesAssumption, LimiterSets DEF ServicesAssumption, Limiter!LimiterAssumption
<1>2. IsFiniteSet(old) /\ IsFiniteSet(new)
  BY <1>1, FS_Subset DEF Limiter!UnderWay
<1>3. \A q \in limiter.Requests : v2'[q].pc = IF q = r THEN k.pc ELSE v2[q].pc
  BY DEF LimiterInv
<1>4. CASE v2[r].pc \in {"find", "take", "allow", "block"} /\ k.pc \in {"find", "take", "allow", "block"}
  <2>1. new = old
    BY <1>3, <1>4 DEF Limiter!UnderWay
  <2> QED
    BY <1>2, <1>4, <2>1, FS_CardinalityType
<1>5. CASE v2[r].pc \notin {"find", "take", "allow", "block"} /\ k.pc \in {"find", "take", "allow", "block"}
  <2>1. new = old \cup {r} /\ r \notin old
    BY <1>3, <1>5 DEF Limiter!UnderWay
  <2> QED
    BY <1>2, <1>5, <2>1, FS_CardinalityType, FS_AddElement
<1>6. CASE v2[r].pc \in {"find", "take", "allow", "block"} /\ k.pc \notin {"find", "take", "allow", "block"}
  <2>1. new = old \ {r} /\ r \in old
    BY <1>3, <1>6 DEF Limiter!UnderWay
  <2> QED
    BY <1>2, <1>6, <2>1, FS_CardinalityType, FS_RemoveElement
<1> QED
  BY <1>2, <1>4, <1>5, <1>6, FS_CardinalityType

\* A request that moves on, without a bucket.
LEMMA RequestMoves ==
  ASSUME LimiterInv, NEW r \in limiter.Requests, NEW k,
         k \in [pc : {"new", "find", "take", "allow", "block", "done"}, passed : 0..Len(Limiter!Path(r))],
         v2' = [v2 EXCEPT ![r] = k], UNCHANGED <<v4, v5, v6>>,
         k.pc \in {"find", "take"} => k.passed < Len(Limiter!Path(r)), k.pc # "new",
         k.pc = "take" => Limiter!Path(r)[k.passed + 1] \in DOMAIN v1',
         DOMAIN v1 \subseteq DOMAIN v1',
         v1' \in [DOMAIN v1' -> [tokens : 0..limiter.BurstSize, lastRefill : 0..limiter.MaxTime]],
         \A b \in DOMAIN v1' : v1'[b].lastRefill <= v4,
         v3' \in [TotalRequests : Nat, AllowedRequests : Nat, BlockedRequests : Nat],
         Limiter!RequestsAddUp'
  PROVE  LimiterInv'
<1> USE DEF LimiterInv
<1>1. Len(Limiter!Path(r)) \in Nat /\ limiter.BurstSize \in Nat /\ limiter.MaxTime \in Nat
  BY LimiterPaths, ServicesAssumption DEF ServicesAssumption, Limiter!LimiterAssumption
<1>2. /\ v2' \in [limiter.Requests -> [pc : {"new", "find", "take", "allow", "block", "done"}, passed : Nat]]
      /\ v2'[r] = k /\ \A q \in limiter.Requests \ {r} : v2'[q] = v2[q]
  BY <1>1
<1>3. v1' \in [DOMAIN v1' -> [tokens : Nat, lastRefill : Nat]]
  BY <1>1
<1>4. Limiter!TypeOK'
  BY <1>1, <1>2 DEF Limiter!TypeOK
<1>5. ASSUME NEW q \in limiter.Requests
      PROVE  /\ v2'[q].pc \in {"new", "find", "take"} => v2'[q].passed < Len(Limiter!Path(q))
             /\ v2'[q].pc = "take" => Limiter!Bucket(q)' \in DOMAIN v1'
  BY <1>2 DEF Limiter!Bucket
<1> QED
  BY <1>2, <1>3, <1>4, <1>5

\* One step of one request.
LEMMA LimiterRequest ==
  ASSUME LimiterInv, NEW r \in limiter.Requests,
         Limiter!Arrive(r) \/ Limiter!Find(r) \/ Limiter!Take(r) \/ Limiter!Decide(r)
  PROVE  LimiterInv'
<1> DEFINE new == Cardinality(Limiter!UnderWay')  old == Cardinality(Limiter!UnderWay)
<1>1. /\ limiter.BurstSize \in Nat \ {0} /\ limiter.MaxTime \in Nat
      /\ Len(Limiter!Path(r)) \in Nat
  BY LimiterPaths, ServicesAssumption DEF ServicesAssumption, Limiter!LimiterAssumption
<1>2. /\ Limiter!RequestsAddUp <=> (v6 \/ v3.TotalRequests = v3.AllowedRequests + v3.BlockedRequests + old)
      /\ Limiter!RequestsAddUp' <=> (v6' \/ v3'.TotalRequests = v3'.AllowedRequests + v3'.BlockedRequests + new)
  BY LimiterSets DEF Limiter!RequestsAddUp
<1>3. /\ v3 \in [TotalRequests : Nat, AllowedRequests : Nat, BlockedRequests : Nat]
      /\ v4 \in 0..limiter.MaxTime
      /\ v1 \in [DOMAIN v1 -> [tokens : 0..limiter.BurstSize, lastRefill : 0..limiter.MaxTime]]
      /\ \A b \in DOMAIN v1 : v1[b].lastRefill <= v4
      /\ v2[r] \in [pc : {"new", "find", "take", "allow", "block", "done"}, passed : 0..Len(Limiter!Path(r))]
  BY DEF Limiter!TypeOK, LimiterInv
<1>4. /\ v2[r].pc \in {"new", "find", "take"} => v2[r].passed < Len(Limiter!Path(r))
      /\ v2[r].pc = "take" => Limiter!Bucket(r) \in DOMAIN v1
      /\ Limiter!RequestsAddUp
  BY DEF LimiterInv
<1> HIDE DEF new, old
<1>5. CASE Limiter!Arrive(r)
  <2> DEFINE k == [v2[r] EXCEPT !.pc = "find"]
  <2>1. /\ v2' = [v2 EXCEPT ![r] = k] /\ v2[r].pc = "new"
        /\ v3' = [v3 EXCEPT !.TotalRequests = @ + 1] /\ UNCHANGED <<v1, v4, v5, v6>>
    BY <1>5 DEF Limiter!Arrive, Limiter!Count
  <2>2. k \in [pc : {"find"}, passed : 0..Len(Limiter!Path(r))] /\ k.passed = v2[r].passed
    BY <1>3
  <2> HIDE DEF k
  <2>3. new = old + 1 /\ old \in Nat
    BY <2>1, <2>2, UnderWayCounted DEF new, old
  <2>4. Limiter!RequestsAddUp'
    <3>1. v3.TotalRequests = v3.AllowedRequests + v3.BlockedRequests + old
            => v3'.TotalRequests = v3'.AllowedRequests + v3'.BlockedRequests + new
      BY <1>3, <2>1, <2>3
    <3>2. v6' = v6
      BY <2>1
    <3> QED
      BY <1>2, <1>4, <3>1, <3>2, Zenon
  <2>5. v3' \in [TotalRequests : Nat, AllowedRequests : Nat, BlockedRequests : Nat]
    BY <1>3, <2>1
  <2> QED
    BY <1>3, <1>4, <2>1, <2>2, <2>4, <2>5, RequestMoves
<1>6. CASE Limiter!Find(r)
  <2> DEFINE k == [v2[r] EXCEPT !.pc = "take"]
  <2>1. /\ v2' = [v2 EXCEPT ![r] = k] /\ v2[r].pc = "find"
        /\ v1' = [b \in DOMAIN v1 \cup {Limiter!Bucket(r)} |-> IF b \in DOMAIN v1 THEN v1[b] ELSE Limiter!Full]
        /\ UNCHANGED <<v3, v4, v5, v6>>
    BY <1>6 DEF Limiter!Find
  <2>2. k \in [pc : {"take"}, passed : 0..Len(Limiter!Path(r))] /\ k.passed = v2[r].passed
    BY <1>3
  <2> HIDE DEF k
  <2>3. new = old
    BY <2>1, <2>2, UnderWayCounted DEF new, old
  <2>4. Limiter!RequestsAddUp'
    BY <1>2, <1>3, <1>4, <2>1, <2>3
  <2>5. /\ v1' \in [DOMAIN v1' -> [tokens : 0..limiter.BurstSize, lastRefill : 0..limiter.MaxTime]]
        /\ \A b \in DOMAIN v1' : v1'[b].lastRefill <= v4
    BY <1>1, <1>3, <2>1 DEF Limiter!Full
  <2>6. DOMAIN v1 \subseteq DOMAIN v1' /\ Limiter!Path(r)[k.passed + 1] \in DOMAIN v1'
    BY <2>1, <2>2 DEF Limiter!Bucket
  <2> QED
    BY <1>3, <1>4, <2>1, <2>2, <2>4, <2>5, <2>6, RequestMoves
<1>7. CASE Limiter!Take(r)
  <2> DEFINE b == Limiter!Bucket(r)  passed == v2[r].passed + 1
             had == Limiter!Refilled(b)
             k == IF had < 1 THEN [pc |-> "block", passed |-> passed]
                  ELSE [pc |-> IF passed = Len(Limiter!Path(r)) THEN "allow" ELSE "find", passed |-> passed]
  <2>1. b \in DOMAIN v1 /\ v2[r].pc = "take" /\ v2[r].passed < Len(Limiter!Path(r))
    BY <1>4, <1>7 DEF Limiter!Take
  <2>2. Limiter!Refilled(b) \in 0..limiter.BurstSize
    BY <2>1, RefilledIsBounded
  <2> HIDE DEF passed
  <2>3. /\ v2' = [v2 EXCEPT ![r] = k] /\ UNCHANGED <<v3, v4, v5, v6>>
        /\ v1' = [v1 EXCEPT ![b] = [tokens |-> IF had >= 1 THEN had - 1 ELSE had, lastRefill |-> v4]]
    BY <1>7 DEF Limiter!Take, passed
  <2>4. /\ k \in [pc : {"allow", "find", "block"}, passed : 0..Len(Limiter!Path(r))]
        /\ k.pc = "find" => k.passed < Len(Limiter!Path(r))
    BY <1>1, <1>3, <2>1 DEF passed
  <2> HIDE DEF k
  <2>5. new = old
    BY <2>1, <2>3, <2>4, UnderWayCounted DEF new, old
  <2>6. Limiter!RequestsAddUp'
    BY <1>2, <1>3, <1>4, <2>3, <2>5
  <2>7. /\ v1' \in [DOMAIN v1' -> [tokens : 0..limiter.BurstSize, lastRefill : 0..limiter.MaxTime]]
        /\ DOMAIN v1' = DOMAIN v1 /\ \A a \in DOMAIN v1' : v1'[a].lastRefill <= v4
    BY <1>1, <1>3, <2>1, <2>2, <2>3
  <2> QED
    BY <1>3, <2>3, <2>4, <2>6, <2>7, RequestMoves
<1>8. CASE Limiter!Decide(r)
  <2> DEFINE k == [v2[r] EXCEPT !.pc = "done"]
  <2>1. /\ v2' = [v2 EXCEPT ![r] = k] /\ v2[r].pc \in {"allow", "block"}
        /\ \/ v3' = [v3 EXCEPT !.AllowedRequests = @ + 1]
           \/ v3' = [v3 EXCEPT !.BlockedRequests = @ + 1]
        /\ UNCHANGED <<v1, v4, v5, v6>>
    BY <1>3, <1>8 DEF Limiter!Decide, Limiter!Count
  <2>2. k \in [pc : {"done"}, passed : 0..Len(Limiter!Path(r))]
    BY <1>3
  <2> HIDE DEF k
  <2>3. new = old - 1 /\ old \in Nat
    BY <2>1, <2>2, UnderWayCounted DEF new, old
  <2>4. Limiter!RequestsAddUp'
    <3>1. v3.TotalRequests = v3.AllowedRequests + v3.BlockedRequests + old
            => v3'.TotalRequests = v3'.AllowedRequests + v3'.BlockedRequests + new
      <4>1. /\ v3'.TotalRequests = v3.TotalRequests
            /\ v3'.AllowedRequests + v3'.BlockedRequests = v3.AllowedRequests + v3.BlockedRequests + 1
            /\ v3.AllowedRequests + v3.BlockedRequests \in Nat
        BY <1>3, <2>1
      <4> QED
        BY <1>3, <2>3, <4>1
    <3>2. v6' = v6
      BY <2>1
    <3> QED
      BY <1>2, <1>4, <3>1, <3>2, Zenon
  <2>5. v3' \in [TotalRequests : Nat, AllowedRequests : Nat, BlockedRequests : Nat]
    <3>1. /\ v3 \in [TotalRequests : Nat, AllowedRequests : Nat, BlockedRequests : Nat]
          /\ \/ v3' = [v3 EXCEPT !.AllowedRequests = @ + 1]
             \/ v3' = [v3 EXCEPT !.BlockedRequests = @ + 1]
      BY <1>3, <2>1
    <3>2. ASSUME v3' = [v3 EXCEPT !.AllowedRequests = @ + 1]
          PROVE  v3' \in [TotalRequests : Nat, AllowedRequests : Nat, BlockedRequests : Nat]
      BY <3>1, <3>2, SMTT(30)
    <3>3. ASSUME v3' = [v3 EXCEPT !.BlockedRequests = @ + 1]
          PROVE  v3' \in [TotalRequests : Nat, AllowedRequests : Nat, BlockedRequests : Nat]
      BY <3>1, <3>3, SMTT(30)
    <3> QED
      BY <3>1, <3>2, <3>3, Zenon
  <2> QED
    BY <1>3, <2>1, <2>2, <2>4, <2>5, RequestMoves
<1> QED
  BY <1>5, <1>6, <1>7, <1>8

\* No step of a request, of the clock or of a reset undoes the invariant.
LEMMA LimiterNext == LimiterInv /\ [Limiter!Next]_(Limiter!vars) => LimiterInv'
<1> SUFFICES ASSUME LimiterInv, [Limiter!Next]_(Limiter!vars) PROVE LimiterInv'
  OBVIOUS
<1> USE DEF LimiterInv
<1>1. CASE UNCHANGED Limiter!vars
  BY <1>1 DEF Limiter!vars, Limiter!TypeOK, Limiter!RequestsAddUp, Limiter!UnderWay, Limiter!Bucket
<1>2. CASE Limiter!Tick
  <2>1. v4 \in Nat /\ v4' = v4 + 1 /\ v4' \in 0..limiter.MaxTime
    BY <1>2, ServicesAssumption DEF Limiter!Tick, Limiter!TypeOK, ServicesAssumption, Limiter!LimiterAssumption
  <2>2. Limiter!TypeOK' /\ Limiter!RequestsAddUp'
    BY <1>2, <2>1 DEF Limiter!Tick, Limiter!TypeOK, Limiter!RequestsAddUp, Limiter!UnderWay
  <2> QED
    BY <1>2, <2>1, <2>2 DEF Limiter!Tick, Limiter!Bucket
<1>3. CASE Limiter!Reset
  <2>1. Limiter!UnderWay' = Limiter!UnderWay
    BY <1>3 DEF Limiter!Reset, Limiter!UnderWay
  <2>2. Limiter!Cardinality({}) = 0
    BY LimiterSets, FS_EmptySet
  <2>3. Limiter!RequestsAddUp'
    <3>1. (v6 \/ Limiter!UnderWay # {}) => v6'
      BY <1>3 DEF Limiter!Reset
    <3>2. CASE Limiter!UnderWay = {}
      BY <1>3, <2>1, <2>2, <3>2 DEF Limiter!Reset, Limiter!RequestsAddUp, Limiter!Zero
    <3> QED
      BY <3>1, <3>2 DEF Limiter!RequestsAddUp
  <2>4. Limiter!TypeOK'
    BY <1>3, ServicesAssumption DEF Limiter!Reset, Limiter!TypeOK, Limiter!Zero, ServicesAssumption, Limiter!LimiterAssumption
  <2> QED
    BY <1>3, <2>3, <2>4 DEF Limiter!Reset, Limiter!Bucket
<1> QED
  BY <1>1, <1>2, <1>3, LimiterRequest DEF Limiter!Next

\* Whatever requests come at a time, by whatever routes, and whatever becomes
\* of them, the counters add up as long as no Reset has come between a
\* request's coming and its going (updateStats, Reset).
THEOREM LimiterReportsTheTruth == Spec => []RequestsAddUp
<1> DEFINE Inv == part = "limiter" => LimiterInv
<1>1. Init => Inv
  BY LimiterInit DEF Init
<1>2. Inv /\ [Next]_vars => Inv'
  BY LimiterNext DEF Next, vars, Limiter!vars
<1>3. Inv => RequestsAddUp
  BY DEF RequestsAddUp, LimiterInv
<1> QED
  BY <1>1, <1>2, <1>3, PTL DEF Spec

----------------------------------------------------------------------------
(* The cache of three tiers: v1 is tier, v2 object, v3 now, v4 getter,       *)
(* v5 sweep, v6 doomed and v7 carried.                                      *)

\* The same for the instance of the cache.
LEMMA TiersSets == \A S : /\ Tiers!Cardinality(S) = Cardinality(S)
                          /\ Tiers!IsFiniteSet(S) <=> IsFiniteSet(S)
BY DEF Tiers!Cardinality, Cardinality, Tiers!IsFiniteSet, IsFiniteSet

\* What the parameters are.
LEMMA TiersConstants ==
  /\ IsFiniteSet(tiers.Keys) /\ tiers.Objects \subseteq Nat \ {0}
  /\ tiers.Home \in [tiers.Keys -> 1..3] /\ tiers.MaxEntries \in [1..3 -> Nat \ {0}]
  /\ tiers.Promote \in [{2, 3} -> Nat] /\ tiers.MaxCount \in Nat
  /\ tiers.TTL \in Nat /\ tiers.MaxTime \in Nat
<1>1. (1..3) \ {1} = {2, 3}
  OBVIOUS
<1> QED
  BY <1>1, ServicesAssumption, TiersSets DEF ServicesAssumption, Tiers!TiersAssumption, Tiers!Tiers

\* What is known of a tier: it holds a limited number of the keys.
LEMMA TierFinite ==
  ASSUME Tiers!TiersInv, NEW t \in 1..3
  PROVE  /\ DOMAIN v1[t] \subseteq tiers.Keys /\ IsFiniteSet(DOMAIN v1[t])
         /\ Cardinality(DOMAIN v1[t]) \in Nat /\ Cardinality(DOMAIN v1[t]) <= tiers.MaxEntries[t]
         /\ tiers.MaxEntries[t] \in Nat \ {0}
<1>1. DOMAIN v1[t] \subseteq tiers.Keys /\ Cardinality(DOMAIN v1[t]) <= tiers.MaxEntries[t]
  BY TiersSets DEF Tiers!TiersInv, Tiers!TypeOK, Tiers!Tiers
<1> QED
  BY <1>1, TiersConstants, FS_Subset, FS_CardinalityType

\* A tier that entries have been taken from.
LEMMA TierWithout ==
  ASSUME Tiers!TiersInv, NEW t \in 1..3, NEW S
  PROVE  LET f == Tiers!Without(t, S) IN
         /\ DOMAIN f = DOMAIN v1[t] \ S /\ \A k \in DOMAIN f : f[k] = v1[t][k]
         /\ Cardinality(DOMAIN f) <= tiers.MaxEntries[t]
<1> DEFINE f == Tiers!Without(t, S)
<1>1. DOMAIN f = DOMAIN v1[t] \ S /\ \A k \in DOMAIN f : f[k] = v1[t][k]
  BY DEF Tiers!Without
<1> HIDE DEF f
<1>2. DOMAIN f \subseteq DOMAIN v1[t]
  BY <1>1
<1>3. /\ Cardinality(DOMAIN f) <= Cardinality(DOMAIN v1[t]) /\ Cardinality(DOMAIN f) \in Nat
      /\ IsFiniteSet(DOMAIN v1[t])
  BY <1>2, TierFinite, FS_Subset, FS_CardinalityType
<1> QED
  BY <1>1, <1>3, TierFinite DEF f

\* A tier into which an entry has been stored, a full one after giving one up.
LEMMA TierWith ==
  ASSUME Tiers!TiersInv, NEW t \in 1..3, NEW k \in tiers.Keys, NEW o, NEW gone \in Tiers!Victims(t)
  PROVE  LET f == Tiers!With(Tiers!Without(t, gone), k, o) IN
         /\ k \in DOMAIN f /\ f[k] = o /\ DOMAIN f \subseteq DOMAIN v1[t] \cup {k}
         /\ \A j \in DOMAIN f \ {k} : j \in DOMAIN v1[t] /\ f[j] = v1[t][j]
         /\ Cardinality(DOMAIN f) <= tiers.MaxEntries[t]
<1> DEFINE f == Tiers!With(Tiers!Without(t, gone), k, o)  D == DOMAIN v1[t]
<1>1. DOMAIN f = (D \ gone) \cup {k} /\ f[k] = o /\ \A j \in DOMAIN f \ {k} : f[j] = v1[t][j]
  <2> DEFINE w == Tiers!Without(t, gone)
  <2>1. DOMAIN w = D \ gone /\ \A j \in DOMAIN w : w[j] = v1[t][j]
    BY TierWithout
  <2> HIDE DEF w
  <2>2. f = [z \in DOMAIN w \cup {k} |-> IF z = k THEN o ELSE w[z]]
    BY DEF Tiers!With, w
  <2> QED
    BY <2>1, <2>2
<1>2. /\ IsFiniteSet(D) /\ Cardinality(D) \in Nat /\ Cardinality(D) <= tiers.MaxEntries[t]
      /\ tiers.MaxEntries[t] \in Nat \ {0}
  BY TierFinite
<1>3. \/ gone = {} /\ Cardinality(D) < tiers.MaxEntries[t]
      \/ \E j \in D : gone = {j}
  BY <1>2, TiersSets DEF Tiers!Victims, Tiers!Least
<1> HIDE DEF f, D
<1>4. IsFiniteSet(D \ gone) /\ Cardinality(D \ gone) + 1 <= tiers.MaxEntries[t]
                             /\ Cardinality(D \ gone) \in Nat
  <2>1. CASE gone = {} /\ Cardinality(D) < tiers.MaxEntries[t]
    <3>1. D \ gone = D
      BY <2>1
    <3> QED
      BY <1>2, <2>1, <3>1
  <2>2. ASSUME NEW j \in D, gone = {j}
        PROVE  /\ IsFiniteSet(D \ gone) /\ Cardinality(D \ gone) + 1 <= tiers.MaxEntries[t]
               /\ Cardinality(D \ gone) \in Nat
    <3>1. IsFiniteSet(D \ {j}) /\ Cardinality(D \ {j}) = Cardinality(D) - 1
      BY <1>2, FS_RemoveElement
    <3>2. Cardinality(D \ {j}) \in Nat
      BY <3>1, FS_CardinalityType
    <3> QED
      BY <1>2, <2>2, <3>1, <3>2
  <2> QED
    BY <1>3, <2>1, <2>2
<1>5. Cardinality((D \ gone) \cup {k}) <= Cardinality(D \ gone) + 1 /\ Cardinality((D \ gone) \cup {k}) \in Nat
  <2>1. CASE k \in D \ gone
    <3>1. (D \ gone) \cup {k} = D \ gone
      BY <2>1
    <3> QED
      BY <1>4, <3>1
  <2>2. CASE k \notin D \ gone
    <3> DEFINE E == D \ gone
    <3>1. IsFiniteSet(E) /\ k \notin E /\ Cardinality(E) \in Nat
      BY <1>4, <2>2
    <3> HIDE DEF E
    <3>2. Cardinality(E \cup {k}) = Cardinality(E) + 1
      BY <3>1, FS_AddElement
    <3> QED
      BY <3>1, <3>2 DEF E
  <2> QED
    BY <2>1, <2>2
<1> QED
  BY <1>1, <1>2, <1>4, <1>5 DEF f, D

\* Fewer places to find objects at are as good.
LEMMA FewerPlaces ==
  ASSUME Tiers!TiersInv, DOMAIN v2 \subseteq DOMAIN v2', v6' \subseteq DOMAIN v2',
         \A o, k : Tiers!Under(o, k)' => Tiers!Under(o, k)
  PROVE  Tiers!OneKey' /\ Tiers!UnderKnown'
<1>1. Tiers!OneKey /\ Tiers!UnderKnown
  BY DEF Tiers!TiersInv
<1>2. Tiers!OneKey'
  BY <1>1 DEF Tiers!OneKey
<1>3. Tiers!UnderKnown'
  BY <1>1 DEF Tiers!UnderKnown
<1> QED
  BY <1>2, <1>3

\* What the type invariant says of each variable.
LEMMA TiersTyped ==
  ASSUME Tiers!TiersInv
  PROVE  /\ DOMAIN v1 = 1..3
         /\ \A t \in 1..3 : \A k \in DOMAIN v1[t] :
              k \in tiers.Keys /\ v1[t][k] \in DOMAIN v2 /\ v1[t][k] \in tiers.Objects
         /\ DOMAIN v2 \subseteq tiers.Objects
         /\ \A o \in DOMAIN v2 : v2[o] \in [expiresAt : Nat, accessCount : Nat, lastAccess : Nat]
         /\ v3 \in 0..tiers.MaxTime /\ v3 \in Nat
         /\ v4 \in [tiers.Getters -> [pc : {"idle", "look", "promote"}, key : tiers.Keys,
                                      tier : 1..3, found : tiers.Objects \cup {0}]]
         /\ v5 \in [kind : {"none", "invalidate", "clean", "stop"}, tier : 1..3,
                    keys : SUBSET tiers.Keys, at : Nat]
         /\ v6 \subseteq tiers.Objects /\ v7 \subseteq tiers.Objects
         /\ \A g \in tiers.Getters : v4[g].pc = "promote" => v4[g].tier # 1
         /\ v6 \subseteq DOMAIN v2
BY TiersConstants DEF Tiers!TiersInv, Tiers!TypeOK, Tiers!Tiers, Tiers!Entry, Tiers!Lookup, Tiers!Sweep, Tiers!UnderKnown

\* What is to be shown of a tier that a step leaves behind.
TierFits(f, t, known) ==
  /\ DOMAIN f \subseteq tiers.Keys /\ Cardinality(DOMAIN f) <= tiers.MaxEntries[t]
  /\ \A k \in DOMAIN f : f[k] \in known

\* ... and of the state after a step.
LEMMA TypedAgain ==
  ASSUME Tiers!TiersInv,
         \A t \in 1..3 : TierFits(v1'[t], t, DOMAIN v2'), DOMAIN v2' \subseteq tiers.Objects,
         \A o \in DOMAIN v2' : v2'[o] \in [expiresAt : Nat, accessCount : Nat, lastAccess : Nat],
         v3' \in 0..tiers.MaxTime,
         v4' \in [tiers.Getters -> [pc : {"idle", "look", "promote"}, key : tiers.Keys,
                                   tier : 1..3, found : tiers.Objects \cup {0}]],
         v5' \in [kind : {"none", "invalidate", "clean", "stop"}, tier : 1..3,
                 keys : SUBSET tiers.Keys, at : Nat],
         v6' \subseteq tiers.Objects, v7' \subseteq tiers.Objects
  PROVE  Tiers!TypeOK'
BY TiersSets DEF Tiers!TypeOK, Tiers!Tiers, Tiers!Entry, Tiers!Lookup, Tiers!Sweep, TierFits

\* What the invariant says of one tier.
LEMMA TiersFit ==
  ASSUME Tiers!TiersInv, NEW t \in 1..3
  PROVE  TierFits(v1[t], t, DOMAIN v2)
BY TierFinite, TiersTyped DEF TierFits

\* Set stores an object that nobody has seen before.
LEMMA TiersSet ==
  ASSUME Tiers!TiersInv, NEW k \in tiers.Keys, Tiers!Set(k)
  PROVE  Tiers!TiersInv'
<1> DEFINE h == tiers.Home[k]
<1>1. h \in 1..3
  BY TiersConstants
<1>2. PICK o \in tiers.Objects \ DOMAIN v2, gone \in Tiers!Victims(h) :
        /\ v1' = [v1 EXCEPT ![h] = Tiers!With(Tiers!Without(h, gone), k, o)]
        /\ v2' = Tiers!With(v2, o, [expiresAt |-> v3 + tiers.TTL, accessCount |-> 1, lastAccess |-> v3])
        /\ UNCHANGED <<v3, v4, v5, v6, v7>>
  BY DEF Tiers!Set
<1> DEFINE f == Tiers!With(Tiers!Without(h, gone), k, o)
<1>3. /\ k \in DOMAIN f /\ f[k] = o /\ DOMAIN f \subseteq DOMAIN v1[h] \cup {k}
      /\ \A j \in DOMAIN f \ {k} : j \in DOMAIN v1[h] /\ f[j] = v1[h][j]
      /\ Cardinality(DOMAIN f) <= tiers.MaxEntries[h]
  BY <1>1, TierWith
<1>4. /\ DOMAIN v1' = 1..3 /\ v1'[h] = f /\ \A t \in (1..3) \ {h} : v1'[t] = v1[t]
  BY <1>1, <1>2, TiersTyped
<1> HIDE DEF f
<1>5. /\ DOMAIN v2' = DOMAIN v2 \cup {o} /\ DOMAIN v2' \subseteq tiers.Objects
      /\ \A p \in DOMAIN v2' : v2'[p] \in [expiresAt : Nat, accessCount : Nat, lastAccess : Nat]
  BY <1>2, TiersTyped, TiersConstants DEF Tiers!With
<1>6. Tiers!TypeOK'
  <2>1. ASSUME NEW t \in 1..3 PROVE TierFits(v1'[t], t, DOMAIN v2')
    BY <1>3, <1>4, <1>5, TiersFit, TiersTyped DEF TierFits
  <2> QED
    BY <1>2, <1>5, <2>1, TiersTyped, TypedAgain
<1>7. ASSUME NEW p, NEW j, Tiers!Under(p, j)'
      PROVE  Tiers!Under(p, j) \/ (p = o /\ j = k)
  BY <1>2, <1>3, <1>4, <1>7 DEF Tiers!Under, Tiers!Tiers
<1>8. \A j \in tiers.Keys : ~Tiers!Under(o, j)
  BY <1>2 DEF Tiers!TiersInv, Tiers!UnderKnown
<1>9. Tiers!OneKey'
  BY <1>7, <1>8 DEF Tiers!TiersInv, Tiers!OneKey
<1>10. Tiers!UnderKnown'
  BY <1>2, <1>5, <1>7 DEF Tiers!TiersInv, Tiers!UnderKnown
<1>11. Tiers!StillToSweep'
  <2>1. o \notin v6
    BY TiersTyped
  <2> QED
    BY <1>2, <1>3, <1>4, <2>1 DEF Tiers!TiersInv, Tiers!StillToSweep, Tiers!Tiers
<1> QED
  BY <1>2, <1>4, <1>6, <1>9, <1>10, <1>11 DEF Tiers!TiersInv, Tiers!Tiers

\* The steps of a lookup that leave the tiers alone.
LEMMA TiersLookup ==
  ASSUME Tiers!TiersInv, NEW g \in tiers.Getters, Tiers!Begin(g) \/ Tiers!Hit(g) \/ Tiers!Miss(g)
  PROVE  Tiers!TiersInv'
<1>1. /\ UNCHANGED <<v1, v3, v5, v6, v7>> /\ DOMAIN v2' = DOMAIN v2
      /\ \A o \in DOMAIN v2' : v2'[o] \in [expiresAt : Nat, accessCount : Nat, lastAccess : Nat]
  <2>1. CASE Tiers!Begin(g) \/ Tiers!Miss(g)
    BY <2>1, TiersTyped DEF Tiers!Begin, Tiers!Miss
  <2>2. CASE Tiers!Hit(g)
    <3>1. UNCHANGED <<v1, v3, v5, v6, v7>> /\ \E o, counted : counted \in {0, 1} /\ v2' = Tiers!Accessed(o, counted)
      BY <2>2 DEF Tiers!Hit
    <3> QED
      BY <3>1, TiersTyped, TiersConstants DEF Tiers!Accessed
  <2> QED
    BY <2>1, <2>2
<1>2. v4[g] \in [pc : {"idle", "look", "promote"}, key : tiers.Keys, tier : 1..3, found : tiers.Objects \cup {0}]
  BY TiersTyped
<1>3. /\ v4' \in [tiers.Getters -> [pc : {"idle", "look", "promote"}, key : tiers.Keys,
                                    tier : 1..3, found : tiers.Objects \cup {0}]]
      /\ v4'[g].key = v4[g].key /\ \A h \in tiers.Getters \ {g} : v4'[h] = v4[h]
      /\ v4'[g].pc = "promote" =>
           /\ v4'[g].tier # 1 /\ v4[g].key \in DOMAIN v1[v4'[g].tier]
           /\ v4'[g].found = v1[v4'[g].tier][v4[g].key]
  <2>1. CASE Tiers!Begin(g)
    BY <1>2, <2>1, TiersTyped DEF Tiers!Begin
  <2>2. CASE Tiers!Miss(g)
    <3> DEFINE t == v4[g].tier
    <3>1. v4' = [v4 EXCEPT ![g].pc = IF t = 3 THEN "idle" ELSE "look",
                           ![g].tier = IF t = 3 THEN t ELSE t + 1]
      BY <2>2 DEF Tiers!Miss
    <3> QED
      BY <1>2, <3>1, TiersTyped
  <2>3. CASE Tiers!Hit(g)
    <3> DEFINE t == v4[g].tier  k == v4[g].key
               rises == t # 1 /\ v2'[v1[t][k]].accessCount > tiers.Promote[t]
    <3>1. /\ k \in DOMAIN v1[t]
          /\ v4' = [v4 EXCEPT ![g].pc = IF rises THEN "promote" ELSE "idle",
                              ![g].found = IF rises THEN v1[t][k] ELSE 0]
      BY <2>3 DEF Tiers!Hit
    <3>2. (rises => t # 1) /\ v1[t][k] \in tiers.Objects
      BY <1>2, <3>1, TiersTyped
    <3> HIDE DEF rises
    <3>3. CASE rises
      <4>1. v4' = [v4 EXCEPT ![g].pc = "promote", ![g].found = v1[t][k]]
        BY <3>1, <3>3
      <4> QED
        BY <1>2, <3>1, <3>2, <3>3, <4>1, TiersTyped
    <3>4. CASE ~rises
      <4>1. v4' = [v4 EXCEPT ![g].pc = "idle", ![g].found = 0]
        BY <3>1, <3>4
      <4> QED
        BY <1>2, <4>1, TiersTyped
    <3> QED
      BY <3>3, <3>4
  <2> QED
    BY <2>1, <2>2, <2>3
<1>4. Tiers!TypeOK'
  BY <1>1, <1>3, TiersTyped, TiersFit, TypedAgain
<1>5. ASSUME NEW p, NEW j, Tiers!Under(p, j)' PROVE Tiers!Under(p, j)
  BY <1>1, <1>3, <1>5 DEF Tiers!Under, Tiers!Tiers
<1>6. Tiers!OneKey' /\ Tiers!UnderKnown'
  BY <1>1, <1>5, FewerPlaces, TiersTyped
<1>7. Tiers!StillToSweep'
  BY <1>1 DEF Tiers!TiersInv, Tiers!StillToSweep
<1>8. \A h \in tiers.Getters : v4'[h].pc = "promote" => v4'[h].tier # 1
  BY <1>3, TiersTyped
<1> QED
  BY <1>1, <1>4, <1>6, <1>7, <1>8, TiersTyped DEF Tiers!TiersInv, Tiers!Tiers

\* A promotion notes what it carries.
LEMMA TiersRise ==
  ASSUME Tiers!TiersInv, NEW g \in tiers.Getters, Tiers!Rise(g)
  PROVE  Tiers!TiersInv'
<1> DEFINE t == v4[g].tier  k == v4[g].key  o == v4[g].found
<1>1. /\ v4[g].pc = "promote" /\ t \in 1..3 /\ t # 1 /\ t - 1 \in 1..3 /\ k \in tiers.Keys
      /\ Tiers!Under(o, k)
  BY TiersTyped DEF Tiers!Rise, Tiers!Under
<1>2. PICK gone \in Tiers!Victims(t - 1) :
        v1' = [v1 EXCEPT ![t - 1] = Tiers!With(Tiers!Without(t - 1, gone), k, o),
                         ![t] = Tiers!Without(t, {k})]
  BY DEF Tiers!Rise
<1>3. /\ v7' = v7 \cup {o} /\ UNCHANGED <<v2, v3, v5, v6>>
      /\ v4' = [v4 EXCEPT ![g].pc = "idle", ![g].found = 0]
  BY DEF Tiers!Rise
<1> DEFINE f == Tiers!With(Tiers!Without(t - 1, gone), k, o)  d == Tiers!Without(t, {k})
<1>4. /\ k \in DOMAIN f /\ f[k] = o /\ DOMAIN f \subseteq DOMAIN v1[t - 1] \cup {k}
      /\ \A j \in DOMAIN f \ {k} : j \in DOMAIN v1[t - 1] /\ f[j] = v1[t - 1][j]
      /\ Cardinality(DOMAIN f) <= tiers.MaxEntries[t - 1]
  BY <1>1, TierWith
<1>5. /\ DOMAIN d = DOMAIN v1[t] \ {k} /\ \A j \in DOMAIN d : d[j] = v1[t][j]
      /\ Cardinality(DOMAIN d) <= tiers.MaxEntries[t]
  BY <1>1, TierWithout
<1>6. /\ DOMAIN v1' = 1..3 /\ v1'[t - 1] = f /\ v1'[t] = d
      /\ \A u \in (1..3) \ {t - 1, t} : v1'[u] = v1[u]
  BY <1>1, <1>2, TiersTyped
<1> HIDE DEF f, d
<1>7. o \in DOMAIN v2 /\ o \in tiers.Objects
  <2>1. g \in tiers.Getters /\ o \in tiers.Objects \cup {0}
    BY TiersTyped
  <2> QED
    BY <1>1, <2>1, TiersTyped DEF Tiers!TiersInv, Tiers!UnderKnown
<1>8. /\ v4' \in [tiers.Getters -> [pc : {"idle", "look", "promote"}, key : tiers.Keys,
                                    tier : 1..3, found : tiers.Objects \cup {0}]]
      /\ v4'[g].pc = "idle" /\ \A h \in tiers.Getters \ {g} : v4'[h] = v4[h]
  BY <1>3, TiersTyped
<1>9. Tiers!TypeOK'
  <2>1. ASSUME NEW u \in 1..3 PROVE TierFits(v1'[u], u, DOMAIN v2')
    <3>1. TierFits(v1[u], u, DOMAIN v2)
      BY TiersFit
    <3>2. CASE u = t - 1
      BY <1>1, <1>3, <1>4, <1>6, <1>7, <3>1, <3>2 DEF TierFits
    <3>3. CASE u = t
      BY <1>1, <1>3, <1>5, <1>6, <3>1, <3>3 DEF TierFits
    <3> QED
      BY <1>3, <1>6, <3>1, <3>2, <3>3
  <2> QED
    BY <1>3, <1>7, <1>8, <2>1, TiersTyped, TypedAgain
<1>10. ASSUME NEW p, NEW j, Tiers!Under(p, j)' PROVE Tiers!Under(p, j)
  BY <1>1, <1>3, <1>4, <1>5, <1>6, <1>8, <1>10 DEF Tiers!Under, Tiers!Tiers
<1>11. Tiers!OneKey' /\ Tiers!UnderKnown'
  BY <1>3, <1>10, FewerPlaces, TiersTyped
<1>12. Tiers!StillToSweep'
  BY <1>1, <1>3, <1>4, <1>5, <1>6 DEF Tiers!TiersInv, Tiers!StillToSweep, Tiers!Tiers
<1>13. \A h \in tiers.Getters : v4'[h].pc = "promote" => v4'[h].tier # 1
  BY <1>8, TiersTyped
<1> QED
  BY <1>6, <1>9, <1>11, <1>12, <1>13 DEF Tiers!TiersInv, Tiers!Tiers

\* A sweep takes from a tier what it is after.
LEMMA TiersSweep ==
  ASSUME Tiers!TiersInv, Tiers!SweepTier
  PROVE  Tiers!TiersInv'
<1> DEFINE t == v5.tier  d == Tiers!Without(t, Tiers!Swept(t))
<1>1. /\ t \in 1..3 /\ v5.kind # "none" /\ UNCHANGED <<v2, v3, v4, v6, v7>>
      /\ v1' = [v1 EXCEPT ![t] = d]
      /\ v5' = IF t = 3 THEN Tiers!None ELSE [v5 EXCEPT !.tier = @ + 1]
  BY TiersTyped DEF Tiers!SweepTier
<1>2. /\ DOMAIN d = DOMAIN v1[t] \ Tiers!Swept(t) /\ \A j \in DOMAIN d : d[j] = v1[t][j]
      /\ Cardinality(DOMAIN d) <= tiers.MaxEntries[t]
  BY <1>1, TierWithout
<1>3. DOMAIN v1' = 1..3 /\ v1'[t] = d /\ \A u \in (1..3) \ {t} : v1'[u] = v1[u]
  BY <1>1, TiersTyped
<1> HIDE DEF d
<1>4. v5' \in [kind : {"none", "invalidate", "clean", "stop"}, tier : 1..3, keys : SUBSET tiers.Keys, at : Nat]
  BY <1>1, TiersTyped DEF Tiers!None
<1>5. Tiers!TypeOK'
  <2>1. ASSUME NEW u \in 1..3 PROVE TierFits(v1'[u], u, DOMAIN v2')
    BY <1>1, <1>2, <1>3, TiersFit DEF TierFits
  <2> QED
    BY <1>1, <1>4, <2>1, TiersTyped, TypedAgain
<1>6. ASSUME NEW p, NEW j, Tiers!Under(p, j)' PROVE Tiers!Under(p, j)
  BY <1>1, <1>2, <1>3, <1>6 DEF Tiers!Under, Tiers!Tiers
<1>7. Tiers!OneKey' /\ Tiers!UnderKnown'
  BY <1>1, <1>6, FewerPlaces, TiersTyped
<1>8. Tiers!StillToSweep'
  <2> SUFFICES ASSUME NEW u \in 1..3, NEW k \in DOMAIN v1'[u], v1'[u][k] \in v6, v1'[u][k] \notin v7
               PROVE  v5'.kind = "invalidate" /\ u >= v5'.tier /\ k \in v5'.keys
    BY <1>1 DEF Tiers!StillToSweep, Tiers!Tiers
  <2>1. k \in DOMAIN v1[u] /\ v1'[u][k] = v1[u][k] /\ (u = t => k \notin Tiers!Swept(t))
    BY <1>2, <1>3
  <2>2. v5.kind = "invalidate" /\ u >= t /\ k \in v5.keys
    BY <2>1 DEF Tiers!TiersInv, Tiers!StillToSweep, Tiers!Tiers
  <2>3. u # t
    BY <2>1, <2>2 DEF Tiers!Swept
  <2> QED
    BY <1>1, <2>2, <2>3, TiersTyped
<1> QED
  BY <1>1, <1>3, <1>5, <1>7, <1>8, TiersTyped DEF Tiers!TiersInv, Tiers!Tiers

\* An invalidation starts with nothing carried and everything it is after
\* still under its keys.
LEMMA TiersInvalidate ==
  ASSUME Tiers!TiersInv, NEW S \in SUBSET tiers.Keys, Tiers!Invalidate(S)
  PROVE  Tiers!TiersInv'
<1>1. /\ v5' = [kind |-> "invalidate", tier |-> 1, keys |-> S, at |-> v3] /\ v7' = {}
      /\ UNCHANGED <<v1, v2, v3, v4>>
  BY DEF Tiers!Invalidate
<1>2. \A o : o \in v6' <=> \E t \in 1..3 : \E k \in S \cap DOMAIN v1[t] : o = v1[t][k]
  BY DEF Tiers!Invalidate, Tiers!Tiers
<1>3. v6' \subseteq DOMAIN v2 /\ v6' \subseteq tiers.Objects
  BY <1>2, TiersTyped
<1>4. Tiers!TypeOK'
  BY <1>1, <1>3, TiersTyped, TiersFit, TypedAgain
<1>5. Tiers!OneKey' /\ Tiers!UnderKnown'
  BY <1>1, <1>3, FewerPlaces DEF Tiers!Under
<1>6. Tiers!StillToSweep'
  <2> SUFFICES ASSUME NEW u \in 1..3, NEW j \in DOMAIN v1[u], v1[u][j] \in v6' PROVE j \in S
    BY <1>1 DEF Tiers!StillToSweep, Tiers!Tiers
  <2>1. PICK t \in 1..3, k \in S : k \in DOMAIN v1[t] /\ v1[u][j] = v1[t][k]
    BY <1>2
  <2>2. Tiers!Under(v1[u][j], j) /\ Tiers!Under(v1[u][j], k)
    BY <2>1 DEF Tiers!Under, Tiers!Tiers
  <2>3. v1[u][j] \in tiers.Objects /\ j \in tiers.Keys /\ k \in tiers.Keys
    BY TiersTyped
  <2> QED
    BY <2>1, <2>2, <2>3 DEF Tiers!TiersInv, Tiers!OneKey
<1> QED
  BY <1>1, <1>4, <1>5, <1>6, TiersTyped DEF Tiers!TiersInv, Tiers!Tiers

\* The other steps leave tiers, objects and history alone.
LEMMA TiersOther ==
  ASSUME Tiers!TiersInv, Tiers!CleanupExpired \/ Tiers!Stop \/ Tiers!Tick \/ UNCHANGED Tiers!vars
  PROVE  Tiers!TiersInv'
<1>1. UNCHANGED <<v1, v2, v4, v6, v7>> /\ (v5' = v5 \/ (v5.kind = "none" /\ v5'.kind \in {"clean", "stop"}))
  BY DEF Tiers!CleanupExpired, Tiers!Stop, Tiers!Tick, Tiers!vars
<1>2. v3' \in 0..tiers.MaxTime
  BY TiersTyped, TiersConstants DEF Tiers!CleanupExpired, Tiers!Stop, Tiers!Tick, Tiers!vars
<1>3. v5' \in [kind : {"none", "invalidate", "clean", "stop"}, tier : 1..3, keys : SUBSET tiers.Keys, at : Nat]
  BY TiersTyped DEF Tiers!CleanupExpired, Tiers!Stop, Tiers!Tick, Tiers!vars
<1>4. Tiers!TypeOK'
  BY <1>1, <1>2, <1>3, TiersTyped, TiersFit, TypedAgain
<1>5. Tiers!OneKey' /\ Tiers!UnderKnown'
  BY <1>1, FewerPlaces, TiersTyped DEF Tiers!Under
<1>6. Tiers!StillToSweep'
  BY <1>1 DEF Tiers!TiersInv, Tiers!StillToSweep
<1> QED
  BY <1>1, <1>4, <1>5, <1>6, TiersTyped DEF Tiers!TiersInv, Tiers!Tiers

\* The tiers start empty.
LEMMA TiersInit == Tiers!Init => Tiers!TiersInv
<1> SUFFICES ASSUME Tiers!Init PROVE Tiers!TiersInv
  OBVIOUS
<1>1. /\ DOMAIN v1 = 1..3 /\ \A t \in 1..3 : DOMAIN v1[t] = {}
      /\ DOMAIN v2 = {} /\ v3 = 0 /\ v5 = Tiers!None /\ v6 = {} /\ v7 = {}
  BY DEF Tiers!Init, Tiers!Tiers
<1>2. /\ v4 \in [tiers.Getters -> [pc : {"idle", "look", "promote"}, key : tiers.Keys,
                                   tier : 1..3, found : tiers.Objects \cup {0}]]
      /\ \A g \in tiers.Getters : v4[g].pc = "idle"
  BY DEF Tiers!Init
<1>3. \A S : Tiers!Cardinality(S) = Cardinality(S)
  BY TiersSets
<1>4. Tiers!TypeOK
  <2>1. \A t \in 1..3 : /\ DOMAIN v1[t] \subseteq tiers.Keys
                       /\ Tiers!Cardinality(DOMAIN v1[t]) <= tiers.MaxEntries[t]
                       /\ \A k \in DOMAIN v1[t] : v1[t][k] \in DOMAIN v2
    <3>1. Tiers!Cardinality({}) = 0
      BY <1>3, FS_EmptySet
    <3>2. \A t \in 1..3 : 0 <= tiers.MaxEntries[t]
      BY TiersConstants
    <3> QED
      BY <1>1, <3>1, <3>2
  <2>2. v3 \in 0..tiers.MaxTime
    BY <1>1, TiersConstants
  <2>3. v5 \in [kind : {"none", "invalidate", "clean", "stop"}, tier : 1..3, keys : SUBSET tiers.Keys, at : Nat]
    BY <1>1 DEF Tiers!None
  <2> QED
    BY <1>1, <1>2, <2>1, <2>2, <2>3 DEF Tiers!TypeOK, Tiers!Tiers, Tiers!Lookup, Tiers!Sweep
<1>5. \A o, k : ~Tiers!Under(o, k)
  BY <1>1, <1>2 DEF Tiers!Under, Tiers!Tiers
<1> QED
  BY <1>1, <1>2, <1>4, <1>5
  DEF Tiers!TiersInv, Tiers!OneKey, Tiers!UnderKnown, Tiers!StillToSweep, Tiers!Tiers

\* An invalidation removes whatever it set out to remove from all three tiers,
\* but for what a lookup carries past it, however many lookups, stores and
\* evictions come between its steps.
THEOREM InvalidationMissesOnlyTheCarried == Spec => []OnlyCarriedSurvive
<1> DEFINE Inv == part = "tiers" => Tiers!TiersInv
<1>1. Init => Inv
  BY TiersInit DEF Init
<1>2. Inv /\ [Next]_vars => Inv'
  <2>1. Tiers!TiersInv /\ [Tiers!Next]_(Tiers!vars) => Tiers!TiersInv'
    BY TiersSet, TiersLookup, TiersRise, TiersSweep, TiersInvalidate, TiersOther DEF Tiers!Next
  <2> QED
    BY <2>1 DEF Next, vars, Tiers!vars
<1>3. Inv => OnlyCarriedSurvive
  BY DEF OnlyCarriedSurvive, Tiers!TiersInv, Tiers!StillToSweep, Tiers!OnlyCarriedSurvive
<1> QED
  BY <1>1, <1>2, <1>3, PTL DEF Spec

----------------------------------------------------------------------------
(* The response cache: v1 is entries, v2 now, v3 version, v4 past, v5       *)
(* request and v6 writing.                                                  *)

\* The same for the instance of the response cache.
LEMMA CacheSets == \A S : /\ Cache!Cardinality(S) = Cardinality(S)
                          /\ Cache!IsFiniteSet(S) <=> IsFiniteSet(S)
BY DEF Cache!Cardinality, Cardinality, Cache!IsFiniteSet, IsFiniteSet

CacheVersions == 0..cache.MaxVersion
CacheEntry == [data : CacheVersions, expiresAt : Nat, lastAccess : Nat]
CacheRequest ==
  [pc : {"idle", "conditional", "lookup", "expired", "handle", "store", "done"},
   path : cache.Paths, tag : CacheVersions \cup {cache.MaxVersion + 1},
   then : {"lookup", "handle"}, data : CacheVersions, at : Nat,
   from : {"nobody", "cache", "handler"}]

\* What the parameters are.
LEMMA CacheConstants ==
  /\ IsFiniteSet(cache.Paths) /\ cache.MaxEntries \in Nat \ {0} /\ cache.MaxHandling \in Nat
  /\ cache.MaxTime \in Nat /\ cache.MaxVersion \in Nat
  /\ cache.Tags \in [cache.Requests -> SUBSET CacheVersions]
  /\ \A p : Cache!getCacheTTL(p) \in Nat
BY ServicesAssumption, CacheSets
DEF ServicesAssumption, Cache!CacheAssumption, Cache!getCacheTTL, CacheVersions

\* What the type invariant says of each variable.
LEMMA CacheTyped ==
  ASSUME Cache!TypeOK
  PROVE  /\ DOMAIN v1 \subseteq cache.Paths /\ IsFiniteSet(DOMAIN v1)
         /\ Cardinality(DOMAIN v1) \in Nat /\ Cardinality(DOMAIN v1) <= cache.MaxEntries
         /\ \A p \in DOMAIN v1 : v1[p] \in CacheEntry
         /\ v2 \in 0..cache.MaxTime /\ v2 \in Nat /\ v3 \in [cache.Paths -> CacheVersions]
         /\ v4 \in [cache.Paths -> [0..cache.MaxTime -> CacheVersions]]
         /\ v5 \in [cache.Requests -> CacheRequest] /\ v6 \subseteq cache.Paths
<1>1. DOMAIN v1 \subseteq cache.Paths /\ Cardinality(DOMAIN v1) <= cache.MaxEntries
  BY CacheSets DEF Cache!TypeOK
<1>2. IsFiniteSet(DOMAIN v1) /\ Cardinality(DOMAIN v1) \in Nat
  BY <1>1, CacheConstants, FS_Subset, FS_CardinalityType
<1>3. CacheVersions \subseteq Nat
  BY CacheConstants DEF CacheVersions
<1> QED
  BY <1>1, <1>2, CacheConstants
  DEF Cache!TypeOK, Cache!Entry, Cache!Request, Cache!Versions, Cache!NoTag, CacheVersions, CacheEntry, CacheRequest

\* ... and after a step.
LEMMA CacheTypedAgain ==
  ASSUME DOMAIN v1' \subseteq cache.Paths, Cardinality(DOMAIN v1') <= cache.MaxEntries,
         \A p \in DOMAIN v1' : v1'[p] \in CacheEntry, v2' \in 0..cache.MaxTime,
         v3' \in [cache.Paths -> CacheVersions],
         v4' \in [cache.Paths -> [0..cache.MaxTime -> CacheVersions]],
         v5' \in [cache.Requests -> CacheRequest], v6' \subseteq cache.Paths
  PROVE  Cache!TypeOK'
BY CacheSets
DEF Cache!TypeOK, Cache!Entry, Cache!Request, Cache!Versions, Cache!NoTag, CacheVersions, CacheEntry, CacheRequest

\* What is to be shown of the entries a step leaves behind.
EntriesFit(f) ==
  /\ DOMAIN f \subseteq cache.Paths /\ Cardinality(DOMAIN f) <= cache.MaxEntries
  /\ \A p \in DOMAIN f :
       /\ f[p] \in CacheEntry /\ f[p].expiresAt <= v2 + Cache!getCacheTTL(p)
       /\ \A t \in 0..v2 : t + cache.MaxHandling + Cache!getCacheTTL(p) <= f[p].expiresAt
                             => f[p].data >= v4[p][t]

\* Deleting entries is harmless ...
LEMMA DeletedFit ==
  ASSUME Cache!CacheInv, NEW S
  PROVE  EntriesFit(Cache!Without(S))
<1> DEFINE f == Cache!Without(S)
<1>1. DOMAIN f = DOMAIN v1 \ S /\ \A p \in DOMAIN f : f[p] = v1[p]
  BY DEF Cache!Without
<1> HIDE DEF f
<1>2. Cache!TypeOK /\ Cache!EntriesFresh
  BY DEF Cache!CacheInv
<1>3. DOMAIN f \subseteq DOMAIN v1
  BY <1>1
<1>4. /\ IsFiniteSet(DOMAIN v1) /\ Cardinality(DOMAIN v1) <= cache.MaxEntries
      /\ Cardinality(DOMAIN v1) \in Nat
  BY <1>2, CacheTyped
<1>5. Cardinality(DOMAIN f) <= Cardinality(DOMAIN v1) /\ Cardinality(DOMAIN f) \in Nat
  BY <1>3, <1>4, FS_Subset, FS_CardinalityType
<1>6. Cardinality(DOMAIN f) <= cache.MaxEntries
  BY <1>4, <1>5, CacheConstants
<1>7. EntriesFit(f)
  BY <1>1, <1>2, <1>3, <1>6, CacheTyped DEF EntriesFit, Cache!EntriesFresh
<1> QED
  BY <1>7 DEF f

\* ... and so is doing nothing.
LEMMA SameFit ==
  ASSUME Cache!CacheInv
  PROVE  EntriesFit(v1)
BY CacheTyped DEF EntriesFit, Cache!CacheInv, Cache!EntriesFresh

\* What is to be shown of a request that a step moves.
RequestFits(k) ==
  /\ k \in CacheRequest /\ k.at <= v2
  /\ k.pc = "store" => v2 <= k.at + cache.MaxHandling /\ k.data >= v4[k.path][k.at]
  /\ k.from = "cache" /\ k.at > Cache!getCacheTTL(k.path) + cache.MaxHandling =>
       k.data >= v4[k.path][k.at - (Cache!getCacheTTL(k.path) + cache.MaxHandling)]

\* What the invariant says of one request.
LEMMA RequestsFit ==
  ASSUME Cache!CacheInv, NEW r \in cache.Requests
  PROVE  RequestFits(v5[r])
BY CacheTyped
DEF RequestFits, Cache!CacheInv, Cache!AnswersFresh, Cache!StalenessBounded

\* A step that changes entries and requests.
LEMMA CacheStep ==
  ASSUME Cache!CacheInv, UNCHANGED <<v2, v3, v4>>, EntriesFit(v1'),
         v5' \in [cache.Requests -> CacheRequest], v6' \subseteq cache.Paths, \A q \in cache.Requests : RequestFits(v5'[q])
  PROVE  Cache!CacheInv'
<1>1. Cache!TypeOK
  BY DEF Cache!CacheInv
<1>2. Cache!TypeOK'
  BY <1>1, CacheTyped, CacheTypedAgain DEF EntriesFit
<1>3. Cache!HistoryOnlyGrows'
  BY DEF Cache!CacheInv, Cache!HistoryOnlyGrows
<1>4. Cache!EntriesFresh'
  BY DEF EntriesFit, Cache!EntriesFresh
<1>5. Cache!AnswersFresh' /\ Cache!StalenessBounded'
  BY DEF RequestFits, Cache!AnswersFresh, Cache!StalenessBounded
<1> QED
  BY <1>2, <1>3, <1>4, <1>5 DEF Cache!CacheInv

\* A step of one request.
LEMMA CacheMove ==
  ASSUME Cache!CacheInv, UNCHANGED <<v2, v3, v4, v6>>, EntriesFit(v1'),
         NEW r \in cache.Requests, NEW k, RequestFits(k), v5' = [v5 EXCEPT ![r] = k]
  PROVE  Cache!CacheInv'
<1>1. v5 \in [cache.Requests -> CacheRequest] /\ v6 \subseteq cache.Paths
  BY CacheTyped DEF Cache!CacheInv
<1>2. v5' \in [cache.Requests -> CacheRequest] /\ \A q \in cache.Requests : RequestFits(v5'[q])
  BY <1>1, RequestsFit DEF RequestFits
<1> QED
  BY <1>1, <1>2, CacheStep

\* The steps of a request up to its handler.
LEMMA CacheArrive ==
  ASSUME Cache!CacheInv, NEW r \in cache.Requests, Cache!Arrive(r)
  PROVE  Cache!CacheInv'
<1>1. v5[r] \in CacheRequest /\ v3 \in [cache.Paths -> CacheVersions] /\ RequestFits(v5[r])
  BY CacheTyped, RequestsFit DEF Cache!CacheInv
<1> DEFINE p == v5[r].path
<1>2. PICK tag \in cache.Tags[r] \cup {cache.MaxVersion + 1},
           pc \in {"handle", "lookup", "conditional"} :
        v5' = [v5 EXCEPT ![r] = [v5[r] EXCEPT !.pc = pc, !.tag = tag]]
  <2>1. PICK tag \in cache.Tags[r] \cup {cache.MaxVersion + 1} :
          v5' = [v5 EXCEPT ![r].pc = IF Cache!shouldSkipCache(p) THEN "handle"
                                     ELSE IF tag = cache.MaxVersion + 1 THEN "lookup" ELSE "conditional",
                           ![r].tag = tag]
    BY DEF Cache!Arrive, Cache!NoTag
  <2> DEFINE pc == IF Cache!shouldSkipCache(p) THEN "handle"
                   ELSE IF tag = cache.MaxVersion + 1 THEN "lookup" ELSE "conditional"
  <2>2. v5' = [v5 EXCEPT ![r] = [v5[r] EXCEPT !.pc = pc, !.tag = tag]]
    BY <2>1, <1>1 DEF CacheRequest
  <2>3. pc \in {"handle", "lookup", "conditional"}
    OBVIOUS
  <2> HIDE DEF pc
  <2> QED
    BY <2>2, <2>3
<1>3. cache.Tags[r] \subseteq CacheVersions
  BY CacheConstants
<1>4. RequestFits([v5[r] EXCEPT !.pc = pc, !.tag = tag])
  BY <1>1, <1>2, <1>3 DEF RequestFits, CacheRequest
<1>5. v1' = v1 /\ UNCHANGED <<v2, v3, v4, v6>>
  BY DEF Cache!Arrive
<1> QED
  BY <1>2, <1>4, <1>5, SameFit, CacheMove

\* A hit is an answer that is no older than its entry.
LEMMA CacheHit ==
  ASSUME Cache!CacheInv, NEW r \in cache.Requests, Cache!GetHit(r)
  PROVE  Cache!CacheInv'
<1> DEFINE p == v5[r].path  ttl == Cache!getCacheTTL(p)
<1>1. v5[r] \in CacheRequest /\ RequestFits(v5[r])
  BY CacheTyped, RequestsFit DEF Cache!CacheInv
<1>2. /\ p \in DOMAIN v1 /\ v2 <= v1[p].expiresAt /\ v2 \in Nat /\ EntriesFit(v1) /\ v1[p] \in CacheEntry
      /\ v5[r].pc \in {"conditional", "lookup"}
      /\ ttl \in Nat /\ cache.MaxHandling \in Nat
  <2>1. v2 \in Nat /\ v1[p].expiresAt \in Nat /\ v1[p] \in CacheEntry
    BY CacheTyped DEF Cache!CacheInv, Cache!GetHit, CacheEntry
  <2> QED
    BY <2>1, SameFit, CacheConstants DEF Cache!GetHit, Cache!Expired
<1>3. v1' = [v1 EXCEPT ![p].lastAccess = v2] /\ UNCHANGED <<v2, v3, v4, v6>>
  BY DEF Cache!GetHit
<1>4. EntriesFit(v1')
  BY <1>2, <1>3 DEF EntriesFit, CacheEntry
<1>5. \/ v5' = [v5 EXCEPT ![r] = [v5[r] EXCEPT !.pc = "lookup"]]
      \/ v5' = [v5 EXCEPT ![r] = [v5[r] EXCEPT !.pc = "done", !.data = v1[p].data, !.at = v2, !.from = "cache"]]
  BY <1>1 DEF Cache!GetHit, Cache!Goes, Cache!Answered, CacheRequest
<1>6. RequestFits([v5[r] EXCEPT !.pc = "lookup"])
  BY <1>1, <1>2 DEF RequestFits, CacheRequest
<1> DEFINE k == [v5[r] EXCEPT !.pc = "done", !.data = v1[p].data, !.at = v2, !.from = "cache"]
<1>7. k \in CacheRequest
  BY <1>1, <1>2 DEF CacheRequest, CacheEntry
<1>8. v2 > ttl + cache.MaxHandling => v1[p].data >= v4[p][v2 - (ttl + cache.MaxHandling)]
  BY <1>2 DEF EntriesFit
<1>9. RequestFits(k)
  <2>1. /\ k.pc = "done" /\ k.at = v2 /\ k.data = v1[p].data /\ k.path = p
    BY <1>1, <1>2 DEF CacheRequest
  <2> HIDE DEF k
  <2> QED
    BY <1>1, <1>2, <1>7, <1>8, <2>1 DEF RequestFits
<1> QED
  BY <1>3, <1>4, <1>5, <1>6, <1>9, CacheMove

\* A miss, a deletion on expiry and a discarded answer leave the rest as it is.
LEMMA CacheMiss ==
  ASSUME Cache!CacheInv, NEW r \in cache.Requests,
         Cache!GetMiss(r) \/ Cache!GetDeletes(r) \/ Cache!Discard(r)
  PROVE  Cache!CacheInv'
<1>1. v5[r] \in CacheRequest /\ RequestFits(v5[r])
  BY CacheTyped, RequestsFit DEF Cache!CacheInv
<1>2. UNCHANGED <<v2, v3, v4, v6>> /\ (v1' = v1 \/ v1' = Cache!Without({v5[r].path}))
  BY DEF Cache!GetMiss, Cache!GetDeletes, Cache!Discard
<1>3. EntriesFit(v1')
  BY <1>2, SameFit, DeletedFit
<1>4. PICK pc \in {"lookup", "handle", "expired", "done"}, then \in {"lookup", "handle"} :
        /\ v5' = [v5 EXCEPT ![r] = [v5[r] EXCEPT !.pc = pc, !.then = then]]
        /\ v5[r].pc \in {"conditional", "lookup", "expired", "store"}
  <2>1. CASE Cache!GetMiss(r)
    <3>1. Cache!AfterMiss(r) \in {"lookup", "handle"}
      BY DEF Cache!AfterMiss
    <3>2. \/ v5' = [v5 EXCEPT ![r] = [v5[r] EXCEPT !.pc = Cache!AfterMiss(r), !.then = v5[r].then]]
          \/ v5' = [v5 EXCEPT ![r] = [v5[r] EXCEPT !.pc = "expired", !.then = Cache!AfterMiss(r)]]
      BY <1>1, <2>1 DEF Cache!GetMiss, Cache!Goes, CacheRequest
    <3>3. v5[r].then \in {"lookup", "handle"} /\ v5[r].pc \in {"conditional", "lookup"}
      BY <1>1, <2>1 DEF Cache!GetMiss, CacheRequest
    <3> QED
      BY <3>1, <3>2, <3>3
  <2>2. CASE Cache!GetDeletes(r)
    <3>1. v5' = [v5 EXCEPT ![r] = [v5[r] EXCEPT !.pc = v5[r].then, !.then = v5[r].then]]
      BY <1>1, <2>2 DEF Cache!GetDeletes, Cache!Goes, CacheRequest
    <3>2. v5[r].then \in {"lookup", "handle"} /\ v5[r].pc = "expired"
      BY <1>1, <2>2 DEF Cache!GetDeletes, CacheRequest
    <3> QED
      BY <3>1, <3>2
  <2>3. CASE Cache!Discard(r)
    <3>1. v5' = [v5 EXCEPT ![r] = [v5[r] EXCEPT !.pc = "done", !.then = v5[r].then]]
      BY <1>1, <2>3 DEF Cache!Discard, Cache!Goes, CacheRequest
    <3>2. v5[r].then \in {"lookup", "handle"} /\ v5[r].pc = "store"
      BY <1>1, <2>3 DEF Cache!Discard, CacheRequest
    <3> QED
      BY <3>1, <3>2
  <2> QED
    BY <2>1, <2>2, <2>3
<1>5. RequestFits([v5[r] EXCEPT !.pc = pc, !.then = then])
  BY <1>1, <1>4 DEF RequestFits, CacheRequest
<1> QED
  BY <1>2, <1>3, <1>4, <1>5, CacheMove

\* The handler reads what is true at the moment.
LEMMA CacheHandle ==
  ASSUME Cache!CacheInv, NEW r \in cache.Requests, Cache!Handle(r)
  PROVE  Cache!CacheInv'
<1> DEFINE p == v5[r].path  pc == IF Cache!shouldSkipCache(p) THEN "done" ELSE "store"
           k == [v5[r] EXCEPT !.pc = pc, !.data = v3[p], !.at = v2, !.from = "handler"]
<1>1. /\ v5[r] \in CacheRequest /\ RequestFits(v5[r]) /\ v2 \in Nat /\ v2 \in 0..cache.MaxTime
      /\ v3 \in [cache.Paths -> CacheVersions] /\ p \in cache.Paths
      /\ v4 \in [cache.Paths -> [0..cache.MaxTime -> CacheVersions]]
  BY CacheTyped, RequestsFit DEF Cache!CacheInv, CacheRequest
<1>2. v4[p][v2] <= v3[p] /\ v3[p] \in CacheVersions /\ v4[p][v2] \in CacheVersions
  <2>1. v2 \in 0..v2
    BY <1>1
  <2> QED
    BY <1>1, <2>1 DEF Cache!CacheInv, Cache!HistoryOnlyGrows
<1>3. v5' = [v5 EXCEPT ![r] = k] /\ UNCHANGED <<v1, v2, v3, v4, v6>>
  BY <1>1 DEF Cache!Handle, Cache!Answered, CacheRequest
<1>4. k \in CacheRequest
  BY <1>1, <1>2 DEF CacheRequest
<1>5. /\ k.at = v2 /\ k.path = p /\ k.data = v3[p] /\ k.from = "handler"
  BY <1>1 DEF CacheRequest
<1> HIDE DEF k
<1>6. RequestFits(k)
  BY <1>1, <1>2, <1>4, <1>5, CacheConstants DEF RequestFits, CacheVersions
<1> QED
  BY <1>3, <1>6, SameFit, CacheMove

\* A set with one more element.
LEMMA OneMore ==
  ASSUME NEW S, NEW x, IsFiniteSet(S)
  PROVE  Cardinality(S \cup {x}) \in Nat /\ Cardinality(S \cup {x}) <= Cardinality(S) + 1
<1>1. Cardinality(S) \in Nat
  BY FS_CardinalityType
<1>2. CASE x \in S
  <2>1. S \cup {x} = S
    BY <1>2
  <2> QED
    BY <1>1, <2>1
<1>3. CASE x \notin S
  <2>1. Cardinality(S \cup {x}) = Cardinality(S) + 1
    BY <1>3, FS_AddElement
  <2> QED
    BY <1>1, <2>1
<1> QED
  BY <1>2, <1>3

\* What is stored was read no longer than MaxHandling ago.
LEMMA CacheSet ==
  ASSUME Cache!CacheInv, NEW r \in cache.Requests, Cache!Set(r)
  PROVE  Cache!CacheInv'
<1> DEFINE p == v5[r].path  ttl == Cache!getCacheTTL(p)  data == v5[r].data  D == DOMAIN v1
<1>1. /\ v5[r] \in CacheRequest /\ RequestFits(v5[r]) /\ v5[r].pc = "store"
      /\ v2 \in Nat /\ v2 \in 0..cache.MaxTime /\ v5[r].at \in Nat /\ p \in cache.Paths
      /\ data \in CacheVersions /\ v4 \in [cache.Paths -> [0..cache.MaxTime -> CacheVersions]]
  BY CacheTyped, RequestsFit DEF Cache!CacheInv, CacheRequest, Cache!Set
<1>2. PICK S \in SUBSET D :
        /\ Cache!Evicted(S)
        /\ v1' = [q \in (D \ S) \cup {p} |->
             IF q # p THEN v1[q] ELSE [data |-> data, expiresAt |-> v2 + ttl, lastAccess |-> v2]]
  BY DEF Cache!Set
<1>3. UNCHANGED <<v2, v3, v4, v6>> /\ v5' = [v5 EXCEPT ![r] = [v5[r] EXCEPT !.pc = "done"]]
  BY <1>1 DEF Cache!Set, Cache!Goes, CacheRequest
<1>4. /\ D \subseteq cache.Paths /\ IsFiniteSet(D) /\ Cardinality(D) \in Nat
      /\ Cardinality(D) <= cache.MaxEntries /\ cache.MaxEntries \in Nat \ {0}
  BY CacheTyped, CacheConstants DEF Cache!CacheInv
<1>5. \/ S = {} /\ Cardinality(D) < cache.MaxEntries
      \/ \E q \in D : S = {q}
  <2>1. CASE Cardinality(D) >= cache.MaxEntries
    <3>1. \E q \in Cache!Oldest : S = {q}
      BY <1>2, <2>1, CacheSets DEF Cache!Evicted
    <3> QED
      BY <3>1 DEF Cache!Oldest
  <2>2. CASE Cardinality(D) < cache.MaxEntries
    <3>1. ~(Cache!Cardinality(D) >= cache.MaxEntries)
      BY <1>4, <2>2, CacheSets
    <3>2. S = {}
      BY <1>2, <3>1 DEF Cache!Evicted
    <3> QED
      BY <2>2, <3>2
  <2> QED
    BY <1>4, <2>1, <2>2
<1>6. Cardinality((D \ S) \cup {p}) <= cache.MaxEntries
  <2> DEFINE E == D \ S
  <2>1. IsFiniteSet(E) /\ Cardinality(E) \in Nat /\ Cardinality(E) + 1 <= cache.MaxEntries
    <3>1. CASE S = {} /\ Cardinality(D) < cache.MaxEntries
      <4>1. E = D
        BY <3>1
      <4> HIDE DEF E, D
      <4> QED
        BY <1>4, <3>1, <4>1
    <3>2. ASSUME NEW q \in D, S = {q}
          PROVE  IsFiniteSet(E) /\ Cardinality(E) \in Nat /\ Cardinality(E) + 1 <= cache.MaxEntries
      <4> HIDE DEF D
      <4>1. IsFiniteSet(D \ {q}) /\ Cardinality(D \ {q}) = Cardinality(D) - 1
        BY <1>4, FS_RemoveElement
      <4>2. Cardinality(D \ {q}) \in Nat
        BY <4>1, FS_CardinalityType
      <4> QED
        BY <1>4, <3>2, <4>1, <4>2
    <3> QED
      BY <1>5, <3>1, <3>2
  <2>2. Cardinality(E \cup {p}) \in Nat /\ Cardinality(E \cup {p}) <= Cardinality(E) + 1
    BY <2>1, OneMore
  <2> QED
    BY <1>4, <2>1, <2>2
<1>7. ttl \in Nat /\ cache.MaxHandling \in Nat
  BY CacheConstants
<1>8. ASSUME NEW t \in 0..v2, t + cache.MaxHandling + ttl <= v2 + ttl
      PROVE  data >= v4[p][t]
  <2>1. v2 <= v5[r].at + cache.MaxHandling /\ v5[r].at <= v2 /\ data >= v4[p][v5[r].at]
    BY <1>1 DEF RequestFits
  <2>2. t \in 0..v5[r].at /\ v5[r].at \in 0..v2
    BY <1>1, <1>7, <1>8, <2>1
  <2>3. v4[p][t] <= v4[p][v5[r].at]
    BY <1>1, <2>2 DEF Cache!CacheInv, Cache!HistoryOnlyGrows
  <2>4. t \in 0..cache.MaxTime /\ v5[r].at \in 0..cache.MaxTime /\ CacheVersions \subseteq Nat
    BY <1>1, <2>2, CacheConstants DEF CacheVersions
  <2>5. v4[p][t] \in CacheVersions /\ v4[p][v5[r].at] \in CacheVersions /\ data \in CacheVersions
    <3>1. v4[p] \in [0..cache.MaxTime -> CacheVersions]
      BY <1>1
    <3> QED
      BY <1>1, <2>4, <3>1
  <2>6. v4[p][t] \in Nat /\ v4[p][v5[r].at] \in Nat /\ data \in Nat
    BY <2>4, <2>5
  <2> QED
    BY <2>1, <2>3, <2>6
<1>9. EntriesFit(v1')
  <2>1. DOMAIN v1' = (D \ S) \cup {p} /\ \A q \in DOMAIN v1' \ {p} : v1'[q] = v1[q] /\ q \in D
    BY <1>2
  <2>2. v1'[p] = [data |-> data, expiresAt |-> v2 + ttl, lastAccess |-> v2]
    BY <1>2
  <2>3. /\ v1'[p] \in CacheEntry /\ v1'[p].expiresAt <= v2 + ttl
        /\ \A t \in 0..v2 : t + cache.MaxHandling + ttl <= v1'[p].expiresAt => v1'[p].data >= v4[p][t]
    BY <1>1, <1>7, <1>8, <2>2 DEF CacheEntry
  <2> QED
    BY <1>1, <1>4, <1>6, <2>1, <2>3, SameFit DEF EntriesFit
<1>10. RequestFits([v5[r] EXCEPT !.pc = "done"])
  BY <1>1 DEF RequestFits, CacheRequest
<1> QED
  BY <1>3, <1>9, <1>10, CacheMove

\* Entries are deleted by the cleanup, the ticker's or the job's, by Stop and
\* by the handler of a write, which finds none.
LEMMA CacheDeletes ==
  ASSUME Cache!CacheInv,
         \/ Cache!Cleanup \/ Cache!Stop \/ UNCHANGED Cache!vars
         \/ \E p \in cache.Paths : Cache!WriteAnswered(p) \/ Cache!Invalidate(p)
  PROVE  Cache!CacheInv'
<1>1. EntriesFit(v1')
  <2>1. CASE Cache!Cleanup
    BY <2>1, DeletedFit DEF Cache!Cleanup
  <2>2. CASE Cache!Stop
    <3>1. DOMAIN v1' = {} /\ Cardinality({}) = 0
      BY <2>2, FS_EmptySet DEF Cache!Stop
    <3> QED
      BY <3>1, CacheConstants DEF EntriesFit
  <2>3. CASE UNCHANGED v1
    BY <2>3, SameFit
  <2>4. ASSUME NEW p \in cache.Paths, Cache!Invalidate(p) PROVE EntriesFit(v1')
    BY <2>4, DeletedFit DEF Cache!Invalidate
  <2> QED
    BY <2>1, <2>2, <2>3, <2>4 DEF Cache!vars, Cache!WriteAnswered
<1>2. UNCHANGED <<v2, v3, v4, v5>>
  BY DEF Cache!Cleanup, Cache!Stop, Cache!vars, Cache!WriteAnswered, Cache!Invalidate
<1>3. v5 \in [cache.Requests -> CacheRequest] /\ v6 \subseteq cache.Paths
  BY CacheTyped DEF Cache!CacheInv
<1>4. v6' \subseteq cache.Paths
  BY <1>3 DEF Cache!Cleanup, Cache!Stop, Cache!vars, Cache!WriteAnswered, Cache!Invalidate
<1> QED
  BY <1>1, <1>2, <1>3, <1>4, RequestsFit, CacheStep

\* A change makes the resource newer; the cache keeps what it has.
LEMMA CacheChange ==
  ASSUME Cache!CacheInv, NEW p \in cache.Paths, Cache!Change(p)
  PROVE  Cache!CacheInv'
<1>1. /\ v2 \in 0..cache.MaxTime /\ v2 \in Nat /\ v3 \in [cache.Paths -> CacheVersions]
      /\ v4 \in [cache.Paths -> [0..cache.MaxTime -> CacheVersions]]
      /\ v5 \in [cache.Requests -> CacheRequest] /\ cache.MaxVersion \in Nat
      /\ CacheVersions = 0..cache.MaxVersion /\ cache.MaxTime \in Nat
  BY CacheTyped, CacheConstants DEF Cache!CacheInv, CacheVersions
<1>2. /\ v3' = [v3 EXCEPT ![p] = @ + 1] /\ v3[p] < cache.MaxVersion
      /\ UNCHANGED <<v1, v2, v4, v5, v6>>
  BY DEF Cache!Change
<1>3. v3' \in [cache.Paths -> CacheVersions] /\ \A q \in cache.Paths : v3[q] <= v3'[q] /\ v3[q] \in Nat /\ v3'[q] \in Nat
  BY <1>1, <1>2
<1>4. EntriesFit(v1')
  BY <1>2, SameFit
<1>5. Cache!TypeOK'
  BY <1>1, <1>2, <1>3, <1>4, CacheTyped, CacheTypedAgain DEF EntriesFit, Cache!CacheInv
<1>6. Cache!HistoryOnlyGrows'
  <2> SUFFICES ASSUME NEW q \in cache.Paths, NEW t \in 0..v2
               PROVE  v4[q][t] <= v3'[q] /\ \A u \in 0..t : v4[q][u] <= v4[q][t]
    BY <1>2 DEF Cache!HistoryOnlyGrows
  <2>1. v4[q][t] <= v3[q] /\ \A u \in 0..t : v4[q][u] <= v4[q][t]
    BY DEF Cache!CacheInv, Cache!HistoryOnlyGrows
  <2>2. t \in 0..cache.MaxTime
    BY <1>1
  <2>3. v4[q][t] \in CacheVersions
    BY <1>1, <2>2
  <2>4. v4[q][t] \in Nat
    BY <1>1, <2>3
  <2> QED
    BY <1>3, <2>1, <2>4
<1>7. Cache!EntriesFresh'
  BY <1>2, <1>4 DEF EntriesFit, Cache!EntriesFresh
<1>8. Cache!AnswersFresh' /\ Cache!StalenessBounded'
  BY <1>2 DEF Cache!CacheInv, Cache!AnswersFresh, Cache!StalenessBounded
<1> QED
  BY <1>5, <1>6, <1>7, <1>8 DEF Cache!CacheInv

\* Time passes, for a handler only as long as it may take.
LEMMA CacheTick ==
  ASSUME Cache!CacheInv, Cache!Tick
  PROVE  Cache!CacheInv'
<1>1. /\ v2 \in 0..cache.MaxTime /\ v2 \in Nat /\ v3 \in [cache.Paths -> CacheVersions]
      /\ v4 \in [cache.Paths -> [0..cache.MaxTime -> CacheVersions]]
      /\ v5 \in [cache.Requests -> CacheRequest]
      /\ cache.MaxTime \in Nat /\ CacheVersions \subseteq Nat /\ cache.MaxHandling \in Nat
  BY CacheTyped, CacheConstants DEF Cache!CacheInv, CacheVersions
<1>2. /\ v2 < cache.MaxTime /\ v2' = v2 + 1 /\ UNCHANGED <<v1, v3, v5, v6>>
      /\ v4' = [p \in cache.Paths |-> [v4[p] EXCEPT ![v2 + 1] = v3[p]]]
      /\ \A r \in cache.Requests : v5[r].pc = "store" => v2 < v5[r].at + cache.MaxHandling
  BY DEF Cache!Tick
<1>3. /\ v4' \in [cache.Paths -> [0..cache.MaxTime -> CacheVersions]]
      /\ \A p \in cache.Paths : v4'[p][v2 + 1] = v3[p] /\ \A t \in 0..v2 : v4'[p][t] = v4[p][t]
  BY <1>1, <1>2
<1>4. Cache!TypeOK'
  BY <1>1, <1>2, <1>3, CacheTyped, CacheTypedAgain DEF Cache!CacheInv
<1>5. Cache!HistoryOnlyGrows'
  <2> SUFFICES ASSUME NEW p \in cache.Paths, NEW t \in 0..(v2 + 1)
               PROVE  v4'[p][t] <= v3[p] /\ \A u \in 0..t : v4'[p][u] <= v4'[p][t]
    BY <1>2 DEF Cache!HistoryOnlyGrows
  <2>1. \A u \in 0..v2 : v4[p][u] <= v3[p] /\ v4'[p][u] = v4[p][u] /\ \A w \in 0..u : v4[p][w] <= v4[p][u]
    BY <1>3 DEF Cache!CacheInv, Cache!HistoryOnlyGrows
  <2>2. v4'[p][v2 + 1] = v3[p] /\ v3[p] \in Nat
    BY <1>1, <1>3
  <2>3. CASE t = v2 + 1
    <3>1. \A u \in 0..t : u \in 0..v2 \/ u = v2 + 1
      BY <1>1, <2>3
    <3> QED
      BY <2>1, <2>2, <2>3, <3>1
  <2>4. CASE t \in 0..v2
    <3>1. \A u \in 0..t : u \in 0..v2
      BY <1>1, <2>4
    <3> QED
      BY <2>1, <2>4, <3>1
  <2> QED
    BY <1>1, <2>3, <2>4
<1>6. Cache!EntriesFresh'
  <2> SUFFICES ASSUME NEW p \in DOMAIN v1
               PROVE  /\ v1[p].expiresAt <= v2 + 1 + Cache!getCacheTTL(p)
                      /\ \A t \in 0..(v2 + 1) : t + cache.MaxHandling + Cache!getCacheTTL(p) <= v1[p].expiresAt
                                               => v1[p].data >= v4'[p][t]
    BY <1>2 DEF Cache!EntriesFresh, Cache!getCacheTTL
  <2>1. /\ v1[p].expiresAt <= v2 + Cache!getCacheTTL(p) /\ v1[p].expiresAt \in Nat /\ p \in cache.Paths
        /\ \A t \in 0..v2 : t + cache.MaxHandling + Cache!getCacheTTL(p) <= v1[p].expiresAt
                              => v1[p].data >= v4[p][t]
    BY CacheTyped DEF Cache!CacheInv, Cache!EntriesFresh, CacheEntry
  <2>2. Cache!getCacheTTL(p) \in Nat
    BY CacheConstants
  <2> QED
    BY <1>1, <1>3, <2>1, <2>2
<1>7. Cache!AnswersFresh'
  <2> SUFFICES ASSUME NEW r \in cache.Requests
               PROVE  /\ v5[r].at <= v2 + 1
                      /\ v5[r].pc = "store" => /\ v2 + 1 <= v5[r].at + cache.MaxHandling
                                               /\ v5[r].data >= v4'[v5[r].path][v5[r].at]
    BY <1>2 DEF Cache!AnswersFresh
  <2>1. /\ v5[r].at \in Nat /\ v5[r].path \in cache.Paths /\ v5[r].at <= v2
        /\ v5[r].pc = "store" => v5[r].data >= v4[v5[r].path][v5[r].at]
    BY <1>1 DEF CacheRequest, Cache!CacheInv, Cache!AnswersFresh
  <2> QED
    BY <1>1, <1>2, <1>3, <2>1
<1>8. Cache!StalenessBounded'
  <2> SUFFICES ASSUME NEW r \in cache.Requests, v5[r].from = "cache",
                      NEW old, old = Cache!getCacheTTL(v5[r].path) + cache.MaxHandling, v5[r].at > old
               PROVE  v5[r].data >= v4'[v5[r].path][v5[r].at - old]
    BY <1>2 DEF Cache!StalenessBounded, Cache!getCacheTTL
  <2>1. /\ v5[r].at \in Nat /\ v5[r].path \in cache.Paths /\ v5[r].at <= v2 /\ old \in Nat
        /\ v5[r].data >= v4[v5[r].path][v5[r].at - old]
    BY <1>1, CacheConstants DEF CacheRequest, Cache!CacheInv, Cache!AnswersFresh, Cache!StalenessBounded
  <2>2. v5[r].at - old \in 0..v2
    BY <1>1, <2>1
  <2> QED
    BY <1>3, <2>1, <2>2
<1> QED
  BY <1>4, <1>5, <1>6, <1>7, <1>8 DEF Cache!CacheInv

\* The cache starts empty and its past with the first version.
LEMMA CacheInit == Cache!Init => Cache!CacheInv
<1> SUFFICES ASSUME Cache!Init PROVE Cache!CacheInv
  OBVIOUS
<1>1. /\ DOMAIN v1 = {} /\ v2 = 0 /\ v6 = {} /\ v3 = [p \in cache.Paths |-> 0]
      /\ v4 = [p \in cache.Paths |-> [t \in 0..cache.MaxTime |-> 0]]
  BY DEF Cache!Init
<1>2. PICK asked \in [cache.Requests -> cache.Paths] :
        v5 = [r \in cache.Requests |->
          [pc |-> "idle", path |-> asked[r], tag |-> cache.MaxVersion + 1,
           then |-> "lookup", data |-> 0, at |-> 0, from |-> "nobody"]]
  BY DEF Cache!Init, Cache!NoTag
<1>3. 0 \in CacheVersions /\ 0 \in 0..cache.MaxTime
  BY CacheConstants DEF CacheVersions
<1>4. v5 \in [cache.Requests -> CacheRequest]
  BY <1>2, <1>3 DEF CacheRequest
<1>5. Cache!Cardinality({}) = 0 /\ cache.MaxEntries \in Nat
  BY CacheSets, CacheConstants, FS_EmptySet
<1>6. Cache!TypeOK
  BY <1>1, <1>3, <1>4, <1>5
  DEF Cache!TypeOK, Cache!Request, Cache!Versions, Cache!NoTag, CacheRequest, CacheVersions
<1>7. Cache!HistoryOnlyGrows /\ Cache!EntriesFresh
  BY <1>1, <1>3 DEF Cache!HistoryOnlyGrows, Cache!EntriesFresh
<1>8. Cache!AnswersFresh /\ Cache!StalenessBounded
  BY <1>1, <1>2 DEF Cache!AnswersFresh, Cache!StalenessBounded
<1> QED
  BY <1>6, <1>7, <1>8 DEF Cache!CacheInv

\* Every step keeps the invariant.
LEMMA CacheNext == Cache!CacheInv /\ [Cache!Next]_(Cache!vars) => Cache!CacheInv'
BY CacheArrive, CacheHit, CacheMiss, CacheHandle, CacheSet, CacheChange, CacheDeletes, CacheTick
DEF Cache!Next, Cache!Get

\* So it holds of every behaviour that exercises the response cache.
LEMMA CacheInvariant == Spec => [](part = "cache" => Cache!CacheInv)
<1> DEFINE Inv == part = "cache" => Cache!CacheInv
<1>1. Init => Inv
  BY CacheInit DEF Init
<1>2. Inv /\ [Next]_vars => Inv'
  BY CacheNext DEF Next, vars, Cache!vars
<1> QED
  BY <1>1, <1>2, PTL DEF Spec

\* Nobody is told a state that ended longer ago than the time to live and the
\* time a handler may take, whatever is stored late, kept in use by hits or
\* never invalidated: a hit does not prolong an entry's life.
THEOREM CacheStaleness == Spec => []StalenessBounded
<1>1. (part = "cache" => Cache!CacheInv) => StalenessBounded
  BY DEF StalenessBounded, Cache!CacheInv
<1> QED
  BY <1>1, CacheInvariant, PTL

----------------------------------------------------------------------------
(* The priority queue: v1 is jobs, v2 is pushed.                            *)

Before(a, b) == a[1] > b[1] \/ (a[1] = b[1] /\ a[2] < b[2])
InOrder(q) == \A i, k \in 1..Len(q) : i < k => Before(q[i], q[k])

\* What the parameters are.
LEMMA QueueConstants ==
  /\ queue.MaxJobs \in Nat /\ queue.Priorities \subseteq Nat
  /\ \A j \in Jobs : j[1] \in Nat /\ j[2] \in Nat
BY ServicesAssumption DEF ServicesAssumption, Queue!QueueAssumption, Jobs

\* The pass carries the new job past the jobs of lower priority and finds every
\* other where it stands.
LEMMA PassCarries ==
  ASSUME NEW q \in Seq(Jobs), InOrder(q), NEW j \in Jobs,
         NEW i \in 1..(Len(q) + 1)
  PROVE  Queue!Carried(Append(q, j), i) =
           IF i <= Len(q) /\ q[i][1] >= j[1] THEN i ELSE Len(q) + 1
<1> DEFINE n == Len(q) + 1  s == Append(q, j)
           k == IF i <= Len(q) /\ q[i][1] >= j[1] THEN i ELSE n
<1>1. /\ s \in Seq(Jobs) /\ Len(s) = n /\ s[n] = j /\ \A m \in 1..Len(q) : s[m] = q[m]
      /\ Len(q) \in Nat /\ n \in Nat
  OBVIOUS
<1>2. \A m \in 1..n : s[m] \in Jobs /\ s[m][1] \in Nat
  BY <1>1, QueueConstants
<1>3. \A m \in 1..Len(q) : \A l \in 1..m : s[l][1] >= s[m][1]
  <2> SUFFICES ASSUME NEW m \in 1..Len(q), NEW l \in 1..m PROVE s[l][1] >= s[m][1]
    OBVIOUS
  <2>1. CASE l = m
    BY <1>1, <1>2, <2>1
  <2>2. CASE l < m
    <3>1. Before(q[l], q[m])
      BY <1>1, <2>2 DEF InOrder
    <3> QED
      BY <1>1, <1>2, <3>1 DEF Before
  <2> QED
    BY <2>1, <2>2
<1> DEFINE Is(x) == /\ \A m \in i..Len(s) : s[m][1] =< s[x][1]
                    /\ \A m \in i..(x - 1) : s[m][1] < s[x][1]
<1>4. Queue!Carried(s, i) = CHOOSE x \in i..Len(s) : Is(x)
  <2>1. \A m \in i..Len(s) : s[m] \in Jobs /\ [y \in Jobs |-> y[1]][s[m]] = s[m][1]
    BY <1>1, <1>2
  <2>3. i \in Nat /\ Len(s) \in Nat
    BY <1>1
  <2> HIDE DEF s
  <2>2. ASSUME NEW x \in i..Len(s)
        PROVE  Is(x) <=> /\ \A m \in i..Len(s) : [y \in Jobs |-> y[1]][s[m]] =< [y \in Jobs |-> y[1]][s[x]]
                         /\ \A m \in i..(x - 1) : [y \in Jobs |-> y[1]][s[m]] < [y \in Jobs |-> y[1]][s[x]]
    <3>1. \A m \in i..(x - 1) : m \in i..Len(s)
      BY <2>3
    <3> QED
      BY <2>1, <3>1
  <2> QED
    BY <2>2 DEF Queue!Carried
<1> HIDE DEF s
<1>5. k \in i..Len(s) /\ Is(k)
  BY <1>1, <1>2, <1>3
<1>6. ASSUME NEW x \in i..Len(s), Is(x)
      PROVE  x = k
  BY <1>1, <1>2, <1>3, <1>6
<1> HIDE DEF k, Is
<1>7. Queue!Carried(s, i) = k
  BY <1>4, <1>5, <1>6
<1> QED
  BY <1>7 DEF k, s

\* Where everybody stands after a push.
LEMMA PushPlaces ==
  ASSUME NEW q \in Seq(Jobs), InOrder(q), NEW j \in Jobs
  PROVE  LET r == Queue!Push(q, j)
             Ahead(i) == i <= Len(q) /\ q[i][1] >= j[1]
         IN /\ r \in Seq(Jobs) /\ Len(r) = Len(q) + 1
            /\ \A i \in 1..(Len(q) + 1) :
                 r[i] = IF Ahead(i) THEN q[i]
                        ELSE IF i > 1 /\ ~Ahead(i - 1) THEN q[i - 1] ELSE j
<1> DEFINE n == Len(q) + 1  s == Append(q, j)  r == Queue!Push(q, j)
           Ahead(i) == i <= Len(q) /\ q[i][1] >= j[1]
           Place(i) == IF Ahead(i) THEN q[i] ELSE IF i > 1 /\ ~Ahead(i - 1) THEN q[i - 1] ELSE j
           pr == [y \in Jobs |-> y[1]]
           At(i) == IF i > 1 /\ pr[s[i - 1]] < pr[s[Queue!Carried(s, i)]]
                    THEN s[i - 1] ELSE s[Queue!Carried(s, i)]
<1>1. /\ Len(s) = n /\ s[n] = j /\ \A m \in 1..Len(q) : s[m] = q[m] /\ q[m] \in Jobs
      /\ Len(q) \in Nat
  OBVIOUS
<1>2. r = [i \in 1..n |-> At(i)]
  BY <1>1 DEF Queue!Push, Queue!SwapPass
<1>3. ASSUME NEW i \in 1..n
      PROVE  At(i) = Place(i) /\ Place(i) \in Jobs
  <2>1. Queue!Carried(s, i) = IF Ahead(i) THEN i ELSE n
    BY PassCarries
  <2>2. j[1] \in Nat /\ pr[j] = j[1] /\ \A m \in 1..Len(q) : q[m][1] \in Nat /\ pr[q[m]] = q[m][1]
    BY <1>1, QueueConstants
  <2> HIDE DEF s, pr
  <2>3. ASSUME NEW l \in 1..Len(q), NEW m \in 1..Len(q), l < m
        PROVE  q[l][1] >= q[m][1]
    <3>1. Before(q[l], q[m])
      BY <2>3 DEF InOrder
    <3> QED
      BY <2>2, <3>1 DEF Before
  <2>4. CASE Ahead(i)
    <3>1. Queue!Carried(s, i) = i /\ s[i] = q[i] /\ i \in 1..Len(q)
      BY <1>1, <2>1, <2>4
    <3>2. ~(i > 1 /\ pr[s[i - 1]] < pr[s[i]])
      BY <1>1, <2>2, <2>3, <3>1
    <3> QED
      BY <1>1, <2>4, <3>1, <3>2
  <2>5. CASE ~Ahead(i)
    <3>1. Queue!Carried(s, i) = n /\ s[n] = j
      BY <1>1, <2>1, <2>5
    <3>2. CASE i > 1
      <4>1. i - 1 \in 1..Len(q) /\ s[i - 1] = q[i - 1]
        BY <1>1, <3>2
      <4>2. pr[s[i - 1]] < pr[j] <=> ~Ahead(i - 1)
        BY <1>1, <2>2, <4>1
      <4> QED
        BY <1>1, <2>5, <3>1, <3>2, <4>1, <4>2
    <3>3. CASE ~(i > 1)
      BY <2>5, <3>1, <3>3
    <3> QED
      BY <3>2, <3>3
  <2> QED
    BY <2>4, <2>5
<1> HIDE DEF At, Place, Ahead
<1>4. r = [i \in 1..n |-> Place(i)]
  BY <1>2, <1>3
<1>5. r \in Seq(Jobs) /\ Len(r) = n
  BY <1>1, <1>3, <1>4
<1>6. \A i \in 1..n : r[i] = Place(i)
  BY <1>4
<1> HIDE DEF r
<1> QED
  BY <1>5, <1>6 DEF r, Place, Ahead

\* A job pushed later than all that wait goes behind its equals.
LEMMA PushKeepsOrder ==
  ASSUME NEW q \in Seq(Jobs), InOrder(q), NEW j \in Jobs,
         \A i \in 1..Len(q) : q[i][2] < j[2]
  PROVE  InOrder(Queue!Push(q, j))
<1> DEFINE r == Queue!Push(q, j)
           Ahead(i) == i <= Len(q) /\ q[i][1] >= j[1]
<1>1. /\ Len(r) = Len(q) + 1 /\ Len(q) \in Nat
      /\ \A i \in 1..(Len(q) + 1) :
           r[i] = IF Ahead(i) THEN q[i] ELSE IF i > 1 /\ ~Ahead(i - 1) THEN q[i - 1] ELSE j
  BY PushPlaces
<1> HIDE DEF r
<1>2. j[1] \in Nat /\ j[2] \in Nat /\ \A m \in 1..Len(q) : q[m][1] \in Nat /\ q[m][2] \in Nat
  BY QueueConstants
<1>3. \A l, m \in 1..Len(q) : l < m => Before(q[l], q[m])
  BY DEF InOrder
<1>4. \A l, m \in 1..Len(q) : l < m /\ Ahead(m) => Ahead(l)
  BY <1>1, <1>2, <1>3 DEF Before
<1>5. \A m \in 1..Len(q) : (Ahead(m) => Before(q[m], j)) /\ (~Ahead(m) => Before(j, q[m]))
  BY <1>1, <1>2 DEF Before
<1>6. ASSUME NEW i \in 1..Len(r), NEW k \in 1..Len(r), i < k
      PROVE  Before(r[i], r[k])
  <2>1. i \in 1..Len(q) /\ k - 1 \in 1..Len(q) /\ k \in 1..(Len(q) + 1) /\ k > 1 /\ i <= k - 1
    BY <1>1, <1>6
  <2>2. CASE Ahead(k)
    <3>1. k \in 1..Len(q) /\ Ahead(i) /\ r[i] = q[i] /\ r[k] = q[k]
      BY <1>1, <1>4, <1>6, <2>1, <2>2
    <3> QED
      BY <1>3, <1>6, <2>1, <3>1
  <2>3. CASE ~Ahead(k) /\ Ahead(k - 1)
    <3>1. Ahead(i) /\ r[i] = q[i] /\ r[k] = j
      BY <1>1, <1>4, <2>1, <2>3
    <3> QED
      BY <1>5, <2>1, <3>1
  <2>4. CASE ~Ahead(k) /\ ~Ahead(k - 1)
    <3>1. r[k] = q[k - 1]
      BY <1>1, <2>1, <2>4
    <3>2. CASE Ahead(i)
      <4>1. r[i] = q[i] /\ i < k - 1
        BY <1>1, <2>1, <2>4, <3>2
      <4> QED
        BY <1>3, <2>1, <3>1, <4>1
    <3>3. CASE ~Ahead(i) /\ i > 1 /\ ~Ahead(i - 1)
      <4>1. r[i] = q[i - 1] /\ i - 1 \in 1..Len(q) /\ i - 1 < k - 1
        BY <1>1, <2>1, <1>6, <3>3
      <4> QED
        BY <1>3, <2>1, <3>1, <4>1
    <3>4. CASE ~Ahead(i) /\ ~(i > 1 /\ ~Ahead(i - 1))
      <4>1. r[i] = j
        BY <1>1, <2>1, <3>4
      <4> QED
        BY <1>5, <2>1, <2>4, <3>1, <4>1
    <3> QED
      BY <3>2, <3>3, <3>4
  <2> QED
    BY <2>2, <2>3, <2>4
<1> QED
  BY <1>6 DEF InOrder, r

QueueInv ==
  /\ v1 \in Seq(Jobs) /\ v2 \in 0..queue.MaxJobs /\ InOrder(v1)
  /\ \A i \in 1..Len(v1) : v1[i][2] <= v2

\* A push and a pop keep the order.
LEMMA QueueNext == QueueInv /\ [Queue!Next]_(Queue!vars) => QueueInv'
<1> SUFFICES ASSUME QueueInv, [Queue!Next]_(Queue!vars) PROVE QueueInv'
  OBVIOUS
<1>1. CASE UNCHANGED Queue!vars
  BY <1>1 DEF QueueInv, Queue!vars, InOrder
<1>2. CASE Queue!PopJob
  <2>1. /\ v1 # <<>> /\ v1' = Tail(v1) /\ v2' = v2 /\ v1 \in Seq(Jobs)
    BY <1>2 DEF Queue!PopJob, Queue!CanPop, Queue!AfterPop, QueueInv
  <2>2. /\ v1' \in Seq(Jobs) /\ Len(v1') = Len(v1) - 1 /\ Len(v1) \in Nat
        /\ \A i \in 1..Len(v1') : v1'[i] = v1[i + 1]
    BY <2>1
  <2> QED
    BY <2>1, <2>2 DEF QueueInv, InOrder
<1>3. ASSUME NEW p \in queue.Priorities, Queue!PushJob(p)
      PROVE  QueueInv'
  <2> DEFINE j == <<p, v2'>>  r == Queue!Push(v1, j)
  <2>1. v2 < queue.MaxJobs /\ v2' = v2 + 1 /\ v1' = r /\ v1 \in Seq(Jobs) /\ v2 \in Nat
    BY <1>3, QueueConstants DEF Queue!PushJob, QueueInv
  <2>2. v2' \in 1..queue.MaxJobs /\ v2' \in 0..queue.MaxJobs
    BY <2>1, QueueConstants
  <2>3. j \in Jobs /\ j[2] = v2 + 1
    BY <2>1, <2>2 DEF Jobs
  <2> HIDE DEF j
  <2>4. \A i \in 1..Len(v1) : v1[i] \in Jobs /\ v1[i][2] \in Nat /\ v1[i][2] <= v2
    BY <2>1, QueueConstants DEF QueueInv
  <2>5. InOrder(r)
    BY <2>1, <2>3, <2>4, PushKeepsOrder DEF QueueInv
  <2>6. /\ r \in Seq(Jobs) /\ Len(r) = Len(v1) + 1 /\ Len(v1) \in Nat
        /\ \A i \in 1..(Len(v1) + 1) :
             \/ i \in 1..Len(v1) /\ r[i] = v1[i]
             \/ i - 1 \in 1..Len(v1) /\ r[i] = v1[i - 1]
             \/ r[i] = j
    BY <2>1, <2>3, PushPlaces DEF QueueInv
  <2> HIDE DEF r
  <2>7. ASSUME NEW i \in 1..Len(r)
        PROVE  r[i][2] <= v2 + 1
    <3>1. CASE r[i] = j
      BY <2>1, <2>3, <3>1
    <3>2. ASSUME NEW k \in 1..Len(v1), r[i] = v1[k]
          PROVE  r[i][2] <= v2 + 1
      <4>1. v1[k][2] \in Nat /\ v1[k][2] <= v2
        BY <2>4
      <4> QED
        BY <2>1, <3>2, <4>1
    <3> QED
      BY <2>6, <3>1, <3>2
  <2> QED
    BY <2>1, <2>2, <2>5, <2>6, <2>7 DEF QueueInv
<1> QED
  BY <1>1, <1>2, <1>3 DEF Queue!Next

\* The queue starts empty.
LEMMA QueueInit == Queue!Init => QueueInv
BY QueueConstants DEF Queue!Init, QueueInv, InOrder

\* The dispatcher always takes the job of the highest priority, and among
\* equals the one that has waited longest, whatever has been pushed and popped:
\* one swapping pass per Push is enough.
THEOREM QueueIsInOrder == Spec => []PriorityThenAge
<1> DEFINE Inv == part = "queue" => QueueInv
<1>1. Init => Inv
  BY QueueInit DEF Init
<1>2. Inv /\ [Next]_vars => Inv'
  BY QueueNext DEF Next, vars, Queue!vars
<1>3. Inv => PriorityThenAge
  <2> SUFFICES ASSUME QueueInv PROVE Queue!PriorityThenAge
    BY DEF PriorityThenAge
  <2>1. DOMAIN v1 = 1..Len(v1)
    BY DEF QueueInv
  <2> QED
    BY <2>1 DEF QueueInv, InOrder, Before, Queue!PriorityThenAge
<1> QED
  BY <1>1, <1>2, <1>3, PTL DEF Spec
----------------------------------------------------------------------------
(* Arithmetic and induction, which come from the well-foundedness of the     *)
(* natural numbers.                                                         *)

\* What holds of zero and passes from each number to the next holds of all.
LEMMA SetInduction ==
  ASSUME NEW S, 0 \in S, \A n \in Nat : n \in S => n + 1 \in S
  PROVE  Nat \subseteq S
<1> SUFFICES ASSUME Nat \ S # {} PROVE FALSE
  OBVIOUS
<1>1. PICK x \in Nat \ S : \A y \in Nat \ S : ~(y < x)
  <2>1. Nat \ S \subseteq Nat
    OBVIOUS
  <2> QED
    BY <2>1, Locks!LeastOf
<1>2. x # 0 /\ x - 1 \in Nat
  BY <1>1
<1>3. x - 1 \in S
  BY <1>1, <1>2
<1>4. (x - 1) + 1 = x
  BY <1>2
<1> QED
  BY <1>1, <1>2, <1>3, <1>4

\* Products grow with their factors.
LEMMA TimesGrows ==
  ASSUME NEW a \in Nat, NEW b \in Nat, NEW c \in Nat, NEW d \in Nat, a <= b, c <= d
  PROVE  a * c \in Nat /\ b * d \in Nat /\ a * c <= b * d
<1>1. a * c <= b * c /\ b * c <= b * d
  OBVIOUS
<1>2. a * c \in Nat /\ b * c \in Nat /\ b * d \in Nat
  OBVIOUS
<1> QED
  BY <1>1, <1>2

\* What is at least the divisor gives a quotient of at least one.
LEMMA QuotientPositive ==
  ASSUME NEW a \in Nat, NEW b \in Nat \ {0}, b <= a
  PROVE  a \div b \in Nat /\ a \div b >= 1
<1>1. a = (b * (a \div b)) + (a % b) /\ (a % b) \in 0..(b - 1) /\ a \div b \in Int
  OBVIOUS
<1>2. CASE a \div b <= 0
  <2>1. b * (a \div b) <= 0
    BY <1>1, <1>2
  <2> QED
    BY <1>1, <2>1
<1> QED
  BY <1>1, <1>2

----------------------------------------------------------------------------
(* The retry mechanism: v1 is strategy, v2 call, v3 stats, v4 resets and v5  *)
(* failures.                                                                *)

Attempts == 0..retry.MaxAttempts

\* The same for the instance of the retry mechanism.
LEMMA RetrySets == \A S : Retry!Cardinality(S) = Cardinality(S)
BY DEF Retry!Cardinality, Cardinality, Retry!IsFiniteSet, IsFiniteSet

\* What the parameters are.
LEMMA RetryConstants ==
  /\ retry.MaxAttempts \in Nat \ {0} /\ retry.InitialDelay \in Nat \ {0}
  /\ retry.MaxDelay \in Nat \ {0} /\ retry.JitterPercent \in 0..100
  /\ retry.Multiplier[1] \in Nat \ {0} /\ retry.Multiplier[2] \in Nat \ {0}
  /\ retry.Multiplier[1] >= retry.Multiplier[2]
  /\ retry.Strategies \subseteq {"Exponential", "Linear", "Constant", "Fibonacci"}
  /\ retry.Half \in Nat /\ retry.MaxResets \in Nat /\ IsFiniteSet(retry.Calls)
  /\ retry.MaxDelay + (retry.MaxDelay * retry.JitterPercent) \div 100 < retry.Half
BY ServicesAssumption
DEF ServicesAssumption, Retry!RetryAssumption, Retry!IsFiniteSet, IsFiniteSet

\* fibonacci is a function that obeys its definition, and grows from 1.
LEMMA FibonacciObeys ==
  Retry!fibonacci = [n \in Attempts |-> IF n <= 1 THEN n
                                        ELSE Retry!fibonacci[n - 1] + Retry!fibonacci[n - 2]]
<1> DEFINE Sum(g, n) == IF n <= 1 THEN n ELSE g[n - 1] + g[n - 2]
           S == {m \in Nat : \E g \in [0..m -> Nat] : \A k \in 0..m : g[k] = Sum(g, k)}
<1>1. 0 \in S
  <2> DEFINE g == [k \in 0..0 |-> 0]
  <2>1. g \in [0..0 -> Nat] /\ \A k \in 0..0 : g[k] = Sum(g, k)
    OBVIOUS
  <2> QED
    BY <2>1
<1>2. ASSUME NEW n \in Nat, n \in S
      PROVE  n + 1 \in S
  <2>1. PICK g \in [0..n -> Nat] : \A k \in 0..n : g[k] = Sum(g, k)
    BY <1>2
  <2> DEFINE h == [k \in 0..(n + 1) |-> IF k <= n THEN g[k] ELSE Sum(g, n + 1)]
  <2>2. Sum(g, n + 1) \in Nat
    <3>1. CASE n + 1 <= 1
      BY <3>1
    <3>2. CASE ~(n + 1 <= 1)
      <4>1. (n + 1) - 1 \in 0..n /\ (n + 1) - 2 \in 0..n
        BY <3>2
      <4> QED
        BY <3>2, <4>1
    <3> QED
      BY <3>1, <3>2
  <2>3. h \in [0..(n + 1) -> Nat]
    BY <2>2
  <2>4. ASSUME NEW k \in 0..(n + 1)
        PROVE  h[k] = Sum(h, k)
    <3>1. \A l \in 0..n : h[l] = g[l]
      OBVIOUS
    <3>2. Sum(h, k) = Sum(g, k)
      <4>1. CASE k <= 1
        BY <4>1
      <4>2. CASE ~(k <= 1)
        <5>1. k - 1 \in 0..n /\ k - 2 \in 0..n
          BY <4>2
        <5> QED
          BY <3>1, <4>2, <5>1
      <4> QED
        BY <4>1, <4>2
    <3>3. CASE k <= n
      <4>1. k \in 0..n
        BY <3>3
      <4> QED
        BY <2>1, <3>1, <3>2, <4>1
    <3>4. CASE k = n + 1
      <4>1. h[k] = Sum(g, k)
        BY <3>4
      <4> QED
        BY <3>2, <4>1
    <3> QED
      BY <3>3, <3>4
  <2> HIDE DEF h, Sum
  <2> QED
    BY <2>3, <2>4
<1>3. retry.MaxAttempts \in S
  <2> HIDE DEF S
  <2> QED
    BY <1>1, <1>2, SetInduction, RetryConstants
<1>4. PICK g \in [Attempts -> Nat] : \A k \in Attempts : g[k] = Sum(g, k)
  BY <1>3 DEF Attempts
<1>5. g = [n \in Attempts |-> Sum(g, n)]
  BY <1>4
<1> QED
  BY <1>5 DEF Retry!fibonacci, Attempts

\* The Fibonacci numbers from the first on are positive.
LEMMA FibonacciPositive ==
  ASSUME NEW n \in 1..retry.MaxAttempts
  PROVE  Retry!fibonacci[n] \in Nat /\ Retry!fibonacci[n] >= 1
<1> DEFINE f == Retry!fibonacci
           Good(k) == k \in Attempts => f[k] \in Nat /\ (k >= 1 => f[k] >= 1)
           S == {m \in Nat : \A k \in 0..m : Good(k)}
<1>1. \A k \in Attempts : f[k] = IF k <= 1 THEN k ELSE f[k - 1] + f[k - 2]
  BY FibonacciObeys
<1>2. 0 \in S
  BY <1>1 DEF Attempts
<1> HIDE DEF f
<1>3. ASSUME NEW m \in Nat, m \in S
      PROVE  m + 1 \in S
  <2>1. Good(m + 1)
    <3> SUFFICES ASSUME m + 1 \in Attempts PROVE f[m + 1] \in Nat /\ f[m + 1] >= 1
      OBVIOUS
    <3>1. CASE m + 1 <= 1
      BY <1>1, <3>1
    <3>2. CASE ~(m + 1 <= 1)
      <4>1. (m + 1) - 1 = m /\ (m + 1) - 2 = m - 1 /\ m >= 1
        BY <3>2
      <4>2. {m, m - 1} \subseteq Attempts /\ {m, m - 1} \subseteq 0..m
        BY <4>1, RetryConstants DEF Attempts
      <4>3. f[m] \in Nat /\ f[m] >= 1 /\ f[m - 1] \in Nat
        BY <1>3, <4>1, <4>2
      <4>4. f[m + 1] = f[m] + f[m - 1]
        BY <1>1, <3>2, <4>1
      <4> QED
        BY <4>3, <4>4
    <3> QED
      BY <3>1, <3>2
  <2>2. \A k \in 0..(m + 1) : k \in 0..m \/ k = m + 1
    OBVIOUS
  <2> HIDE DEF Good
  <2> QED
    BY <1>3, <2>1, <2>2
<1>4. n \in S
  <2> HIDE DEF S
  <2> QED
    BY <1>2, <1>3, SetInduction, RetryConstants
<1>5. n \in 0..n /\ n \in Attempts /\ n >= 1
  BY RetryConstants DEF Attempts
<1> QED
  BY <1>4, <1>5 DEF f

\* So are the powers of a base ...
LEMMA PowersObey ==
  ASSUME NEW b \in Nat
  PROVE  Retry!Powers(b) = [n \in Attempts |-> IF n = 0 THEN 1 ELSE b * Retry!Powers(b)[n - 1]]
<1> DEFINE Times(g, n) == IF n = 0 THEN 1 ELSE b * g[n - 1]
           S == {m \in Nat : \E g \in [0..m -> Nat] : \A k \in 0..m : g[k] = Times(g, k)}
<1>1. 0 \in S
  <2> DEFINE g == [k \in 0..0 |-> 1]
  <2>1. g \in [0..0 -> Nat] /\ \A k \in 0..0 : g[k] = Times(g, k)
    OBVIOUS
  <2> QED
    BY <2>1
<1>2. ASSUME NEW n \in Nat, n \in S
      PROVE  n + 1 \in S
  <2>1. PICK g \in [0..n -> Nat] : \A k \in 0..n : g[k] = Times(g, k)
    BY <1>2
  <2> DEFINE h == [k \in 0..(n + 1) |-> IF k <= n THEN g[k] ELSE b * g[n]]
  <2>2. b * g[n] \in Nat
    OBVIOUS
  <2>3. h \in [0..(n + 1) -> Nat]
    BY <2>2
  <2>4. ASSUME NEW k \in 0..(n + 1)
        PROVE  h[k] = Times(h, k)
    <3>1. \A l \in 0..n : h[l] = g[l]
      OBVIOUS
    <3>2. CASE k <= n
      <4>1. k \in 0..n /\ (k # 0 => k - 1 \in 0..n)
        BY <3>2
      <4> QED
        BY <2>1, <3>1, <4>1
    <3>3. CASE k = n + 1
      <4>1. h[k] = b * g[n] /\ k # 0 /\ k - 1 = n /\ h[n] = g[n]
        BY <3>1, <3>3
      <4> QED
        BY <4>1
    <3> QED
      BY <3>2, <3>3
  <2> HIDE DEF h
  <2> QED
    BY <2>3, <2>4
<1>3. retry.MaxAttempts \in S
  <2> HIDE DEF S
  <2> QED
    BY <1>1, <1>2, SetInduction, RetryConstants
<1>4. PICK g \in [Attempts -> Nat] : \A k \in Attempts : g[k] = Times(g, k)
  BY <1>3 DEF Attempts
<1>5. g = [n \in Attempts |-> Times(g, n)]
  BY <1>4
<1> QED
  BY <1>5 DEF Retry!Powers, Attempts

\* ... and those of a greater base are greater.
LEMMA PowersGrow ==
  ASSUME NEW a \in Nat \ {0}, NEW b \in Nat \ {0}, b <= a, NEW n \in Attempts
  PROVE  /\ Retry!Powers(a)[n] \in Nat /\ Retry!Powers(b)[n] \in Nat \ {0}
         /\ Retry!Powers(b)[n] <= Retry!Powers(a)[n]
<1> DEFINE f == Retry!Powers(a)  g == Retry!Powers(b)
           Good(k) == k \in Attempts => f[k] \in Nat /\ g[k] \in Nat \ {0} /\ g[k] <= f[k]
           S == {m \in Nat : Good(m)}
<1>1. \A k \in Attempts : /\ f[k] = IF k = 0 THEN 1 ELSE a * f[k - 1]
                          /\ g[k] = IF k = 0 THEN 1 ELSE b * g[k - 1]
  BY PowersObey
<1> HIDE DEF f, g
<1>2. 0 \in S
  BY <1>1
<1>3. ASSUME NEW m \in Nat, m \in S
      PROVE  m + 1 \in S
  <2> SUFFICES ASSUME m + 1 \in Attempts PROVE f[m + 1] \in Nat /\ g[m + 1] \in Nat \ {0} /\ g[m + 1] <= f[m + 1]
    OBVIOUS
  <2>1. m \in Attempts /\ (m + 1) - 1 = m /\ m + 1 # 0
    BY RetryConstants DEF Attempts
  <2>2. f[m] \in Nat /\ g[m] \in Nat \ {0} /\ g[m] <= f[m]
    BY <1>3, <2>1
  <2>3. f[m + 1] = a * f[m] /\ g[m + 1] = b * g[m]
    BY <1>1, <2>1
  <2>4. b * g[m] \in Nat /\ a * f[m] \in Nat /\ b * g[m] <= a * f[m]
    BY <2>2, TimesGrows
  <2>5. 1 * 1 <= b * g[m]
    BY <2>2, TimesGrows
  <2> QED
    BY <2>3, <2>4, <2>5
<1>4. n \in S
  <2> HIDE DEF S
  <2>1. n \in Nat
    BY RetryConstants DEF Attempts
  <2> QED
    BY <1>2, <1>3, <2>1, SetInduction
<1> QED
  BY <1>4 DEF f, g
\* Every strategy multiplies the initial delay with a positive number.
LEMMA FactorPositive ==
  ASSUME v1 \in retry.Strategies, NEW a \in 1..retry.MaxAttempts
  PROVE  Retry!Factor(a) \in Nat /\ Retry!Factor(a) >= 1
<1>1. v1 \in {"Exponential", "Linear", "Constant", "Fibonacci"}
  BY RetryConstants
<1>2. CASE v1 = "Exponential"
  <2> DEFINE p == Retry!Powers(retry.Multiplier[1])[a - 1]
             q == Retry!Powers(retry.Multiplier[2])[a - 1]
  <2>1. a - 1 \in Attempts
    BY RetryConstants DEF Attempts
  <2>2. p \in Nat /\ q \in Nat \ {0} /\ q <= p
    BY <2>1, PowersGrow, RetryConstants
  <2>3. Retry!Factor(a) = p \div q
    BY <1>2 DEF Retry!Factor
  <2> HIDE DEF p, q
  <2> QED
    BY <2>2, <2>3, QuotientPositive
<1>3. CASE v1 = "Linear"
  BY <1>3 DEF Retry!Factor
<1>4. CASE v1 = "Constant"
  BY <1>4 DEF Retry!Factor
<1>5. CASE v1 = "Fibonacci"
  <2>1. Retry!Factor(a) = Retry!fibonacci[a]
    BY <1>5 DEF Retry!Factor
  <2> QED
    BY <2>1, FibonacciPositive
<1> QED
  BY <1>1, <1>2, <1>3, <1>4, <1>5

\* The delay before it is capped is at least the initial one.
LEMMA ProductGrows ==
  ASSUME v1 \in retry.Strategies, NEW a \in 1..retry.MaxAttempts
  PROVE  Retry!Product(a) \in Nat /\ Retry!Product(a) >= retry.InitialDelay
<1>1. retry.InitialDelay * 1 <= retry.InitialDelay * Retry!Factor(a) /\ retry.InitialDelay * Retry!Factor(a) \in Nat
  BY FactorPositive, RetryConstants, TimesGrows
<1> QED
  BY <1>1, RetryConstants DEF Retry!Product

\* What fits into a Duration stays as it is.
LEMMA WrapsNothing ==
  ASSUME NEW n \in Nat, n < retry.Half
  PROVE  Retry!Wrapped(n) = n
<1>1. n + retry.Half \in Nat /\ 2 * retry.Half \in Nat /\ n + retry.Half < 2 * retry.Half
  BY RetryConstants
<1>2. (n + retry.Half) % (2 * retry.Half) = n + retry.Half
  BY <1>1
<1> QED
  BY <1>2, RetryConstants DEF Retry!Wrapped

\* What is left of a number that does not fit is an integer.
LEMMA WrappedIsInt ==
  ASSUME NEW n \in Int
  PROVE  Retry!Wrapped(n) \in Int
<1>1. retry.Half \in Nat \ {0} /\ 2 * retry.Half \in Nat \ {0}
  BY RetryConstants
<1>2. (n + retry.Half) % (2 * retry.Half) \in Int
  BY <1>1
<1> QED
  BY <1>1, <1>2 DEF Retry!Wrapped

\* The jitter is a part of the delay, and grows more slowly than it.
LEMMA JitterSmall ==
  ASSUME NEW d \in Nat, NEW e \in Nat, d <= e
  PROVE  /\ Retry!Jitter(d) \in Nat /\ Retry!Jitter(d) <= d
         /\ Retry!Jitter(d) <= Retry!Jitter(e)
         /\ d - Retry!Jitter(d) <= e - Retry!Jitter(e)
<1> DEFINE J == retry.JitterPercent
<1>1. J \in Nat /\ J <= 100
  BY RetryConstants
<1> HIDE DEF J
<1>2. d * J \in Nat /\ e * J \in Nat /\ d * J <= e * J /\ d * J <= d * 100
  BY <1>1, TimesGrows
<1>3. e - d \in Nat /\ (e - d) * J <= (e - d) * 100
  BY <1>1, TimesGrows
<1>4. e * J = d * J + (e - d) * J
  BY <1>1
<1> DEFINE x == d * J  y == e * J  z == (e - d) * J
<1>5. x \in Nat /\ y \in Nat /\ x <= y /\ x <= d * 100
  BY <1>2
<1>6. y = x + z /\ z <= (e - d) * 100
  BY <1>3, <1>4
<1>7. Retry!Jitter(d) = x \div 100 /\ Retry!Jitter(e) = y \div 100
  BY DEF Retry!Jitter, J
<1>8. z \in Int
  BY <1>1
<1> HIDE DEF x, y, z
<1>9. x \div 100 \in Nat /\ x \div 100 <= d /\ x \div 100 <= y \div 100
  BY <1>5
<1>10. d - x \div 100 <= e - y \div 100
  <2>1. y <= x + (e - d) * 100
    BY <1>5, <1>6, <1>8
  <2> QED
    BY <1>5, <2>1
<1> QED
  BY <1>7, <1>9, <1>10

\* A delay is an integer, wrapped or not.
LEMMA DelaysAreInts ==
  ASSUME v1 \in retry.Strategies, NEW a \in 1..retry.MaxAttempts
  PROVE  Retry!Delays(a) \subseteq Int
<1> DEFINE b == Retry!BaseDelay(a)
<1>1. b \in Int
  BY ProductGrows, WrappedIsInt, RetryConstants DEF Retry!BaseDelay
<1> HIDE DEF b
<1>2. b * retry.JitterPercent \in Int
  BY <1>1, RetryConstants
<1>3. Retry!Jitter(b) \in Int
  BY <1>2 DEF Retry!Jitter
<1>4. Retry!Wrapped(b - Retry!Jitter(b)) \in Int /\ Retry!Wrapped(b + Retry!Jitter(b)) \in Int
  BY <1>1, <1>3, WrappedIsInt
<1> QED
  BY <1>1, <1>4 DEF Retry!Delays, b

InBounds(wait) ==
  /\ wait <= retry.MaxDelay + Retry!Jitter(retry.MaxDelay)
  /\ \/ wait >= retry.InitialDelay - Retry!Jitter(retry.InitialDelay)
     \/ wait >= retry.MaxDelay - Retry!Jitter(retry.MaxDelay)

\* A product that does not overflow gives a delay within the bounds, jitter and all.
LEMMA DelaysInBounds ==
  ASSUME v1 \in retry.Strategies, NEW a \in 1..retry.MaxAttempts, Retry!Product(a) < retry.Half,
         NEW d \in Retry!Delays(a)
  PROVE  InBounds(d)
<1> DEFINE b == Retry!BaseDelay(a)  I == retry.InitialDelay  M == retry.MaxDelay
<1>1. I \in Nat /\ M \in Nat /\ M + Retry!Jitter(M) < retry.Half /\ retry.Half \in Nat
  BY RetryConstants DEF Retry!Jitter
<1>2. b \in Nat /\ b <= M /\ (b >= I \/ b = M)
  <2>1. /\ Retry!Wrapped(Retry!Product(a)) = Retry!Product(a)
        /\ Retry!Product(a) \in Nat /\ Retry!Product(a) >= I
    BY ProductGrows, WrapsNothing
  <2> QED
    BY <1>1, <2>1 DEF Retry!BaseDelay
<1>3. d \in {Retry!Wrapped(b - Retry!Jitter(b)), b, Retry!Wrapped(b + Retry!Jitter(b))}
  BY DEF Retry!Delays
<1> HIDE DEF b, I, M
<1>4. /\ Retry!Jitter(b) \in Nat /\ Retry!Jitter(b) <= b /\ Retry!Jitter(b) <= Retry!Jitter(M)
      /\ Retry!Jitter(M) \in Nat /\ Retry!Jitter(M) <= M /\ Retry!Jitter(I) \in Nat
      /\ b - Retry!Jitter(b) <= M - Retry!Jitter(M)
      /\ b >= I => I - Retry!Jitter(I) <= b - Retry!Jitter(b)
  BY <1>1, <1>2, JitterSmall
<1>5. /\ Retry!Wrapped(b - Retry!Jitter(b)) = b - Retry!Jitter(b)
      /\ Retry!Wrapped(b + Retry!Jitter(b)) = b + Retry!Jitter(b)
  <2>1. /\ b - Retry!Jitter(b) \in Nat /\ b + Retry!Jitter(b) \in Nat
        /\ b - Retry!Jitter(b) < retry.Half /\ b + Retry!Jitter(b) < retry.Half
    BY <1>1, <1>2, <1>4
  <2> QED
    BY <2>1, WrapsNothing
<1>6. d \in Int /\ b - Retry!Jitter(b) <= d /\ d <= b + Retry!Jitter(b)
  BY <1>2, <1>3, <1>4, <1>5
<1>7. d <= M + Retry!Jitter(M)
  BY <1>1, <1>2, <1>4, <1>6
<1>8. CASE b >= I
  BY <1>1, <1>2, <1>4, <1>6, <1>7, <1>8 DEF InBounds, I, M
<1>9. CASE b = M
  BY <1>1, <1>2, <1>4, <1>6, <1>7, <1>9 DEF InBounds, I, M
<1> QED
  BY <1>2, <1>8, <1>9
RetryCall == [pc : {"try", "record", "wait", "success", "failure",
                    "succeeded", "gaveUp", "returned", "cancelled"},
              attempt : 1..retry.MaxAttempts, wait : Int,
              outcome : {"none", "success", "retryable", "other"}]
RetryCounters == {"TotalAttempts", "SuccessfulRetries", "FailedRetries"}

\* The type invariant, part by part.
LEMMA RetryTyped ==
  Retry!TypeOK <=> /\ v1 \in retry.Strategies /\ v4 \in 0..retry.MaxResets
                   /\ v2 \in [retry.Calls -> RetryCall] /\ v3 \in [RetryCounters -> Nat]
                   /\ v5 \in [retry.Calls -> Attempts]
BY DEF Retry!TypeOK, Retry!PCs, Retry!Counters, RetryCall, RetryCounters, Attempts, Retry!Int, Int

\* ... and after a step.
LEMMA RetryTypedAgain ==
  Retry!TypeOK' <=> /\ v1' \in retry.Strategies /\ v4' \in 0..retry.MaxResets
                    /\ v2' \in [retry.Calls -> RetryCall] /\ v3' \in [RetryCounters -> Nat]
                    /\ v5' \in [retry.Calls -> Attempts]
BY DEF Retry!TypeOK, Retry!PCs, Retry!Counters, RetryCall, RetryCounters, Attempts, Retry!Int, Int

\* What is to be shown of a call that a step moves, and of its failures.
CallFits(k, failed) ==
  /\ k \in RetryCall /\ failed \in Attempts
  /\ k.pc \in {"try", "success", "succeeded", "returned"} => failed = k.attempt - 1
  /\ k.pc = "record" => failed = IF k.outcome = "retryable" THEN k.attempt ELSE k.attempt - 1
  /\ k.pc = "wait" => /\ failed = k.attempt /\ k.attempt < retry.MaxAttempts
                      /\ Retry!Product(k.attempt) < retry.Half => InBounds(k.wait)
  /\ k.pc \in {"failure", "gaveUp"} => failed = retry.MaxAttempts
  /\ k.pc = "cancelled" => failed < retry.MaxAttempts

\* What the invariant says of one call.
LEMMA CallsFit ==
  ASSUME Retry!RetryInv, NEW c \in retry.Calls
  PROVE  CallFits(v2[c], v5[c])
BY RetryTyped
DEF CallFits, InBounds, Retry!RetryInv, Retry!FailuresCounted, Retry!RetriesBounded, Retry!WaitsWithinBounds

\* The calls that have given up.
GaveUp(f) == {c \in retry.Calls : f[c].pc = "gaveUp"}

\* A step that leaves every call as it should be keeps the invariant.
LEMMA RetryStep ==
  ASSUME Retry!RetryInv, v1' = v1, v4' \in 0..retry.MaxResets, v3' \in [RetryCounters -> Nat],
         v2' \in [retry.Calls -> RetryCall], v5' \in [retry.Calls -> Attempts],
         \A c \in retry.Calls : CallFits(v2'[c], v5'[c]),
         v4' = 0 => v3'["FailedRetries"] = Cardinality(GaveUp(v2'))
  PROVE  Retry!RetryInv'
<1>1. Retry!TypeOK'
  BY RetryTyped, RetryTypedAgain DEF Retry!RetryInv
<1>2. Retry!FailuresCounted'
  BY DEF CallFits, Retry!FailuresCounted
<1>3. Retry!WaitsWithinBounds'
  <2> SUFFICES ASSUME NEW c \in retry.Calls, v2'[c].pc = "wait",
                      Retry!Product(v2[c].attempt)' < retry.Half
               PROVE  InBounds(v2'[c].wait)
    BY DEF Retry!WaitsWithinBounds, InBounds, Retry!Jitter
  <2>1. Retry!fibonacci' = Retry!fibonacci
    BY DEF Retry!fibonacci
  <2>2. \A b : Retry!Powers(b)' = Retry!Powers(b)
    BY DEF Retry!Powers
  <2>3. Retry!Product(v2[c].attempt)' = Retry!Product(v2'[c].attempt)
    BY <2>1, <2>2 DEF Retry!Product, Retry!Factor
  <2> QED
    BY <2>3 DEF CallFits
<1>4. Retry!GivesUpExhausted'
  <2>1. ASSUME NEW c \in retry.Calls
        PROVE  v2'[c].pc \in {"failure", "gaveUp"} <=> v5'[c] = retry.MaxAttempts /\ v2'[c].pc # "record"
    <3> DEFINE k == v2'[c]  failed == v5'[c]
    <3>1. CallFits(k, failed)
      OBVIOUS
    <3> HIDE DEF k, failed
    <3>2. k.pc \in {"failure", "gaveUp"} <=> failed = retry.MaxAttempts /\ k.pc # "record"
      BY <3>1, RetryConstants DEF CallFits, RetryCall, Attempts
    <3> QED
      BY <3>2 DEF k, failed
  <2>2. v4' = 0 => v3'["FailedRetries"] = Retry!Cardinality({c \in retry.Calls : v2'[c].pc = "gaveUp"})
    BY RetrySets DEF GaveUp
  <2> QED
    BY <2>1, <2>2 DEF Retry!GivesUpExhausted
<1> QED
  BY <1>1, <1>2, <1>3, <1>4 DEF Retry!RetryInv, Retry!RetriesBounded
\* A step of one call.
LEMMA RetryMove ==
  ASSUME Retry!RetryInv, UNCHANGED <<v1, v4>>, NEW c \in retry.Calls, v2[c].pc # "gaveUp",
         NEW k, NEW failed, CallFits(k, failed),
         v2' = [v2 EXCEPT ![c] = k], v5' = [v5 EXCEPT ![c] = failed],
         v3' \in [RetryCounters -> Nat],
         v3'["FailedRetries"] = IF k.pc = "gaveUp" THEN v3["FailedRetries"] + 1 ELSE v3["FailedRetries"]
  PROVE  Retry!RetryInv'
<1>1. /\ v2 \in [retry.Calls -> RetryCall] /\ v5 \in [retry.Calls -> Attempts]
      /\ v1 \in retry.Strategies /\ v4 \in 0..retry.MaxResets
  BY RetryTyped DEF Retry!RetryInv
<1>2. v2' \in [retry.Calls -> RetryCall] /\ v5' \in [retry.Calls -> Attempts]
  BY <1>1 DEF CallFits
<1>3. \A d \in retry.Calls : CallFits(v2'[d], v5'[d])
  BY <1>1, CallsFit
<1>4. v4 = 0 => v3["FailedRetries"] = Cardinality(GaveUp(v2))
  BY RetrySets DEF Retry!RetryInv, Retry!RetriesBounded, Retry!GivesUpExhausted, GaveUp
<1>5. IsFiniteSet(GaveUp(v2)) /\ c \notin GaveUp(v2)
  <2>1. GaveUp(v2) \subseteq retry.Calls
    BY DEF GaveUp
  <2> QED
    BY <2>1, RetryConstants, FS_Subset DEF GaveUp
<1>6. CASE k.pc = "gaveUp"
  <2>1. GaveUp(v2') = GaveUp(v2) \cup {c}
    BY <1>1, <1>6 DEF GaveUp
  <2>2. Cardinality(GaveUp(v2')) = Cardinality(GaveUp(v2)) + 1
    BY <1>5, <2>1, FS_AddElement
  <2>3. v4' = 0 => v3'["FailedRetries"] = Cardinality(GaveUp(v2'))
    BY <1>4, <1>6, <2>2
  <2> QED
    BY <1>1, <1>2, <1>3, <2>3, RetryStep
<1>7. CASE k.pc # "gaveUp"
  <2>1. GaveUp(v2') = GaveUp(v2)
    BY <1>1, <1>7 DEF GaveUp
  <2>2. v4' = 0 => v3'["FailedRetries"] = Cardinality(GaveUp(v2'))
    BY <1>4, <1>7, <2>1
  <2> QED
    BY <1>1, <1>2, <1>3, <2>2, RetryStep
<1> QED
  BY <1>6, <1>7

\* A call and its failures as they are, and a count that goes up.
LEMMA RetryOne ==
  ASSUME Retry!RetryInv, NEW c \in retry.Calls
  PROVE  /\ v2[c] \in RetryCall /\ v5[c] \in Attempts /\ CallFits(v2[c], v5[c])
         /\ v1 \in retry.Strategies /\ v3 \in [RetryCounters -> Nat]
         /\ v5 = [v5 EXCEPT ![c] = v5[c]]
         /\ retry.MaxAttempts \in Nat
BY RetryTyped, CallsFit, RetryConstants DEF Retry!RetryInv

\* One more attempt, whatever comes of it.
LEMMA RetryAttempt ==
  ASSUME Retry!RetryInv, NEW c \in retry.Calls, Retry!Attempt(c)
  PROVE  Retry!RetryInv'
<1>1. PICK outcome \in {"success", "retryable", "other"} :
        /\ v2' = [v2 EXCEPT ![c].pc = "record", ![c].outcome = outcome]
        /\ v5' = [v5 EXCEPT ![c] = IF outcome = "retryable" THEN @ + 1 ELSE @]
  BY DEF Retry!Attempt
<1>2. v2[c].pc = "try" /\ UNCHANGED <<v1, v3, v4>>
  BY DEF Retry!Attempt
<1> DEFINE k == [v2[c] EXCEPT !.pc = "record", !.outcome = outcome]
           failed == IF outcome = "retryable" THEN v5[c] + 1 ELSE v5[c]
<1>3. v2' = [v2 EXCEPT ![c] = k] /\ v5' = [v5 EXCEPT ![c] = failed]
  BY <1>1, RetryOne DEF RetryCall
<1>4. k \in RetryCall /\ k.pc = "record" /\ k.outcome = outcome /\ k.attempt = v2[c].attempt
  BY RetryOne DEF RetryCall
<1>5. /\ v5[c] = v2[c].attempt - 1 /\ v2[c].attempt \in 1..retry.MaxAttempts
      /\ retry.MaxAttempts \in Nat
  BY <1>2, RetryOne DEF CallFits, RetryCall
<1>6. failed \in Attempts /\ failed = IF outcome = "retryable" THEN v2[c].attempt ELSE v2[c].attempt - 1
  BY <1>5 DEF Attempts
<1> HIDE DEF k, failed
<1>7. CallFits(k, failed)
  BY <1>4, <1>6 DEF CallFits
<1> QED
  BY <1>2, <1>3, <1>4, <1>7, RetryOne, RetryMove

\* Counting the attempt, and deciding whether to go on.
LEMMA RetryRecord ==
  ASSUME Retry!RetryInv, NEW c \in retry.Calls, Retry!Record(c)
  PROVE  Retry!RetryInv'
<1>1. /\ v2[c].pc = "record" /\ UNCHANGED <<v1, v4, v5>>
      /\ v3' = [v3 EXCEPT !["TotalAttempts"] = @ + 1]
  BY DEF Retry!Record, Retry!Count
<1>2. v3' \in [RetryCounters -> Nat] /\ v3'["FailedRetries"] = v3["FailedRetries"]
  BY <1>1, RetryOne DEF RetryCounters
<1>3. /\ v2[c] \in RetryCall /\ v5[c] \in Attempts /\ v2[c].attempt \in 1..retry.MaxAttempts
      /\ v5[c] = IF v2[c].outcome = "retryable" THEN v2[c].attempt ELSE v2[c].attempt - 1
      /\ retry.MaxAttempts \in Nat /\ v5' = [v5 EXCEPT ![c] = v5[c]]
  BY <1>1, RetryOne DEF CallFits, RetryCall
<1>4. ASSUME NEW pc \in {"success", "succeeded", "returned"}, v2[c].outcome # "retryable", Retry!Goes(c, pc)
      PROVE  Retry!RetryInv'
  <2> DEFINE k == [v2[c] EXCEPT !.pc = pc]
  <2>1. v2' = [v2 EXCEPT ![c] = k] /\ k \in RetryCall /\ k.pc = pc /\ k.attempt = v2[c].attempt
    BY <1>3, <1>4, RetryOne DEF Retry!Goes, RetryCall
  <2> HIDE DEF k
  <2>2. CallFits(k, v5[c])
    BY <1>3, <1>4, <2>1 DEF CallFits
  <2> QED
    BY <1>1, <1>2, <1>3, <1>4, <2>1, <2>2, RetryMove
<1>5. ASSUME v2[c].outcome = "retryable", v2[c].attempt = retry.MaxAttempts, Retry!Goes(c, "failure")
      PROVE  Retry!RetryInv'
  <2> DEFINE k == [v2[c] EXCEPT !.pc = "failure"]
  <2>1. v2' = [v2 EXCEPT ![c] = k] /\ k \in RetryCall /\ k.pc = "failure"
    BY <1>3, <1>5, RetryOne DEF Retry!Goes, RetryCall
  <2> HIDE DEF k
  <2>2. CallFits(k, v5[c])
    BY <1>3, <1>5, <2>1 DEF CallFits
  <2> QED
    BY <1>1, <1>2, <1>3, <2>1, <2>2, RetryMove
<1>6. ASSUME v2[c].outcome = "retryable", v2[c].attempt # retry.MaxAttempts,
             NEW d \in Retry!Delays(v2[c].attempt), v2' = [v2 EXCEPT ![c].pc = "wait", ![c].wait = d]
      PROVE  Retry!RetryInv'
  <2> DEFINE k == [v2[c] EXCEPT !.pc = "wait", !.wait = d]
  <2>1. d \in Int
    BY <1>3, RetryOne, DelaysAreInts
  <2>2. v2' = [v2 EXCEPT ![c] = k] /\ k \in RetryCall /\ k.pc = "wait" /\ k.wait = d /\ k.attempt = v2[c].attempt
    BY <1>3, <1>6, <2>1, RetryOne DEF RetryCall
  <2> HIDE DEF k
  <2>3. Retry!Product(v2[c].attempt) < retry.Half => InBounds(d)
    BY <1>3, RetryOne, DelaysInBounds
  <2>4. CallFits(k, v5[c])
    BY <1>3, <1>6, <2>2, <2>3 DEF CallFits
  <2> QED
    BY <1>1, <1>2, <1>3, <2>2, <2>4, RetryMove
<1>7. \/ /\ v2[c].outcome = "success"
         /\ Retry!Goes(c, IF v2[c].attempt > 1 THEN "success" ELSE "succeeded")
      \/ v2[c].outcome = "other" /\ Retry!Goes(c, "returned")
      \/ v2[c].outcome = "retryable" /\ v2[c].attempt = retry.MaxAttempts /\ Retry!Goes(c, "failure")
      \/ /\ v2[c].outcome = "retryable" /\ v2[c].attempt # retry.MaxAttempts
         /\ \E d \in Retry!Delays(v2[c].attempt) : v2' = [v2 EXCEPT ![c].pc = "wait", ![c].wait = d]
  BY DEF Retry!Record
<1> QED
  BY <1>4, <1>5, <1>6, <1>7

\* The steps that only move a call.
LEMMA RetryGoesOn ==
  ASSUME Retry!RetryInv, NEW c \in retry.Calls,
         Retry!Cancelled(c) \/ Retry!CountSuccess(c) \/ Retry!CountFailure(c) \/ Retry!Again(c)
  PROVE  Retry!RetryInv'
<1>1. /\ v2[c] \in RetryCall /\ v5[c] \in Attempts /\ CallFits(v2[c], v5[c])
      /\ v3 \in [RetryCounters -> Nat] /\ v5 = [v5 EXCEPT ![c] = v5[c]]
      /\ retry.MaxAttempts \in Nat /\ v2[c].attempt \in 1..retry.MaxAttempts
  BY RetryOne DEF RetryCall
<1>2. CASE Retry!Cancelled(c)
  <2> DEFINE k == [v2[c] EXCEPT !.pc = "cancelled"]
  <2>1. /\ v2' = [v2 EXCEPT ![c] = k] /\ k \in RetryCall /\ k.pc = "cancelled"
        /\ v2[c].pc \in {"try", "wait"} /\ UNCHANGED <<v1, v3, v4, v5>>
    BY <1>1, <1>2 DEF Retry!Cancelled, Retry!Goes, RetryCall
  <2> HIDE DEF k
  <2>2. v5[c] < retry.MaxAttempts
    BY <1>1, <2>1 DEF CallFits
  <2>3. CallFits(k, v5[c])
    BY <1>1, <2>1, <2>2 DEF CallFits
  <2> QED
    BY <1>1, <2>1, <2>3, RetryMove
<1>3. CASE Retry!CountSuccess(c)
  <2> DEFINE k == [v2[c] EXCEPT !.pc = "succeeded"]
  <2>1. /\ v2' = [v2 EXCEPT ![c] = k] /\ k \in RetryCall /\ k.pc = "succeeded" /\ k.attempt = v2[c].attempt
        /\ v2[c].pc = "success" /\ UNCHANGED <<v1, v4, v5>>
        /\ v3' = [v3 EXCEPT !["SuccessfulRetries"] = @ + 1]
    BY <1>1, <1>3 DEF Retry!CountSuccess, Retry!Count, Retry!Goes, RetryCall
  <2> HIDE DEF k
  <2>2. v3' \in [RetryCounters -> Nat] /\ v3'["FailedRetries"] = v3["FailedRetries"]
    BY <1>1, <2>1 DEF RetryCounters
  <2>3. CallFits(k, v5[c])
    BY <1>1, <2>1 DEF CallFits
  <2> QED
    BY <1>1, <2>1, <2>2, <2>3, RetryMove
<1>4. CASE Retry!CountFailure(c)
  <2> DEFINE k == [v2[c] EXCEPT !.pc = "gaveUp"]
  <2>1. /\ v2' = [v2 EXCEPT ![c] = k] /\ k \in RetryCall /\ k.pc = "gaveUp"
        /\ v2[c].pc = "failure" /\ UNCHANGED <<v1, v4, v5>>
        /\ v3' = [v3 EXCEPT !["FailedRetries"] = @ + 1]
    BY <1>1, <1>4 DEF Retry!CountFailure, Retry!Count, Retry!Goes, RetryCall
  <2> HIDE DEF k
  <2>2. v3' \in [RetryCounters -> Nat] /\ v3'["FailedRetries"] = v3["FailedRetries"] + 1
    BY <1>1, <2>1 DEF RetryCounters
  <2>3. CallFits(k, v5[c])
    BY <1>1, <2>1 DEF CallFits
  <2> QED
    BY <1>1, <2>1, <2>2, <2>3, RetryMove
<1>5. CASE Retry!Again(c)
  <2> DEFINE k == [v2[c] EXCEPT !.pc = "try", !.attempt = v2[c].attempt + 1, !.wait = 0]
  <2>1. v2[c].pc = "wait" /\ v5[c] = v2[c].attempt /\ v2[c].attempt < retry.MaxAttempts
    BY <1>1, <1>5 DEF Retry!Again, CallFits
  <2>2. v2[c].attempt + 1 \in 1..retry.MaxAttempts
    BY <1>1, <2>1
  <2>3. v2' = [v2 EXCEPT ![c] = k] /\ UNCHANGED <<v1, v3, v4, v5>>
    BY <1>1, <1>5 DEF Retry!Again, RetryCall
  <2>5. k \in RetryCall
    <3> DEFINE m == [v2[c] EXCEPT !.pc = "try", !.attempt = v2[c].attempt + 1]
    <3>1. m \in RetryCall
      BY <1>1, <2>2 DEF RetryCall
    <3> HIDE DEF m
    <3>2. [m EXCEPT !.wait = 0] \in RetryCall
      BY <3>1 DEF RetryCall
    <3> QED
      BY <3>2 DEF m
  <2>6. k.pc = "try" /\ k.attempt = v2[c].attempt + 1
    BY <1>1 DEF RetryCall
  <2> HIDE DEF k
  <2>4. CallFits(k, v5[c])
    BY <1>1, <2>1, <2>5, <2>6 DEF CallFits
  <2> QED
    BY <1>1, <2>1, <2>3, <2>4, <2>6, RetryMove
<1> QED
  BY <1>2, <1>3, <1>4, <1>5

\* Every step keeps the invariant.
LEMMA RetryNext == Retry!RetryInv /\ [Retry!Next]_(Retry!vars) => Retry!RetryInv'
<1> SUFFICES ASSUME Retry!RetryInv, [Retry!Next]_(Retry!vars) PROVE Retry!RetryInv'
  OBVIOUS
<1>1. /\ v2 \in [retry.Calls -> RetryCall] /\ v5 \in [retry.Calls -> Attempts]
      /\ v3 \in [RetryCounters -> Nat] /\ v4 \in 0..retry.MaxResets
      /\ v4 = 0 => v3["FailedRetries"] = Cardinality(GaveUp(v2))
  BY RetryTyped, RetrySets
  DEF Retry!RetryInv, Retry!RetriesBounded, Retry!GivesUpExhausted, GaveUp
<1>2. CASE Retry!Reset
  <2>1. UNCHANGED <<v1, v2, v5>> /\ v4' = v4 + 1 /\ v4 < retry.MaxResets
    BY <1>2 DEF Retry!Reset
  <2>2. v3' \in [RetryCounters -> Nat]
    BY <1>2 DEF Retry!Reset, Retry!Zero, Retry!Counters, RetryCounters
  <2> QED
    BY <1>1, <2>1, <2>2, CallsFit, RetryStep, RetryConstants
<1>3. CASE UNCHANGED Retry!vars
  BY <1>1, <1>3, CallsFit, RetryStep DEF Retry!vars
<1> QED
  BY <1>2, <1>3, RetryAttempt, RetryRecord, RetryGoesOn DEF Retry!Next

\* No call has been made at first.
LEMMA RetryInit == Retry!Init => Retry!RetryInv
<1> SUFFICES ASSUME Retry!Init PROVE Retry!RetryInv
  OBVIOUS
<1>1. /\ v1 \in retry.Strategies /\ v4 = 0 /\ v5 = [c \in retry.Calls |-> 0]
      /\ v2 = [c \in retry.Calls |-> [pc |-> "try", attempt |-> 1, outcome |-> "none", wait |-> 0]]
      /\ v3 = [counter \in RetryCounters |-> 0]
  BY DEF Retry!Init, Retry!Zero, Retry!Counters, RetryCounters
<1>2. Retry!TypeOK
  BY <1>1, RetryTyped, RetryConstants DEF RetryCall, Attempts
<1>3. Retry!FailuresCounted /\ Retry!WaitsWithinBounds
  BY <1>1 DEF Retry!FailuresCounted, Retry!WaitsWithinBounds
<1>4. {c \in retry.Calls : v2[c].pc = "gaveUp"} = {}
  BY <1>1
<1>5. Retry!GivesUpExhausted
  BY <1>1, <1>4, RetrySets, RetryConstants, FS_EmptySet DEF Retry!GivesUpExhausted, RetryCounters
<1> QED
  BY <1>2, <1>3, <1>5 DEF Retry!RetryInv, Retry!RetriesBounded

\* A call gives up, and is counted as having given up, exactly when each of its
\* attempts failed in a way worth retrying; and between two attempts it waits
\* for the initial delay or the limit at least, and for the limit at most, give
\* or take the jitter, with every strategy and any number of calls and attempts.
THEOREM RetriesAreBounded == Spec => []RetriesBounded
<1> DEFINE Inv == part = "retry" => Retry!RetryInv
<1>1. Init => Inv
  BY RetryInit DEF Init
<1>2. Inv /\ [Next]_vars => Inv'
  BY RetryNext DEF Next, vars, Retry!vars
<1>3. Inv => RetriesBounded
  BY DEF RetriesBounded, Retry!RetryInv
<1> QED
  BY <1>1, <1>2, <1>3, PTL DEF Spec
----------------------------------------------------------------------------
(* The memory manager's pools: v1 is buffers, v2 encoders, v3 content, v4    *)
(* call, v5 owes, v6 stats and v7 overlap.                                  *)

PoolBuffers == 1..Cardinality(pools.Calls)
PoolCall == [pc : {"start", "buffer", "encoder", "encoded", "copied", "failed", "putEncoder", "done"},
             buffer : PoolBuffers \cup {0}, encoder : PoolBuffers \cup {0},
             result : Seq(pools.Calls), err : BOOLEAN]
PoolDeeds == {"nothing", "taken", "allocated", "returned", "discarded"}
PoolOwes == [pools.Calls -> [pool : {"buffer", "encoder"}, deed : PoolDeeds]]
PoolStats == [{"buffer", "encoder"} -> [TotalReturned : Int, TotalAllocated : Int]]

\* What the parameters are.
LEMMA PoolsConstants ==
  /\ IsFiniteSet(pools.Calls) /\ pools.MaxBuffers \in Nat \ {0} /\ pools.MaxEncoders \in Nat \ {0}
  /\ Pools!Buffers = PoolBuffers /\ Pools!Pools = {"buffer", "encoder"} /\ Pools!None = 0
BY ServicesAssumption
DEF ServicesAssumption, Pools!PoolsAssumption, Pools!IsFiniteSet, IsFiniteSet, PoolBuffers,
    Pools!Buffers, Pools!NumBuffers, Pools!Cardinality, Cardinality, Pools!Pools, Pools!None

\* The type invariant, part by part.
LEMMA PoolsTyped ==
  Pools!TypeOK <=> /\ v1 \in Seq(PoolBuffers) /\ Len(v1) <= pools.MaxBuffers
                   /\ v2 \in Seq(PoolBuffers) /\ Len(v2) <= pools.MaxEncoders
                   /\ v3 \in [PoolBuffers -> Seq(pools.Calls)] /\ v4 \in [pools.Calls -> PoolCall]
                   /\ v5 \in PoolOwes /\ v6 \in PoolStats /\ v7 \in BOOLEAN
BY PoolsConstants
DEF Pools!TypeOK, Pools!Call, Pools!PCs, Pools!Deeds, PoolCall, PoolOwes, PoolDeeds, PoolStats, Pools!Int, Int

\* ... and after a step.
LEMMA PoolsTypedAgain ==
  ASSUME v1' \in Seq(PoolBuffers), Len(v1') <= pools.MaxBuffers,
         v2' \in Seq(PoolBuffers), Len(v2') <= pools.MaxEncoders,
         v3' \in [PoolBuffers -> Seq(pools.Calls)], v4' \in [pools.Calls -> PoolCall],
         v5' \in PoolOwes, v6' \in PoolStats, v7' \in BOOLEAN
  PROVE  Pools!TypeOK'
<1>1. Pools!Buffers' = PoolBuffers /\ Pools!Pools' = {"buffer", "encoder"} /\ Pools!None' = 0
  BY PoolsConstants DEF Pools!Buffers, Pools!NumBuffers, Pools!Cardinality, Pools!Pools, Pools!None
<1> QED
  BY <1>1
  DEF Pools!TypeOK, Pools!Call, Pools!PCs, Pools!Deeds, PoolCall, PoolOwes, PoolDeeds, PoolStats, Pools!Int, Int

\* No buffer is in two hands.
Exclusive(pool, calls) ==
  /\ \A c, d \in pools.Calls : c # d /\ calls[c].buffer = calls[d].buffer => calls[c].buffer = 0
  /\ \A c \in pools.Calls : \A i \in 1..Len(pool) : calls[c].buffer # pool[i]
  /\ \A i, j \in 1..Len(pool) : pool[i] = pool[j] => i = j

\* This is what the module says of the buffers,
LEMMA ExclusiveIs ==
  ASSUME v1 \in Seq(PoolBuffers)
  PROVE  Pools!BuffersExclusive <=> Exclusive(v1, v4)
<1>1. DOMAIN v1 = 1..Len(v1) /\ Pools!Range(v1) = {v1[i] : i \in 1..Len(v1)}
  BY DEF Pools!Range
<1> QED
  BY <1>1, PoolsConstants DEF Pools!BuffersExclusive, Exclusive, Pools!IsInjective

\* ... before a step and after it.
LEMMA ExclusiveAgain ==
  ASSUME v1' \in Seq(PoolBuffers), Exclusive(v1', v4')
  PROVE  Pools!BuffersExclusive'
<1>1. DOMAIN v1' = 1..Len(v1') /\ Pools!Range(v1)' = {v1'[i] : i \in 1..Len(v1')}
  BY DEF Pools!Range
<1>2. Pools!None' = 0
  BY DEF Pools!None
<1> QED
  BY <1>1, <1>2 DEF Pools!BuffersExclusive, Exclusive, Pools!IsInjective

\* The calls that owe a deed; what is allocated when all have counted what they
\* have done; and the calls that hold an object.
Owe(o, p, deed) == {c \in pools.Calls : o[c] = [pool |-> p, deed |-> deed]}
Bal(o, s, p) == s[p].TotalAllocated + Cardinality(Owe(o, p, "allocated"))
                                    - Cardinality(Owe(o, p, "discarded"))
Holders(calls, p) == {c \in pools.Calls : calls[c][p] # 0}
One(x) == IF x # 0 THEN 1 ELSE 0

\* One call that takes or gives back changes the number of holders by one.
LEMMA HoldersCount ==
  ASSUME v4 \in [pools.Calls -> PoolCall], NEW c \in pools.Calls, NEW k,
         v4' = [v4 EXCEPT ![c] = k], NEW p \in {"buffer", "encoder"}
  PROVE  /\ Cardinality(Holders(v4, p)) \in Nat /\ Cardinality(Holders(v4', p)) \in Nat
         /\ Cardinality(Holders(v4', p)) = Cardinality(Holders(v4, p)) + One(k[p]) - One(v4[c][p])
<1> DEFINE H == Holders(v4, p)  G == Holders(v4', p)
<1>1. /\ \A d \in pools.Calls : d # c => (d \in G <=> d \in H)
      /\ (c \in G <=> k[p] # 0) /\ (c \in H <=> v4[c][p] # 0)
      /\ H \subseteq pools.Calls /\ G \subseteq pools.Calls
  BY DEF Holders
<1> HIDE DEF H, G
<1>2. IsFiniteSet(H) /\ IsFiniteSet(G)
  BY <1>1, PoolsConstants, FS_Subset
<1>3. Cardinality(H) \in Nat /\ Cardinality(G) \in Nat
  BY <1>2, FS_CardinalityType
<1>4. CASE c \in G /\ c \notin H
  <2>1. G = H \cup {c}
    BY <1>1, <1>4
  <2>2. Cardinality(G) = Cardinality(H) + 1
    BY <1>2, <1>4, <2>1, FS_AddElement
  <2> QED
    BY <1>1, <1>3, <1>4, <2>2 DEF One, H, G
<1>5. CASE c \notin G /\ c \in H
  <2>1. G = H \ {c}
    BY <1>1, <1>5
  <2>2. Cardinality(G) = Cardinality(H) - 1
    BY <1>2, <1>5, <2>1, FS_RemoveElement
  <2> QED
    BY <1>1, <1>3, <1>5, <2>2 DEF One, H, G
<1>6. CASE c \in G <=> c \in H
  <2>1. G = H
    BY <1>1, <1>6
  <2> QED
    BY <1>1, <1>3, <1>6, <2>1 DEF One, H, G
<1> QED
  BY <1>4, <1>5, <1>6

\* What is counted and owed are numbers.
LEMMA BalIsInt ==
  ASSUME NEW o, NEW s \in PoolStats, NEW p \in {"buffer", "encoder"}
  PROVE  /\ Bal(o, s, p) \in Int
         /\ \A deed : Cardinality(Owe(o, p, deed)) \in Nat
<1>1. \A deed : Cardinality(Owe(o, p, deed)) \in Nat
  <2> TAKE deed
  <2>1. IsFiniteSet(Owe(o, p, deed))
    BY PoolsConstants, FS_Subset DEF Owe
  <2> QED
    BY <2>1, FS_CardinalityType
<1>2. s[p].TotalAllocated \in Int
  BY DEF PoolStats
<1> QED
  BY <1>1, <1>2 DEF Bal

\* What a call does to one pool changes the balance of that pool only.
LEMMA DoesMove ==
  ASSUME v5 \in PoolOwes, v6 \in PoolStats, v6' = v6, NEW c \in pools.Calls,
         NEW p \in {"buffer", "encoder"}, NEW deed \in PoolDeeds \ {"nothing"}, Pools!Does(c, p, deed)
  PROVE  /\ v5' \in PoolOwes /\ v6' \in PoolStats
         /\ Bal(v5', v6', p) = Bal(v5, v6, p) + (IF deed = "allocated" THEN 1
                                                ELSE IF deed = "discarded" THEN -1 ELSE 0)
         /\ \A q \in {"buffer", "encoder"} \ {p} : Bal(v5', v6', q) = Bal(v5, v6, q)
<1> DEFINE a == [pool |-> p, deed |-> deed]
<1>1. v5' = [v5 EXCEPT ![c] = a] /\ v5[c].deed = "nothing"
  BY DEF Pools!Does, Pools!Ready
<1>2. DOMAIN v5 = pools.Calls /\ v5' \in PoolOwes /\ IsFiniteSet(pools.Calls)
  BY <1>1, PoolsConstants DEF PoolOwes
<1>3. ASSUME NEW q, NEW e \in {"allocated", "discarded"}
      PROVE  Cardinality(Owe(v5', q, e)) =
               Cardinality(Owe(v5, q, e)) + (IF p = q /\ deed = e THEN 1 ELSE 0)
  <2> DEFINE d == [pool |-> q, deed |-> e]
  <2>1. (a = d) <=> (p = q /\ deed = e)
    <3>1. a.pool = p /\ a.deed = deed /\ d.pool = q /\ d.deed = e
      OBVIOUS
    <3> QED
      BY <3>1
  <2>2. v5[c] # d
    <3>1. d.deed = e
      OBVIOUS
    <3> QED
      BY <1>1, <3>1
  <2> HIDE DEF a, d
  <2>3. /\ Cardinality(Who(pools.Calls, v5, d)) \in Nat
        /\ Cardinality(Who(pools.Calls, v5', d)) =
              Cardinality(Who(pools.Calls, v5, d))
                + (IF a = d /\ v5[c] # d THEN 1 ELSE IF a # d /\ v5[c] = d THEN -1 ELSE 0)
    <3>1. ButFor(pools.Calls, v5, c, a, v5')
      BY <1>1, <1>2 DEF ButFor
    <3> QED
      BY <1>1, <1>2, <3>1, OneOwesAnother
  <2> QED
    BY <2>1, <2>2, <2>3 DEF Owe, Who, d
<1>4. \A q \in {"buffer", "encoder"} :
        /\ v6[q].TotalAllocated \in Int /\ Cardinality(Owe(v5, q, "allocated")) \in Nat
        /\ Cardinality(Owe(v5, q, "discarded")) \in Nat
  BY BalIsInt DEF PoolStats
<1>5. \A q \in {"buffer", "encoder"} :
        Bal(v5', v6', q) = Bal(v5, v6, q) + (IF p = q /\ deed = "allocated" THEN 1 ELSE 0)
                                        - (IF p = q /\ deed = "discarded" THEN 1 ELSE 0)
  BY <1>3, <1>4 DEF Bal
<1>6. \A q \in {"buffer", "encoder"} : Bal(v5, v6, q) \in Int
  BY BalIsInt
<1> QED
  BY <1>2, <1>5, <1>6

\* The accounts of the module in these terms,
LEMMA AccountsAre ==
  ASSUME Pools!TypeOK
  PROVE  Pools!AllocatedAccountedFor <=>
           /\ Bal(v5, v6, "buffer") = Cardinality(Holders(v4, "buffer")) + Len(v1)
           /\ Bal(v5, v6, "encoder") = Cardinality(Holders(v4, "encoder")) + Len(v2)
<1>1. \A p : /\ Pools!Held(p) = Cardinality(Holders(v4, p))
             /\ \A deed : Pools!Owing(p, deed) = Cardinality(Owe(v5, p, deed))
  BY DEF Pools!Held, Pools!Owing, Owe, Holders, Pools!Cardinality, Cardinality, Pools!IsFiniteSet,
         IsFiniteSet, Pools!None
<1>2. /\ v5 \in PoolOwes /\ v6 \in PoolStats /\ v4 \in [pools.Calls -> PoolCall] /\ Len(v1) \in Nat /\ Len(v2) \in Nat
  BY PoolsTyped
<1>3. ASSUME NEW p \in {"buffer", "encoder"}, NEW n \in Nat
      PROVE  (v6[p].TotalAllocated + Pools!Owing(p, "allocated") = Pools!Held(p) + n + Pools!Owing(p, "discarded"))
               <=> (Bal(v5, v6, p) = Cardinality(Holders(v4, p)) + n)
  <2>1. /\ v6[p].TotalAllocated \in Int /\ Cardinality(Owe(v5, p, "allocated")) \in Nat
        /\ Cardinality(Owe(v5, p, "discarded")) \in Nat
    BY <1>2, BalIsInt DEF PoolStats
  <2>2. Cardinality(Holders(v4, p)) \in Nat
    BY PoolsConstants, FS_Subset, FS_CardinalityType DEF Holders
  <2> QED
    BY <1>1, <2>1, <2>2 DEF Bal
<1> QED
  BY <1>2, <1>3, PoolsConstants DEF Pools!AllocatedAccountedFor

\* ... and after a step.
LEMMA AccountsAgain ==
  ASSUME v4' \in [pools.Calls -> PoolCall], v6' \in PoolStats, Len(v1') \in Nat, Len(v2') \in Nat,
         Bal(v5', v6', "buffer") = Cardinality(Holders(v4', "buffer")) + Len(v1'),
         Bal(v5', v6', "encoder") = Cardinality(Holders(v4', "encoder")) + Len(v2')
  PROVE  Pools!AllocatedAccountedFor'
<1>1. \A p : /\ Pools!Held(p)' = Cardinality(Holders(v4', p))
             /\ \A deed : Pools!Owing(p, deed)' = Cardinality(Owe(v5', p, deed))
  BY DEF Pools!Held, Pools!Owing, Owe, Holders, Pools!Cardinality, Cardinality, Pools!IsFiniteSet,
         IsFiniteSet, Pools!None
<1>2. ASSUME NEW p \in {"buffer", "encoder"}, NEW n \in Nat,
             Bal(v5', v6', p) = Cardinality(Holders(v4', p)) + n
      PROVE  v6'[p].TotalAllocated + Pools!Owing(p, "allocated")'
               = Pools!Held(p)' + n + Pools!Owing(p, "discarded")'
  <2>1. /\ v6'[p].TotalAllocated \in Int /\ Cardinality(Owe(v5', p, "allocated")) \in Nat
        /\ Cardinality(Owe(v5', p, "discarded")) \in Nat
    BY BalIsInt DEF PoolStats
  <2>2. Cardinality(Holders(v4', p)) \in Nat
    BY PoolsConstants, FS_Subset, FS_CardinalityType DEF Holders
  <2> QED
    BY <1>1, <1>2, <2>1, <2>2 DEF Bal
<1> QED
  BY <1>2 DEF Pools!AllocatedAccountedFor, Pools!Pools

PoolsSafe == Pools!TypeOK /\ Pools!PoolsConsistent /\ Pools!HeldByPlace

\* Where a call is tells what it holds.
PlaceFits(k) ==
  /\ k \in PoolCall
  /\ k.buffer # 0 <=> k.pc \notin {"start", "done"}
  /\ k.encoder # 0 <=> k.pc \in {"encoder", "encoded", "copied", "failed"}
  /\ k.pc = "failed" => k.err

\* What the invariant says of one call, and of the pools.
LEMMA PoolsOne ==
  ASSUME PoolsSafe, NEW c \in pools.Calls
  PROVE  /\ PlaceFits(v4[c]) /\ v4[c] \in PoolCall
         /\ v1 \in Seq(PoolBuffers) /\ v2 \in Seq(PoolBuffers) /\ Len(v1) \in Nat /\ Len(v2) \in Nat
         /\ Len(v1) <= pools.MaxBuffers /\ Len(v2) <= pools.MaxEncoders
         /\ v3 \in [PoolBuffers -> Seq(pools.Calls)] /\ v4 \in [pools.Calls -> PoolCall]
         /\ v5 \in PoolOwes /\ v6 \in PoolStats /\ v7 \in BOOLEAN
         /\ Exclusive(v1, v4)
         /\ Bal(v5, v6, "buffer") \in Int /\ Bal(v5, v6, "encoder") \in Int
<1>1. Pools!TypeOK /\ Pools!BuffersExclusive
  BY DEF PoolsSafe, Pools!PoolsConsistent
<1>2. /\ v1 \in Seq(PoolBuffers) /\ v2 \in Seq(PoolBuffers) /\ v4 \in [pools.Calls -> PoolCall]
      /\ Exclusive(v1, v4)
  BY <1>1, PoolsTyped, ExclusiveIs
<1>3. PlaceFits(v4[c])
  BY <1>2, PoolsConstants DEF PlaceFits, PoolsSafe, Pools!HeldByPlace, Pools!UnderWay
<1>4. Bal(v5, v6, "buffer") \in Int /\ Bal(v5, v6, "encoder") \in Int
  BY <1>1, PoolsTyped, BalIsInt
<1> QED
  BY <1>1, <1>2, <1>3, <1>4, PoolsTyped

\* A step of one call that keeps the accounts.
LEMMA PoolsMove ==
  ASSUME PoolsSafe, NEW c \in pools.Calls, NEW k, PlaceFits(k), v4' = [v4 EXCEPT ![c] = k],
         v1' \in Seq(PoolBuffers), Len(v1') <= pools.MaxBuffers,
         v2' \in Seq(PoolBuffers), Len(v2') <= pools.MaxEncoders,
         v3' \in [PoolBuffers -> Seq(pools.Calls)], v5' \in PoolOwes, v6' \in PoolStats,
         v7' \in BOOLEAN, Exclusive(v1', v4'),
         Bal(v5', v6', "buffer") = Bal(v5, v6, "buffer") + (One(k.buffer) - One(v4[c].buffer))
                                  + (Len(v1') - Len(v1)),
         Bal(v5', v6', "encoder") = Bal(v5, v6, "encoder") + (One(k.encoder) - One(v4[c].encoder))
                                  + (Len(v2') - Len(v2))
  PROVE  PoolsSafe'
<1>1. v4 \in [pools.Calls -> PoolCall] /\ Len(v1) \in Nat /\ Len(v2) \in Nat /\ Len(v1') \in Nat /\ Len(v2') \in Nat
  BY PoolsOne
<1>2. v4' \in [pools.Calls -> PoolCall]
  BY <1>1 DEF PlaceFits
<1>3. Pools!TypeOK' /\ Pools!BuffersExclusive'
  BY <1>2, PoolsTypedAgain, ExclusiveAgain
<1>4. Pools!HeldByPlace'
  <2>1. \A d \in pools.Calls : PlaceFits(v4'[d])
    BY <1>1, PoolsOne
  <2> QED
    BY <2>1 DEF PlaceFits, Pools!HeldByPlace, Pools!UnderWay, Pools!None
<1>5. /\ Bal(v5, v6, "buffer") = Cardinality(Holders(v4, "buffer")) + Len(v1)
      /\ Bal(v5, v6, "encoder") = Cardinality(Holders(v4, "encoder")) + Len(v2)
  BY AccountsAre DEF PoolsSafe, Pools!PoolsConsistent
<1>6. /\ Cardinality(Holders(v4, "buffer")) \in Nat
      /\ Cardinality(Holders(v4', "buffer")) = Cardinality(Holders(v4, "buffer")) + One(k.buffer) - One(v4[c].buffer)
  BY <1>1, HoldersCount
<1>7. /\ Cardinality(Holders(v4, "encoder")) \in Nat
      /\ Cardinality(Holders(v4', "encoder")) = Cardinality(Holders(v4, "encoder")) + One(k.encoder) - One(v4[c].encoder)
  BY <1>1, HoldersCount
<1>8. Bal(v5', v6', "buffer") = Cardinality(Holders(v4', "buffer")) + Len(v1')
  BY <1>1, <1>5, <1>6 DEF One
<1>9. Bal(v5', v6', "encoder") = Cardinality(Holders(v4', "encoder")) + Len(v2')
  BY <1>1, <1>5, <1>7 DEF One
<1>10. Pools!AllocatedAccountedFor'
  BY <1>2, <1>8, <1>9, AccountsAgain
<1> QED
  BY <1>3, <1>4, <1>10 DEF PoolsSafe, Pools!PoolsConsistent

\* The rest of a sequence, element by element.
LEMMA TailIs ==
  ASSUME NEW S, NEW q \in Seq(S), q # <<>>
  PROVE  /\ Head(q) = q[1] /\ Len(q) \in Nat /\ Len(q) >= 1 /\ q[1] \in S
         /\ Tail(q) \in Seq(S) /\ Len(Tail(q)) = Len(q) - 1
         /\ \A i \in 1..Len(Tail(q)) : Tail(q)[i] = q[i + 1] /\ i + 1 \in 1..Len(q)
OBVIOUS

\* A sequence with one element more.
LEMMA AppendIs ==
  ASSUME NEW S, NEW q \in Seq(S), NEW x \in S
  PROVE  /\ Append(q, x) \in Seq(S) /\ Len(Append(q, x)) = Len(q) + 1 /\ Len(q) \in Nat
         /\ Append(q, x)[Len(q) + 1] = x
         /\ \A i \in 1..Len(q) : Append(q, x)[i] = q[i]
OBVIOUS

\* A call takes a buffer, from the pool or a new one.
LEMMA PoolsGetBuffer ==
  ASSUME PoolsSafe, NEW c \in pools.Calls, Pools!GetBuffer(c)
  PROVE  PoolsSafe'
<1>1. v4[c].pc = "start" /\ v2' = v2
  BY DEF Pools!GetBuffer
<1>2. PICK b \in PoolBuffers :
        /\ v4' = [v4 EXCEPT ![c].pc = "buffer", ![c].buffer = b]
        /\ \/ v1 # <<>> /\ b = Head(v1) /\ v1' = Tail(v1) /\ Pools!Does(c, "buffer", "taken") /\ v3' = v3
           \/ /\ v1 = <<>> /\ b \in Pools!Unused
              /\ Pools!Does(c, "buffer", "allocated") /\ v3' = [v3 EXCEPT ![b] = <<>>] /\ v1' = v1
  BY PoolsConstants DEF Pools!GetBuffer
<1> DEFINE k == [v4[c] EXCEPT !.pc = "buffer", !.buffer = b]
<1>3. v4' = [v4 EXCEPT ![c] = k] /\ k.pc = "buffer" /\ k.buffer = b /\ k.encoder = v4[c].encoder /\ k \in PoolCall
  BY <1>2, PoolsOne DEF PoolCall
<1> HIDE DEF k
<1>4. b # 0 /\ v4[c].buffer = 0 /\ v4[c].encoder = 0
  <2>1. b # 0
    BY DEF PoolBuffers
  <2>2. PlaceFits(v4[c])
    BY PoolsOne
  <2> QED
    BY <1>1, <2>1, <2>2 DEF PlaceFits
<1>5. PlaceFits(k)
  BY <1>3, <1>4 DEF PlaceFits
<1>6. v7' \in BOOLEAN
  BY PoolsOne DEF Pools!GetBuffer
<1>7. /\ v5 \in PoolOwes /\ v6 \in PoolStats /\ v4 \in [pools.Calls -> PoolCall] /\ v1 \in Seq(PoolBuffers) /\ Exclusive(v1, v4)
      /\ \A d \in pools.Calls : d # c => v4'[d] = v4[d]
      /\ v4'[c] = k
  BY <1>3, PoolsOne
<1>8. CASE v1 # <<>> /\ b = Head(v1) /\ v1' = Tail(v1) /\ Pools!Does(c, "buffer", "taken") /\ v3' = v3
  <2>1. /\ v5' \in PoolOwes /\ v6' \in PoolStats /\ Bal(v5', v6', "buffer") = Bal(v5, v6, "buffer") + 0
        /\ Bal(v5', v6', "encoder") = Bal(v5, v6, "encoder")
    BY <1>7, <1>8, DoesMove DEF PoolDeeds, Pools!GetBuffer
  <2>2. /\ b = v1[1] /\ 1 \in 1..Len(v1) /\ v1' \in Seq(PoolBuffers) /\ Len(v1') = Len(v1) - 1
        /\ \A i \in 1..Len(v1') : v1'[i] = v1[i + 1] /\ i + 1 \in 1..Len(v1) /\ i + 1 # 1
        /\ Len(v1) \in Nat
    BY <1>7, <1>8, TailIs
  <2>3. Exclusive(v1', v4')
    <3>1. \A d \in pools.Calls : d # c => v4'[d].buffer # b /\ k.buffer = b
      BY <1>3, <1>7, <2>2 DEF Exclusive
    <3>2. ASSUME NEW d \in pools.Calls, NEW i \in 1..Len(v1')
          PROVE  v4'[d].buffer # v1'[i]
      BY <1>3, <1>7, <2>2 DEF Exclusive
    <3>3. ASSUME NEW i \in 1..Len(v1'), NEW j \in 1..Len(v1'), v1'[i] = v1'[j]
          PROVE  i = j
      <4>1. \A x, y \in 1..Len(v1) : v1[x] = v1[y] => x = y
        BY <1>7 DEF Exclusive
      <4>2. i + 1 \in 1..Len(v1) /\ j + 1 \in 1..Len(v1) /\ v1[i + 1] = v1[j + 1]
        BY <2>2, <3>3
      <4>3. i + 1 = j + 1
        BY <4>1, <4>2
      <4> QED
        BY <2>2, <4>3
    <3>4. ASSUME NEW d \in pools.Calls, NEW e \in pools.Calls, d # e, v4'[d].buffer = v4'[e].buffer
          PROVE  v4'[d].buffer = 0
      BY <1>7, <3>1, <3>4 DEF Exclusive
    <3> QED
      BY <3>2, <3>3, <3>4 DEF Exclusive
  <2>4. Len(v1') <= pools.MaxBuffers
    BY <2>2, PoolsOne, PoolsConstants
  <2>5. Bal(v5', v6', "buffer") = Bal(v5, v6, "buffer") + (One(k.buffer) - One(v4[c].buffer)) + (Len(v1') - Len(v1))
    BY <1>3, <1>4, <1>7, <2>1, <2>2, PoolsOne DEF One
  <2>6. Bal(v5', v6', "encoder") = Bal(v5, v6, "encoder") + (One(k.encoder) - One(v4[c].encoder)) + (Len(v2') - Len(v2))
    BY <1>1, <1>3, <1>7, <2>1, PoolsOne DEF One
  <2> QED
    BY <1>1, <1>3, <1>5, <1>6, <1>8, <2>1, <2>2, <2>3, <2>4, <2>5, <2>6, PoolsOne, PoolsMove
<1>9. CASE /\ v1 = <<>> /\ b \in Pools!Unused
           /\ Pools!Does(c, "buffer", "allocated") /\ v3' = [v3 EXCEPT ![b] = <<>>] /\ v1' = v1
  <2>1. /\ v5' \in PoolOwes /\ v6' \in PoolStats /\ Bal(v5', v6', "buffer") = Bal(v5, v6, "buffer") + 1
        /\ Bal(v5', v6', "encoder") = Bal(v5, v6, "encoder")
    BY <1>7, <1>9, DoesMove DEF PoolDeeds, Pools!GetBuffer
  <2>2. \A d \in pools.Calls : v4[d].buffer # b
    BY <1>9 DEF Pools!Unused
  <2>3. Len(v1) = 0 /\ v1' = v1
    BY <1>9
  <2>4. Exclusive(v1', v4')
    BY <1>3, <1>7, <2>2, <2>3 DEF Exclusive
  <2>5. v3' \in [PoolBuffers -> Seq(pools.Calls)]
    <3>1. <<>> \in Seq(pools.Calls) /\ v3 \in [PoolBuffers -> Seq(pools.Calls)]
      BY PoolsOne
    <3> QED
      BY <1>9, <3>1
  <2>6. Bal(v5', v6', "buffer") = Bal(v5, v6, "buffer") + (One(k.buffer) - One(v4[c].buffer)) + (Len(v1') - Len(v1))
    BY <1>3, <1>4, <1>7, <2>1, <2>3, PoolsOne DEF One
  <2>7. Bal(v5', v6', "encoder") = Bal(v5, v6, "encoder") + (One(k.encoder) - One(v4[c].encoder)) + (Len(v2') - Len(v2))
    BY <1>1, <1>3, <1>7, <2>1, PoolsOne DEF One
  <2> QED
    BY <1>1, <1>3, <1>5, <1>6, <2>1, <2>3, <2>4, <2>5, <2>6, <2>7, PoolsOne, PoolsMove
<1> QED
  BY <1>2, <1>8, <1>9

\* The steps that leave the buffers where they are.
LEMMA ExclusiveStays ==
  ASSUME PoolsSafe, NEW c \in pools.Calls, NEW k, k.buffer = v4[c].buffer,
         v4' = [v4 EXCEPT ![c] = k], v1' = v1
  PROVE  Exclusive(v1', v4')
<1>1. /\ v4 \in [pools.Calls -> PoolCall] /\ Exclusive(v1, v4)
  BY PoolsOne
<1>2. \A d \in pools.Calls : v4'[d].buffer = v4[d].buffer
  BY <1>1
<1> QED
  BY <1>1, <1>2 DEF Exclusive

\* An encoder is taken from the pool, or made.
LEMMA PoolsGetEncoder ==
  ASSUME PoolsSafe, NEW c \in pools.Calls, Pools!GetEncoder(c)
  PROVE  PoolsSafe'
<1>1. v4[c].pc = "buffer" /\ UNCHANGED <<v1, v3, v7>>
  BY DEF Pools!GetEncoder
<1>2. PICK b \in PoolBuffers :
        /\ v4' = [v4 EXCEPT ![c].pc = "encoder", ![c].encoder = b]
        /\ \/ v2 # <<>> /\ b = Head(v2) /\ v2' = Tail(v2) /\ Pools!Does(c, "encoder", "taken")
           \/ v2 = <<>> /\ b = v4[c].buffer /\ Pools!Does(c, "encoder", "allocated") /\ v2' = v2
  BY PoolsConstants DEF Pools!GetEncoder
<1> DEFINE k == [v4[c] EXCEPT !.pc = "encoder", !.encoder = b]
<1>3. v4' = [v4 EXCEPT ![c] = k] /\ k.pc = "encoder" /\ k.encoder = b /\ k.buffer = v4[c].buffer /\ k \in PoolCall
  BY <1>2, PoolsOne DEF PoolCall
<1> HIDE DEF k
<1>4. b # 0 /\ v4[c].encoder = 0
  <2>1. b # 0
    BY DEF PoolBuffers
  <2>2. PlaceFits(v4[c])
    BY PoolsOne
  <2> QED
    BY <1>1, <2>1, <2>2 DEF PlaceFits
<1>5. PlaceFits(k)
  BY <1>1, <1>3, <1>4, PoolsOne DEF PlaceFits
<1>6. /\ v5 \in PoolOwes /\ v6 \in PoolStats /\ v2 \in Seq(PoolBuffers) /\ Exclusive(v1', v4')
  BY <1>1, <1>3, ExclusiveStays, PoolsOne
<1>7. /\ v5' \in PoolOwes /\ v6' \in PoolStats /\ Bal(v5', v6', "buffer") = Bal(v5, v6, "buffer")
      /\ Bal(v5', v6', "encoder") = Bal(v5, v6, "encoder") + 1 + (Len(v2') - Len(v2))
      /\ v2' \in Seq(PoolBuffers) /\ Len(v2') <= pools.MaxEncoders
  <2>1. CASE v2 # <<>> /\ b = Head(v2) /\ v2' = Tail(v2) /\ Pools!Does(c, "encoder", "taken")
    <3>1. /\ v5' \in PoolOwes /\ v6' \in PoolStats /\ Bal(v5', v6', "encoder") = Bal(v5, v6, "encoder") + 0
          /\ Bal(v5', v6', "buffer") = Bal(v5, v6, "buffer")
      BY <1>6, <2>1, DoesMove DEF PoolDeeds, Pools!GetEncoder
    <3>2. v2' \in Seq(PoolBuffers) /\ Len(v2') = Len(v2) - 1 /\ Len(v2) \in Nat
      BY <1>6, <2>1, TailIs
    <3> QED
      BY <3>1, <3>2, PoolsOne, PoolsConstants
  <2>2. CASE v2 = <<>> /\ b = v4[c].buffer /\ Pools!Does(c, "encoder", "allocated") /\ v2' = v2
    <3>1. /\ v5' \in PoolOwes /\ v6' \in PoolStats /\ Bal(v5', v6', "encoder") = Bal(v5, v6, "encoder") + 1
          /\ Bal(v5', v6', "buffer") = Bal(v5, v6, "buffer")
      BY <1>6, <2>2, DoesMove DEF PoolDeeds, Pools!GetEncoder
    <3> QED
      BY <2>2, <3>1, PoolsOne
  <2> QED
    BY <1>2, <2>1, <2>2
<1>8. Bal(v5', v6', "encoder") = Bal(v5, v6, "encoder") + (One(k.encoder) - One(v4[c].encoder)) + (Len(v2') - Len(v2))
  BY <1>3, <1>4, <1>7 DEF One
<1>9. Bal(v5', v6', "buffer") = Bal(v5, v6, "buffer") + (One(k.buffer) - One(v4[c].buffer)) + (Len(v1') - Len(v1))
  BY <1>1, <1>3, <1>6, <1>7, PoolsOne DEF One
<1> QED
  BY <1>1, <1>3, <1>5, <1>6, <1>7, <1>8, <1>9, PoolsOne, PoolsMove

\* Encoding and copying move no buffer.
LEMMA PoolsWork ==
  ASSUME PoolsSafe, NEW c \in pools.Calls,
         Pools!Encode(c) \/ Pools!EncodeFails(c) \/ Pools!CopyResult(c)
  PROVE  PoolsSafe'
<1>1. UNCHANGED <<v1, v2, v5, v6, v7>> /\ v4[c].pc \in {"encoder", "encoded"}
  BY DEF Pools!Encode, Pools!EncodeFails, Pools!CopyResult
<1>2. /\ v4[c] \in PoolCall /\ PlaceFits(v4[c]) /\ v4[c].encoder \in PoolBuffers /\ v4[c].buffer \in PoolBuffers
      /\ v3 \in [PoolBuffers -> Seq(pools.Calls)]
  BY <1>1, PoolsOne DEF PlaceFits, PoolCall
<1>3. PICK pc \in {"encoded", "copied", "failed"}, result \in Seq(pools.Calls), err \in BOOLEAN :
        /\ v4' = [v4 EXCEPT ![c] = [v4[c] EXCEPT !.pc = pc, !.result = result, !.err = err]]
        /\ pc = "failed" => err
  <2>1. CASE Pools!Encode(c)
    <3>1. v4' = [v4 EXCEPT ![c] = [v4[c] EXCEPT !.pc = "encoded", !.result = v4[c].result, !.err = v4[c].err]]
      BY <1>2, <2>1 DEF Pools!Encode, PoolCall
    <3>2. v4[c].result \in Seq(pools.Calls) /\ v4[c].err \in BOOLEAN
      BY <1>2 DEF PoolCall
    <3> QED
      BY <3>1, <3>2
  <2>2. CASE Pools!CopyResult(c)
    <3>1. v4' = [v4 EXCEPT ![c] = [v4[c] EXCEPT !.pc = "copied", !.result = v3[v4[c].buffer], !.err = v4[c].err]]
      BY <1>2, <2>2 DEF Pools!CopyResult, PoolCall
    <3>2. v3[v4[c].buffer] \in Seq(pools.Calls) /\ v4[c].err \in BOOLEAN
      BY <1>2 DEF PoolCall
    <3> QED
      BY <3>1, <3>2
  <2>3. CASE Pools!EncodeFails(c)
    <3>1. v4' = [v4 EXCEPT ![c] = [v4[c] EXCEPT !.pc = "failed", !.result = v4[c].result, !.err = TRUE]]
      BY <1>2, <2>3 DEF Pools!EncodeFails, PoolCall
    <3>2. v4[c].result \in Seq(pools.Calls)
      BY <1>2 DEF PoolCall
    <3> QED
      BY <3>1, <3>2
  <2> QED
    BY <2>1, <2>2, <2>3
<1> DEFINE k == [v4[c] EXCEPT !.pc = pc, !.result = result, !.err = err]
<1>4. /\ k \in PoolCall /\ k.pc = pc /\ k.buffer = v4[c].buffer /\ k.encoder = v4[c].encoder
      /\ k.err = err
  BY <1>2, <1>3 DEF PoolCall
<1>5. v4' = [v4 EXCEPT ![c] = k]
  BY <1>3
<1> HIDE DEF k
<1>6. PlaceFits(k)
  BY <1>1, <1>2, <1>3, <1>4 DEF PlaceFits
<1>7. v3' \in [PoolBuffers -> Seq(pools.Calls)]
  <2>1. CASE Pools!Encode(c)
    <3>1. Append(v3[v4[c].encoder], c) \in Seq(pools.Calls)
      BY <1>2, AppendIs
    <3> QED
      BY <1>2, <2>1, <3>1 DEF Pools!Encode
  <2>2. CASE Pools!CopyResult(c)
    BY <1>2, <2>2 DEF Pools!CopyResult
  <2>3. CASE Pools!EncodeFails(c)
    BY <1>2, <2>3 DEF Pools!EncodeFails
  <2> QED
    BY <2>1, <2>2, <2>3
<1>8. Exclusive(v1', v4')
  BY <1>1, <1>4, <1>5, ExclusiveStays
<1>9. /\ Bal(v5', v6', "buffer") = Bal(v5, v6, "buffer") + (One(k.buffer) - One(v4[c].buffer)) + (Len(v1') - Len(v1))
      /\ Bal(v5', v6', "encoder") = Bal(v5, v6, "encoder") + (One(k.encoder) - One(v4[c].encoder)) + (Len(v2') - Len(v2))
  BY <1>1, <1>4, PoolsOne DEF One
<1> QED
  BY <1>1, <1>5, <1>6, <1>7, <1>8, <1>9, PoolsOne, PoolsMove

\* The encoder goes back, or is discarded.
LEMMA PoolsPutEncoder ==
  ASSUME PoolsSafe, NEW c \in pools.Calls, Pools!PutEncoder(c)
  PROVE  PoolsSafe'
<1>1. v4[c].pc \in {"copied", "failed"} /\ UNCHANGED <<v1, v3, v7>>
  BY DEF Pools!PutEncoder
<1> DEFINE k == [v4[c] EXCEPT !.pc = "putEncoder", !.encoder = 0]
<1>2. v4' = [v4 EXCEPT ![c] = k] /\ k.pc = "putEncoder" /\ k.encoder = 0 /\ k.buffer = v4[c].buffer /\ k \in PoolCall
  BY PoolsOne, PoolsConstants DEF PoolCall, Pools!PutEncoder
<1> HIDE DEF k
<1>3. v4[c].encoder \in PoolBuffers /\ v4[c].encoder # 0
  BY <1>1, PoolsOne DEF PlaceFits, PoolCall
<1>4. PlaceFits(k)
  BY <1>1, <1>2, PoolsOne DEF PlaceFits
<1>5. /\ v5 \in PoolOwes /\ v6 \in PoolStats /\ v2 \in Seq(PoolBuffers) /\ Exclusive(v1', v4')
  BY <1>1, <1>2, ExclusiveStays, PoolsOne
<1>6. /\ v5' \in PoolOwes /\ v6' \in PoolStats /\ Bal(v5', v6', "buffer") = Bal(v5, v6, "buffer")
      /\ Bal(v5', v6', "encoder") = Bal(v5, v6, "encoder") - 1 + (Len(v2') - Len(v2))
      /\ v2' \in Seq(PoolBuffers) /\ Len(v2') <= pools.MaxEncoders
  <2>1. CASE Len(v2) < pools.MaxEncoders
    <3>1. v2' = Append(v2, v4[c].encoder) /\ Pools!Does(c, "encoder", "returned")
      BY <2>1 DEF Pools!PutEncoder
    <3>2. /\ v5' \in PoolOwes /\ v6' \in PoolStats /\ Bal(v5', v6', "encoder") = Bal(v5, v6, "encoder") + 0
          /\ Bal(v5', v6', "buffer") = Bal(v5, v6, "buffer")
      BY <1>5, <3>1, DoesMove DEF PoolDeeds, Pools!PutEncoder
    <3>3. v2' \in Seq(PoolBuffers) /\ Len(v2') = Len(v2) + 1 /\ Len(v2) \in Nat
      BY <1>3, <1>5, <3>1, AppendIs
    <3> QED
      BY <2>1, <3>2, <3>3, PoolsOne, PoolsConstants
  <2>2. CASE ~(Len(v2) < pools.MaxEncoders)
    <3>1. v2' = v2 /\ Pools!Does(c, "encoder", "discarded")
      BY <2>2 DEF Pools!PutEncoder
    <3>2. /\ v5' \in PoolOwes /\ v6' \in PoolStats /\ Bal(v5', v6', "encoder") = Bal(v5, v6, "encoder") - 1
          /\ Bal(v5', v6', "buffer") = Bal(v5, v6, "buffer")
      BY <1>5, <3>1, DoesMove DEF PoolDeeds, Pools!PutEncoder
    <3> QED
      BY <3>1, <3>2, PoolsOne
  <2> QED
    BY <2>1, <2>2
<1>7. Bal(v5', v6', "encoder") = Bal(v5, v6, "encoder") + (One(k.encoder) - One(v4[c].encoder)) + (Len(v2') - Len(v2))
  BY <1>2, <1>3, <1>5, <1>6, PoolsOne DEF One
<1>8. Bal(v5', v6', "buffer") = Bal(v5, v6, "buffer") + (One(k.buffer) - One(v4[c].buffer)) + (Len(v1') - Len(v1))
  BY <1>1, <1>2, <1>5, <1>6, PoolsOne DEF One
<1> QED
  BY <1>1, <1>2, <1>4, <1>5, <1>6, <1>7, <1>8, PoolsOne, PoolsMove

\* The buffer goes back, or is discarded.
LEMMA PoolsPutBuffer ==
  ASSUME PoolsSafe, NEW c \in pools.Calls, Pools!PutBuffer(c)
  PROVE  PoolsSafe'
<1> DEFINE k == [v4[c] EXCEPT !.pc = "done", !.buffer = 0]  b == v4[c].buffer
<1>1. v4[c].pc = "putEncoder" /\ UNCHANGED <<v2, v7>> /\ v3' = [v3 EXCEPT ![b] = <<>>]
  BY DEF Pools!PutBuffer
<1>2. v4' = [v4 EXCEPT ![c] = k] /\ k.pc = "done" /\ k.buffer = 0 /\ k.encoder = v4[c].encoder /\ k \in PoolCall
  BY PoolsOne, PoolsConstants DEF PoolCall, Pools!PutBuffer
<1> HIDE DEF k
<1>3. b \in PoolBuffers /\ b # 0
  BY <1>1, PoolsOne DEF PlaceFits, PoolCall
<1>4. PlaceFits(k)
  BY <1>1, <1>2, PoolsOne DEF PlaceFits
<1>5. /\ v5 \in PoolOwes /\ v6 \in PoolStats /\ v1 \in Seq(PoolBuffers) /\ v4 \in [pools.Calls -> PoolCall] /\ Len(v1) \in Nat
      /\ v3' \in [PoolBuffers -> Seq(pools.Calls)] /\ Exclusive(v1, v4)
  <2>1. <<>> \in Seq(pools.Calls) /\ v3 \in [PoolBuffers -> Seq(pools.Calls)]
    BY PoolsOne
  <2>2. v3' \in [PoolBuffers -> Seq(pools.Calls)]
    BY <1>1, <2>1
  <2> QED
    BY <2>2, PoolsOne
<1>6. /\ v4'[c] = k /\ \A d \in pools.Calls : d # c => v4'[d] = v4[d] /\ v4[d].buffer # b
  BY <1>2, <1>3, <1>5 DEF Exclusive
<1>7. /\ v5' \in PoolOwes /\ v6' \in PoolStats /\ Bal(v5', v6', "encoder") = Bal(v5, v6, "encoder")
      /\ Bal(v5', v6', "buffer") = Bal(v5, v6, "buffer") - 1 + (Len(v1') - Len(v1))
      /\ v1' \in Seq(PoolBuffers) /\ Len(v1') <= pools.MaxBuffers /\ Exclusive(v1', v4')
  <2>1. CASE Len(v1) < pools.MaxBuffers
    <3>1. v1' = Append(v1, b) /\ Pools!Does(c, "buffer", "returned")
      BY <2>1 DEF Pools!PutBuffer
    <3>2. /\ v5' \in PoolOwes /\ v6' \in PoolStats /\ Bal(v5', v6', "buffer") = Bal(v5, v6, "buffer") + 0
          /\ Bal(v5', v6', "encoder") = Bal(v5, v6, "encoder")
      BY <1>5, <3>1, DoesMove DEF PoolDeeds, Pools!PutBuffer
    <3>3. /\ v1' \in Seq(PoolBuffers) /\ Len(v1') = Len(v1) + 1 /\ v1'[Len(v1) + 1] = b
          /\ \A i \in 1..Len(v1) : v1'[i] = v1[i]
      BY <1>3, <1>5, <3>1, AppendIs
    <3>4. \A i \in 1..Len(v1') : i \in 1..Len(v1) \/ i = Len(v1) + 1
      BY <1>5, <3>3
    <3>5. \A i \in 1..Len(v1) : v1[i] # b
      BY <1>5 DEF Exclusive
    <3>6. \A i \in 1..Len(v1) : v1[i] # 0
      BY <1>5 DEF PoolBuffers
    <3>7. ASSUME NEW d \in pools.Calls, NEW e \in pools.Calls, d # e, v4'[d].buffer = v4'[e].buffer
          PROVE  v4'[d].buffer = 0
      BY <1>2, <1>5, <1>6, <3>7 DEF Exclusive
    <3>8. ASSUME NEW d \in pools.Calls, NEW i \in 1..Len(v1')
          PROVE  v4'[d].buffer # v1'[i]
      <4>1. CASE i = Len(v1) + 1
        BY <1>2, <1>3, <1>6, <3>3, <4>1
      <4>2. CASE i \in 1..Len(v1) /\ d = c
        BY <1>2, <1>6, <3>3, <3>6, <4>2
      <4>3. CASE i \in 1..Len(v1) /\ d # c
        BY <1>5, <1>6, <3>3, <4>3 DEF Exclusive
      <4> QED
        BY <3>4, <4>1, <4>2, <4>3
    <3>9. ASSUME NEW i \in 1..Len(v1'), NEW j \in 1..Len(v1'), v1'[i] = v1'[j]
          PROVE  i = j
      <4>1. \A x, y \in 1..Len(v1) : v1[x] = v1[y] => x = y
        BY <1>5 DEF Exclusive
      <4> HIDE DEF b
      <4> QED
        BY <3>3, <3>4, <3>5, <3>9, <4>1
    <3>10. Exclusive(v1', v4')
      BY <3>7, <3>8, <3>9 DEF Exclusive
    <3> QED
      BY <2>1, <3>2, <3>3, <3>10, PoolsOne, PoolsConstants
  <2>2. CASE ~(Len(v1) < pools.MaxBuffers)
    <3>1. v1' = v1 /\ Pools!Does(c, "buffer", "discarded")
      BY <2>2 DEF Pools!PutBuffer
    <3>2. /\ v5' \in PoolOwes /\ v6' \in PoolStats /\ Bal(v5', v6', "buffer") = Bal(v5, v6, "buffer") - 1
          /\ Bal(v5', v6', "encoder") = Bal(v5, v6, "encoder")
      BY <1>5, <3>1, DoesMove DEF PoolDeeds, Pools!PutBuffer
    <3>3. \A i \in 1..Len(v1) : v1[i] # 0
      BY <1>5 DEF PoolBuffers
    <3>4. ASSUME NEW d \in pools.Calls, NEW e \in pools.Calls, d # e, v4'[d].buffer = v4'[e].buffer
          PROVE  v4'[d].buffer = 0
      BY <1>2, <1>5, <1>6, <3>4 DEF Exclusive
    <3>5. ASSUME NEW d \in pools.Calls, NEW i \in 1..Len(v1)
          PROVE  v4'[d].buffer # v1[i]
      BY <1>2, <1>5, <1>6, <3>3 DEF Exclusive
    <3>6. Exclusive(v1', v4')
      BY <1>5, <3>1, <3>4, <3>5 DEF Exclusive
    <3> QED
      BY <3>1, <3>2, <3>6, PoolsOne
  <2> QED
    BY <2>1, <2>2
<1>8. Bal(v5', v6', "buffer") = Bal(v5, v6, "buffer") + (One(k.buffer) - One(v4[c].buffer)) + (Len(v1') - Len(v1))
  BY <1>2, <1>3, <1>5, <1>7, PoolsOne DEF One
<1>9. Bal(v5', v6', "encoder") = Bal(v5, v6, "encoder") + (One(k.encoder) - One(v4[c].encoder)) + (Len(v2') - Len(v2))
  BY <1>1, <1>2, <1>5, <1>7, PoolsOne DEF One
<1> QED
  BY <1>1, <1>2, <1>4, <1>5, <1>7, <1>8, <1>9, PoolsOne, PoolsMove

\* Counting what was done leaves the balance as it is.
LEMMA PoolsUpdateStats ==
  ASSUME PoolsSafe, NEW c \in pools.Calls, Pools!UpdateStats(c)
  PROVE  PoolsSafe'
<1> DEFINE p == v5[c].pool  deed == v5[c].deed  a == [v5[c] EXCEPT !.deed = "nothing"]
<1>1. /\ v5 \in PoolOwes /\ v6 \in PoolStats /\ p \in {"buffer", "encoder"} /\ deed \in PoolDeeds
      /\ v5[c] = [pool |-> p, deed |-> deed] /\ DOMAIN v5 = pools.Calls /\ IsFiniteSet(pools.Calls)
      /\ v4 \in [pools.Calls -> PoolCall]
  BY PoolsOne, PoolsConstants DEF PoolOwes
<1>2. v5' = [v5 EXCEPT ![c] = a] /\ UNCHANGED <<v1, v2, v3, v4, v7>>
  BY <1>1 DEF Pools!UpdateStats, PoolOwes
<1>3. v5' \in PoolOwes /\ a.deed = "nothing"
  BY <1>1, <1>2 DEF PoolOwes, PoolDeeds
<1>4. ASSUME NEW q, NEW e \in {"allocated", "discarded"}
      PROVE  Cardinality(Owe(v5', q, e)) =
               Cardinality(Owe(v5, q, e)) + (IF p = q /\ deed = e THEN -1 ELSE 0)
  <2> DEFINE d == [pool |-> q, deed |-> e]
  <2>1. (v5[c] = d) <=> (p = q /\ deed = e)
    <3>1. d.pool = q /\ d.deed = e
      OBVIOUS
    <3> QED
      BY <1>1, <3>1
  <2>2. a # d
    <3>1. d.deed = e
      OBVIOUS
    <3> QED
      BY <1>3, <3>1
  <2> HIDE DEF a, d
  <2>3. /\ Cardinality(Who(pools.Calls, v5, d)) \in Nat
        /\ Cardinality(Who(pools.Calls, v5', d)) =
              Cardinality(Who(pools.Calls, v5, d))
                + (IF a = d /\ v5[c] # d THEN 1 ELSE IF a # d /\ v5[c] = d THEN -1 ELSE 0)
    <3>1. ButFor(pools.Calls, v5, c, a, v5')
      BY <1>1, <1>2 DEF ButFor
    <3> QED
      BY <1>1, <1>2, <3>1, OneOwesAnother
  <2> QED
    BY <2>1, <2>2, <2>3 DEF Owe, Who, d
<1>5. PICK m \in {-1, 0, 1}, n \in {-1, 0, 1} :
        /\ v6' = [v6 EXCEPT ![p] = [TotalReturned |-> v6[p].TotalReturned + m,
                                    TotalAllocated |-> v6[p].TotalAllocated + n]]
        /\ n = IF deed = "allocated" THEN 1 ELSE IF deed = "discarded" THEN -1 ELSE 0
  <2>1. \/ deed = "taken" /\ Pools!Counts(p, 1, 0)
        \/ deed = "allocated" /\ Pools!Counts(p, 0, 1)
        \/ deed = "returned" /\ Pools!Counts(p, -1, 0)
        \/ deed = "discarded" /\ Pools!Counts(p, 0, -1)
    BY DEF Pools!UpdateStats
  <2> HIDE DEF p, deed
  <2> QED
    BY <2>1 DEF Pools!Counts
<1>6. \A q \in {"buffer", "encoder"} :
        /\ v6[q].TotalAllocated \in Int /\ v6[q].TotalReturned \in Int
        /\ Cardinality(Owe(v5, q, "allocated")) \in Nat
        /\ Cardinality(Owe(v5, q, "discarded")) \in Nat
  BY <1>1, BalIsInt DEF PoolStats
<1> HIDE DEF p, deed, a
<1>7. /\ v6' \in PoolStats
      /\ \A q \in {"buffer", "encoder"} :
           v6'[q].TotalAllocated = v6[q].TotalAllocated + (IF p = q THEN n ELSE 0)
  BY <1>1, <1>5, <1>6 DEF PoolStats
<1>8. \A q \in {"buffer", "encoder"} : Bal(v5', v6', q) = Bal(v5, v6, q)
  BY <1>4, <1>5, <1>6, <1>7 DEF Bal
<1>9. v4' = [v4 EXCEPT ![c] = v4[c]]
  BY <1>1, <1>2
<1>10. Exclusive(v1', v4')
  BY <1>2, PoolsOne
<1>11. /\ Bal(v5', v6', "buffer") = Bal(v5, v6, "buffer") + (One(v4[c].buffer) - One(v4[c].buffer)) + (Len(v1') - Len(v1))
       /\ Bal(v5', v6', "encoder") = Bal(v5, v6, "encoder") + (One(v4[c].encoder) - One(v4[c].encoder)) + (Len(v2') - Len(v2))
  BY <1>2, <1>8, PoolsOne DEF One
<1> QED
  BY <1>2, <1>3, <1>7, <1>9, <1>10, <1>11, PoolsOne, PoolsMove

\* What Paired says of the call that has its turn, in terms of the pools.
Idle(k) == k.pc \in {"start", "done"}
TurnFits(c, k, pool, encs, text) ==
  /\ Idle(k) => /\ pool = encs /\ Len(pool) <= 1
                /\ \A i \in 1..Len(pool) : text[pool[i]] = <<>>
  /\ ~Idle(k) => pool = <<>>
  /\ k.pc = "buffer" => encs \in {<<>>, <<k.buffer>>}
  /\ k.pc = "putEncoder" => encs = <<k.buffer>>
  /\ k.pc \in {"encoder", "encoded", "copied", "failed"} => encs = <<>> /\ k.encoder = k.buffer
  /\ k.pc \in {"buffer", "encoder"} => text[k.buffer] = <<>>
  /\ k.pc = "encoded" => text[k.buffer] = <<c>>
  /\ k.pc \in {"copied", "putEncoder", "done"} /\ ~k.err => k.result = <<c>>

OthersIdle(c) ==
  \A d \in pools.Calls \ {c} : Idle(v4[d]) /\ (v4[d].pc = "done" /\ ~v4[d].err => v4[d].result = <<d>>)

\* The call whose turn it is finds the pools as TurnFits says.
LEMMA TurnOf ==
  ASSUME Pools!Paired, NEW c \in pools.Calls, \A d \in pools.Calls \ {c} : Idle(v4[d])
  PROVE  OthersIdle(c) /\ TurnFits(c, v4[c], v1, v2, v3)
<1>1. \A d \in pools.Calls : Pools!UnderWay(d) <=> ~Idle(v4[d])
  BY DEF Pools!UnderWay, Idle
<1>2. OthersIdle(c)
  BY DEF OthersIdle, Pools!Paired, Pools!Answered
<1>3. Idle(v4[c]) => /\ v1 = v2 /\ Len(v1) <= 1
                     /\ \A i \in 1..Len(v1) : v3[v1[i]] = <<>>
  BY <1>1 DEF Pools!Paired
<1>4. ~Idle(v4[c]) => v1 = <<>>
  BY <1>1 DEF Pools!Paired
<1> QED
  BY <1>2, <1>3, <1>4 DEF TurnFits, Pools!Paired, Pools!Answered

\* Nobody else is under way when one is.
LEMMA TurnsAreTaken ==
  ASSUME PoolsSafe, Pools!Paired, NEW c \in pools.Calls, ~Idle(v4[c])
  PROVE  OthersIdle(c) /\ TurnFits(c, v4[c], v1, v2, v3)
<1>1. \A d \in pools.Calls \ {c} : Idle(v4[d])
  BY DEF Pools!Paired, Pools!UnderWay, Idle
<1> QED
  BY <1>1, TurnOf

\* ... and leaves them so.
LEMMA PairedAgain ==
  ASSUME PoolsSafe, NEW c \in pools.Calls, OthersIdle(c), NEW k, v4' = [v4 EXCEPT ![c] = k],
         TurnFits(c, k, v1', v2', v3')
  PROVE  Pools!Paired'
<1>1. v4 \in [pools.Calls -> PoolCall]
  BY PoolsOne
<1>2. v4'[c] = k /\ \A d \in pools.Calls \ {c} : v4'[d] = v4[d]
  BY <1>1
<1>3. \A d \in pools.Calls \ {c} : Idle(v4'[d]) /\ (v4'[d].pc = "done" /\ ~v4'[d].err => v4'[d].result = <<d>>)
  BY <1>2 DEF OthersIdle
<1>4. \A d \in pools.Calls : v4'[d].pc \notin {"start", "done"} => d = c /\ ~Idle(k)
  BY <1>2, <1>3 DEF Idle
<1>5. (\A d \in pools.Calls : v4'[d].pc \in {"start", "done"}) => Idle(k)
  BY <1>2 DEF Idle
<1>6. ASSUME NEW d \in pools.Calls
      PROVE  /\ v4'[d].pc \notin {"start", "done"} => v1' = <<>>
             /\ v4'[d].pc = "buffer" => v2' \in {<<>>, <<v4'[d].buffer>>}
             /\ v4'[d].pc = "putEncoder" => v2' = <<v4'[d].buffer>>
             /\ v4'[d].pc \in {"encoder", "encoded", "copied", "failed"} => v2' = <<>> /\ v4'[d].encoder = v4'[d].buffer
             /\ v4'[d].pc \in {"buffer", "encoder"} => v3'[v4'[d].buffer] = <<>>
             /\ v4'[d].pc = "encoded" => v3'[v4'[d].buffer] = <<d>>
             /\ v4'[d].pc \in {"copied", "putEncoder", "done"} /\ ~v4'[d].err => v4'[d].result = <<d>>
  <2>1. CASE d = c
    BY <1>2, <2>1 DEF TurnFits, Idle
  <2>2. CASE d # c
    BY <1>3, <2>2 DEF Idle
  <2> QED
    BY <2>1, <2>2
<1>7. Idle(k) => /\ v1' = v2' /\ Len(v1') <= 1
                 /\ \A i \in 1..Len(v1') : v3'[v1'[i]] = <<>>
  BY DEF TurnFits
<1> QED
  BY <1>4, <1>5, <1>6, <1>7 DEF Pools!Paired, Pools!UnderWay, Pools!Answered

\* What has no element is empty.
LEMMA EmptyIs ==
  ASSUME NEW S, NEW q \in Seq(S), Len(q) = 0
  PROVE  q = <<>>
OBVIOUS

\* One is the only number between one and one.
LEMMA OneIs ==
  ASSUME NEW n \in Nat, n >= 1, n <= 1
  PROVE  n = 1
OBVIOUS

\* A sequence of one element.
LEMMA OfOne ==
  ASSUME NEW S, NEW q \in Seq(S), Len(q) = 1
  PROVE  Tail(q) = <<>> /\ q = <<Head(q)>> /\ Head(q) = q[1]
<1>1. Tail(q) \in Seq(S) /\ Len(Tail(q)) = 0
  OBVIOUS
<1>2. Tail(q) = <<>>
  BY <1>1, EmptyIs
<1>3. Head(q) = q[1]
  OBVIOUS
<1>4. q = <<q[1]>>
  OBVIOUS
<1> QED
  BY <1>2, <1>3, <1>4

\* A call that begins alone finds the buffer and its encoder together, or neither.
LEMMA PairedGetBuffer ==
  ASSUME PoolsSafe, Pools!Paired, NEW c \in pools.Calls, Pools!GetBuffer(c),
         \A d \in pools.Calls \ {c} : ~Pools!UnderWay(d)
  PROVE  Pools!Paired'
<1>1. v4[c].pc = "start" /\ v2' = v2
  BY DEF Pools!GetBuffer
<1>2. PICK b \in PoolBuffers :
        /\ v4' = [v4 EXCEPT ![c].pc = "buffer", ![c].buffer = b]
        /\ \/ v1 # <<>> /\ b = Head(v1) /\ v1' = Tail(v1) /\ v3' = v3
           \/ v1 = <<>> /\ v3' = [v3 EXCEPT ![b] = <<>>] /\ v1' = v1
  BY PoolsConstants DEF Pools!GetBuffer
<1>3. OthersIdle(c) /\ TurnFits(c, v4[c], v1, v2, v3)
  BY TurnOf DEF Pools!UnderWay, Idle
<1>4. /\ v1 = v2 /\ v1 \in Seq(PoolBuffers) /\ Len(v1) \in Nat /\ Len(v1) <= 1
      /\ \A i \in 1..Len(v1) : v3[v1[i]] = <<>>
  BY <1>1, <1>3, PoolsOne DEF TurnFits, Idle
<1> DEFINE k == [v4[c] EXCEPT !.pc = "buffer", !.buffer = b]
<1>5. v4' = [v4 EXCEPT ![c] = k] /\ k.pc = "buffer" /\ k.buffer = b
  BY <1>2, PoolsOne DEF PoolCall
<1> HIDE DEF k
<1>6. v1' = <<>> /\ v2' \in {<<>>, <<b>>} /\ v3'[b] = <<>>
  <2>1. CASE v1 # <<>> /\ b = Head(v1) /\ v1' = Tail(v1) /\ v3' = v3
    <3>0. Len(v1) >= 1
      BY <1>4, <2>1, TailIs
    <3>1. Len(v1) = 1
      BY <1>4, <3>0, OneIs
    <3>2. Tail(v1) = <<>> /\ v1 = <<b>> /\ b = v1[1]
      BY <1>4, <2>1, <3>1, OfOne
    <3> QED
      BY <1>1, <1>4, <2>1, <3>1, <3>2
  <2>2. CASE v1 = <<>> /\ v3' = [v3 EXCEPT ![b] = <<>>] /\ v1' = v1
    <3>1. v3 \in [PoolBuffers -> Seq(pools.Calls)]
      BY PoolsOne
    <3> QED
      BY <1>1, <1>4, <2>2, <3>1
  <2> QED
    BY <1>2, <2>1, <2>2
<1>7. TurnFits(c, k, v1', v2', v3')
  BY <1>5, <1>6 DEF TurnFits, Idle
<1> QED
  BY <1>3, <1>5, <1>7, PairedAgain

\* It takes the encoder of its own buffer, or makes one for it.
LEMMA PairedGetEncoder ==
  ASSUME PoolsSafe, Pools!Paired, NEW c \in pools.Calls, Pools!GetEncoder(c)
  PROVE  Pools!Paired'
<1>1. v4[c].pc = "buffer" /\ UNCHANGED <<v1, v3>>
  BY DEF Pools!GetEncoder
<1>2. PICK b \in PoolBuffers :
        /\ v4' = [v4 EXCEPT ![c].pc = "encoder", ![c].encoder = b]
        /\ \/ v2 # <<>> /\ b = Head(v2) /\ v2' = Tail(v2)
           \/ v2 = <<>> /\ b = v4[c].buffer /\ v2' = v2
  BY PoolsConstants DEF Pools!GetEncoder
<1>3. OthersIdle(c) /\ TurnFits(c, v4[c], v1, v2, v3)
  BY <1>1, TurnsAreTaken DEF Idle
<1>4. /\ v1 = <<>> /\ v2 \in {<<>>, <<v4[c].buffer>>} /\ v3[v4[c].buffer] = <<>>
  BY <1>1, <1>3 DEF TurnFits, Idle
<1> DEFINE k == [v4[c] EXCEPT !.pc = "encoder", !.encoder = b]
<1>5. v4' = [v4 EXCEPT ![c] = k] /\ k.pc = "encoder" /\ k.encoder = b /\ k.buffer = v4[c].buffer
  BY <1>2, PoolsOne DEF PoolCall
<1> HIDE DEF k
<1>6. v2' = <<>> /\ b = v4[c].buffer
  <2>1. CASE v2 = <<>>
    BY <1>2, <2>1
  <2>2. CASE v2 = <<v4[c].buffer>>
    <3>1. v2 # <<>> /\ Head(v2) = v4[c].buffer /\ Tail(v2) = <<>>
      BY <2>2
    <3> QED
      BY <1>2, <3>1
  <2> QED
    BY <1>4, <2>1, <2>2
<1>7. TurnFits(c, k, v1', v2', v3')
  BY <1>1, <1>4, <1>5, <1>6 DEF TurnFits, Idle
<1> QED
  BY <1>3, <1>5, <1>7, PairedAgain

\* It writes to its own buffer and copies its own document.
LEMMA PairedWork ==
  ASSUME PoolsSafe, Pools!Paired, NEW c \in pools.Calls,
         Pools!Encode(c) \/ Pools!EncodeFails(c) \/ Pools!CopyResult(c)
  PROVE  Pools!Paired'
<1>1. UNCHANGED <<v1, v2>> /\ v4[c].pc \in {"encoder", "encoded"}
  BY DEF Pools!Encode, Pools!EncodeFails, Pools!CopyResult
<1>2. OthersIdle(c) /\ TurnFits(c, v4[c], v1, v2, v3)
  BY <1>1, TurnsAreTaken DEF Idle
<1>3. v1 = <<>> /\ v2 = <<>> /\ v4[c].encoder = v4[c].buffer
  BY <1>1, <1>2 DEF TurnFits, Idle
<1>4. v4[c].buffer \in PoolBuffers /\ v3 \in [PoolBuffers -> Seq(pools.Calls)] /\ v4[c] \in PoolCall
  BY <1>1, PoolsOne DEF PlaceFits, PoolCall
<1>5. CASE Pools!Encode(c)
  <2> DEFINE k == [v4[c] EXCEPT !.pc = "encoded"]
  <2>1. v4' = [v4 EXCEPT ![c] = k] /\ k.pc = "encoded" /\ k.encoder = v4[c].encoder /\ k.buffer = v4[c].buffer
    BY <1>4, <1>5 DEF PoolCall, Pools!Encode
  <2> HIDE DEF k
  <2>2. v3[v4[c].buffer] = <<>>
    BY <1>2, <1>5 DEF TurnFits, Pools!Encode
  <2>3. v3'[v4[c].buffer] = Append(v3[v4[c].buffer], c)
    BY <1>3, <1>4, <1>5 DEF Pools!Encode
  <2>4. v3'[v4[c].buffer] = <<c>>
    BY <2>2, <2>3
  <2>5. TurnFits(c, k, v1', v2', v3')
    BY <1>1, <1>3, <2>1, <2>4 DEF TurnFits, Idle
  <2> QED
    BY <1>2, <2>1, <2>5, PairedAgain
<1>6. CASE Pools!CopyResult(c)
  <2> DEFINE k == [v4[c] EXCEPT !.pc = "copied", !.result = v3[v4[c].buffer]]
  <2>1. /\ v4' = [v4 EXCEPT ![c] = k] /\ k.pc = "copied" /\ k.encoder = v4[c].encoder /\ k.buffer = v4[c].buffer
        /\ k.result = v3[v4[c].buffer]
    BY <1>4, <1>6 DEF PoolCall, Pools!CopyResult
  <2> HIDE DEF k
  <2>2. v3[v4[c].buffer] = <<c>>
    BY <1>2, <1>6 DEF TurnFits, Pools!CopyResult
  <2>3. TurnFits(c, k, v1', v2', v3')
    BY <1>1, <1>3, <2>1, <2>2 DEF TurnFits, Idle
  <2> QED
    BY <1>2, <2>1, <2>3, PairedAgain
<1>7. CASE Pools!EncodeFails(c)
  <2> DEFINE k == [v4[c] EXCEPT !.pc = "failed", !.err = TRUE]
  <2>1. v4' = [v4 EXCEPT ![c] = k] /\ k.pc = "failed" /\ k.encoder = v4[c].encoder /\ k.buffer = v4[c].buffer
    BY <1>4, <1>7 DEF PoolCall, Pools!EncodeFails
  <2> HIDE DEF k
  <2>2. TurnFits(c, k, v1', v2', v3')
    BY <1>1, <1>3, <2>1 DEF TurnFits, Idle
  <2> QED
    BY <1>2, <2>1, <2>2, PairedAgain
<1> QED
  BY <1>5, <1>6, <1>7

\* It gives the encoder back while it still has the buffer,
LEMMA PairedPutEncoder ==
  ASSUME PoolsSafe, Pools!Paired, NEW c \in pools.Calls, Pools!PutEncoder(c)
  PROVE  Pools!Paired'
<1>1. v4[c].pc \in {"copied", "failed"} /\ UNCHANGED <<v1, v3>>
  BY DEF Pools!PutEncoder
<1>2. OthersIdle(c) /\ TurnFits(c, v4[c], v1, v2, v3)
  BY <1>1, TurnsAreTaken DEF Idle
<1>3. v1 = <<>> /\ v2 = <<>> /\ v4[c].encoder = v4[c].buffer /\ (~v4[c].err => v4[c].result = <<c>>)
  BY <1>1, <1>2, PoolsOne DEF TurnFits, Idle, PlaceFits
<1> DEFINE k == [v4[c] EXCEPT !.pc = "putEncoder", !.encoder = 0]
<1>4. v4' = [v4 EXCEPT ![c] = k] /\ k.pc = "putEncoder" /\ k.buffer = v4[c].buffer /\ k.result = v4[c].result /\ k.err = v4[c].err
  BY PoolsOne, PoolsConstants DEF PoolCall, Pools!PutEncoder
<1> HIDE DEF k
<1>5. v2' = <<v4[c].buffer>>
  <2>1. Len(v2) < pools.MaxEncoders
    BY <1>3, PoolsConstants
  <2>2. v2' = Append(v2, v4[c].encoder)
    BY <2>1 DEF Pools!PutEncoder
  <2> QED
    BY <1>3, <2>2
<1>6. TurnFits(c, k, v1', v2', v3')
  BY <1>1, <1>3, <1>4, <1>5 DEF TurnFits, Idle
<1> QED
  BY <1>2, <1>4, <1>6, PairedAgain

\* ... and then the buffer, emptied.
LEMMA PairedPutBuffer ==
  ASSUME PoolsSafe, Pools!Paired, NEW c \in pools.Calls, Pools!PutBuffer(c)
  PROVE  Pools!Paired'
<1> DEFINE k == [v4[c] EXCEPT !.pc = "done", !.buffer = 0]  b == v4[c].buffer
<1>1. v4[c].pc = "putEncoder" /\ v2' = v2 /\ v3' = [v3 EXCEPT ![b] = <<>>]
  BY DEF Pools!PutBuffer
<1>2. OthersIdle(c) /\ TurnFits(c, v4[c], v1, v2, v3)
  BY <1>1, TurnsAreTaken DEF Idle
<1>3. v1 = <<>> /\ v2 = <<b>> /\ (~v4[c].err => v4[c].result = <<c>>)
  BY <1>1, <1>2 DEF TurnFits, Idle
<1>4. v4' = [v4 EXCEPT ![c] = k] /\ k.pc = "done" /\ k.result = v4[c].result /\ k.err = v4[c].err
  BY PoolsOne, PoolsConstants DEF PoolCall, Pools!PutBuffer
<1> HIDE DEF k
<1>5. v1' = <<b>>
  <2>1. Len(v1) < pools.MaxBuffers
    BY <1>3, PoolsConstants
  <2>2. v1' = Append(v1, b)
    BY <2>1 DEF Pools!PutBuffer
  <2> QED
    BY <1>3, <2>2
<1>6. v3'[b] = <<>>
  <2>1. b \in PoolBuffers /\ v3 \in [PoolBuffers -> Seq(pools.Calls)]
    BY <1>1, PoolsOne DEF PlaceFits, PoolCall
  <2> QED
    BY <1>1, <2>1
<1>7. \A i \in 1..Len(<<b>>) : <<b>>[i] = b
  OBVIOUS
<1> HIDE DEF b
<1>8. TurnFits(c, k, v1', v2', v3')
  BY <1>1, <1>3, <1>4, <1>5, <1>6, <1>7 DEF TurnFits, Idle
<1> QED
  BY <1>2, <1>4, <1>8, PairedAgain

\* Every step keeps the invariant.
LEMMA PoolsNext == Pools!PoolsInv /\ [Pools!Next]_(Pools!vars) => Pools!PoolsInv'
<1> SUFFICES ASSUME Pools!PoolsInv, [Pools!Next]_(Pools!vars) PROVE Pools!PoolsInv'
  OBVIOUS
<1>1. PoolsSafe
  BY DEF Pools!PoolsInv, PoolsSafe
<1>2. CASE UNCHANGED Pools!vars
  <2>1. Pools!TypeOK' /\ Pools!PoolsConsistent' /\ Pools!HeldByPlace'
    <3>1. UNCHANGED <<v1, v2, v3, v4, v5, v6, v7>>
      BY <1>2 DEF Pools!vars
    <3>2. Pools!TypeOK /\ Pools!BuffersExclusive /\ Pools!AllocatedAccountedFor /\ Pools!HeldByPlace
      BY <1>1 DEF PoolsSafe, Pools!PoolsConsistent
    <3>3. Pools!TypeOK'
      BY <3>1, <3>2, PoolsTyped, PoolsTypedAgain
    <3>4. Pools!BuffersExclusive'
      BY <3>1, <3>2, PoolsTyped, ExclusiveIs, ExclusiveAgain
    <3>5. Pools!AllocatedAccountedFor'
      <4>1. Len(v1') \in Nat /\ Len(v2') \in Nat
        BY <3>1, <3>2, PoolsTyped
      <4> QED
        BY <3>1, <3>2, <4>1, PoolsTyped, AccountsAre, AccountsAgain
    <3>6. Pools!HeldByPlace'
      BY <3>1, <3>2 DEF Pools!HeldByPlace, Pools!UnderWay
    <3> QED
      BY <3>3, <3>4, <3>5, <3>6 DEF Pools!PoolsConsistent
  <2>2. Pools!Paired => Pools!Paired'
    BY <1>2 DEF Pools!vars, Pools!Paired, Pools!UnderWay, Pools!Answered
  <2> QED
    BY <1>2, <2>1, <2>2 DEF Pools!PoolsInv, Pools!vars
<1>3. ASSUME NEW c \in pools.Calls, Pools!OptimizedJSONMarshal(c)
      PROVE  Pools!PoolsInv'
  <2>1. PoolsSafe'
    BY <1>1, <1>3, PoolsGetBuffer, PoolsGetEncoder, PoolsWork, PoolsPutEncoder, PoolsPutBuffer,
       PoolsUpdateStats
    DEF Pools!OptimizedJSONMarshal
  <2>2. CASE Pools!GetBuffer(c)
    <3>1. v7' = (v7 \/ \E d \in pools.Calls \ {c} : Pools!UnderWay(d))
      BY <2>2 DEF Pools!GetBuffer
    <3>2. v7 \/ Pools!Paired
      BY DEF Pools!PoolsInv
    <3>3. CASE \A d \in pools.Calls \ {c} : ~Pools!UnderWay(d)
      <4>1. Pools!Paired => Pools!Paired'
        BY <1>1, <2>2, <3>3, PairedGetBuffer
      <4> QED
        BY <2>1, <3>1, <3>2, <4>1 DEF Pools!PoolsInv, PoolsSafe
    <3>4. CASE \E d \in pools.Calls \ {c} : Pools!UnderWay(d)
      BY <2>1, <3>1, <3>4 DEF Pools!PoolsInv, PoolsSafe
    <3> QED
      BY <3>3, <3>4
  <2>3. CASE ~Pools!GetBuffer(c)
    <3>1. v7' = v7
      BY <1>3, <2>3 DEF Pools!OptimizedJSONMarshal, Pools!GetEncoder, Pools!Encode, Pools!EncodeFails,
                        Pools!CopyResult, Pools!PutEncoder, Pools!PutBuffer, Pools!UpdateStats
    <3>0. Pools!UpdateStats(c) /\ Pools!Paired => Pools!Paired'
      BY DEF Pools!UpdateStats, Pools!Paired, Pools!UnderWay, Pools!Answered
    <3>2. Pools!Paired => Pools!Paired'
      BY <1>1, <1>3, <2>3, <3>0, PairedGetEncoder, PairedWork, PairedPutEncoder, PairedPutBuffer
      DEF Pools!OptimizedJSONMarshal
    <3>3. v7 \/ Pools!Paired
      BY DEF Pools!PoolsInv
    <3> QED
      BY <2>1, <3>1, <3>2, <3>3 DEF Pools!PoolsInv, PoolsSafe
  <2> QED
    BY <2>2, <2>3
<1> QED
  BY <1>2, <1>3 DEF Pools!Next

\* The pools start with nothing in use.
LEMMA PoolsInit == Pools!Init => Pools!PoolsInv
<1> SUFFICES ASSUME Pools!Init PROVE Pools!PoolsInv
  OBVIOUS
<1>1. /\ v1 = <<>> /\ v2 = <<>> /\ v3 = [b \in PoolBuffers |-> <<>>]
      /\ v4 = [c \in pools.Calls |-> [pc |-> "start", buffer |-> 0, encoder |-> 0, result |-> <<>>, err |-> FALSE]]
      /\ v5 = [c \in pools.Calls |-> [pool |-> "buffer", deed |-> "nothing"]]
      /\ v6 = [p \in {"buffer", "encoder"} |-> [TotalReturned |-> 0, TotalAllocated |-> 0]]
      /\ v7 = FALSE
  BY PoolsConstants DEF Pools!Init
<1>2. Pools!TypeOK
  <2>1. Len(v1) = 0 /\ Len(v2) = 0 /\ v1 \in Seq(PoolBuffers) /\ v2 \in Seq(PoolBuffers)
    BY <1>1
  <2>2. <<>> \in Seq(pools.Calls)
    OBVIOUS
  <2>3. v3 \in [PoolBuffers -> Seq(pools.Calls)] /\ v4 \in [pools.Calls -> PoolCall]
        /\ v5 \in PoolOwes /\ v6 \in PoolStats
    BY <1>1, <2>2 DEF PoolCall, PoolStats, PoolOwes, PoolDeeds
  <2>4. v7 \in BOOLEAN
    BY <1>1
  <2>5. 0 <= pools.MaxBuffers /\ 0 <= pools.MaxEncoders
    BY PoolsConstants
  <2> QED
    BY <2>1, <2>3, <2>4, <2>5, PoolsTyped
<1>3. Pools!BuffersExclusive
  <2>1. Exclusive(v1, v4)
    BY <1>1 DEF Exclusive
  <2>2. v1 \in Seq(PoolBuffers)
    BY <1>1
  <2> QED
    BY <2>1, <2>2, ExclusiveIs
<1>4. Pools!AllocatedAccountedFor
  <2>1. /\ \A p \in {"buffer", "encoder"} : Holders(v4, p) = {}
        /\ \A p \in {"buffer", "encoder"} :
             Owe(v5, p, "allocated") = {} /\ Owe(v5, p, "discarded") = {}
    BY <1>1 DEF Holders, Owe
  <2>2. Cardinality({}) = 0
    BY FS_EmptySet
  <2>3. v6["buffer"].TotalAllocated = 0 /\ v6["encoder"].TotalAllocated = 0
        /\ Len(v1) = 0 /\ Len(v2) = 0
    BY <1>1
  <2>4. Bal(v5, v6, "buffer") = 0 /\ Bal(v5, v6, "encoder") = 0
    <3>1. ASSUME NEW p \in {"buffer", "encoder"}
          PROVE  /\ Cardinality(Owe(v5, p, "allocated")) = 0
                 /\ Cardinality(Owe(v5, p, "discarded")) = 0
                 /\ v6[p].TotalAllocated = 0
      <4>1. Owe(v5, p, "allocated") = {} /\ Owe(v5, p, "discarded") = {}
        BY <2>1
      <4>2. v6[p].TotalAllocated = 0
        BY <1>1
      <4> QED
        BY <4>1, <4>2, <2>2
    <3> QED
      BY <3>1 DEF Bal
  <2>5. Cardinality(Holders(v4, "buffer")) = 0 /\ Cardinality(Holders(v4, "encoder")) = 0
    BY <2>1, <2>2
  <2> QED
    BY <1>2, <2>3, <2>4, <2>5, AccountsAre
<1>5. Pools!HeldByPlace
  BY <1>1 DEF Pools!HeldByPlace, Pools!UnderWay, Pools!None
<1>6. Pools!Paired
  BY <1>1 DEF Pools!Paired, Pools!UnderWay, Pools!Answered
<1> QED
  BY <1>2, <1>3, <1>4, <1>5, <1>6 DEF Pools!PoolsInv, Pools!PoolsConsistent

\* So it holds of every behaviour that exercises the pools.
LEMMA PoolsInvariant == Spec => [](part = "pools" => Pools!PoolsInv)
<1> DEFINE Inv == part = "pools" => Pools!PoolsInv
<1>1. Init => Inv
  BY PoolsInit DEF Init
<1>2. Inv /\ [Next]_vars => Inv'
  BY PoolsNext DEF Next, vars, Pools!vars
<1> QED
  BY <1>1, <1>2, PTL DEF Spec

\* No buffer is ever in two hands, however many calls marshal at a time, and
\* but for what has been done and not counted yet the objects allocated are
\* those that calls hold or that lie in their pool.
THEOREM PoolsStayConsistent == Spec => []PoolsConsistent
<1>1. (part = "pools" => Pools!PoolsInv) => PoolsConsistent
  BY DEF PoolsConsistent, Pools!PoolsInv
<1> QED
  BY <1>1, PoolsInvariant, PTL

\* As long as calls of OptimizedJSONMarshal have never overlapped, every answer
\* is the document it was made from: an encoder then always writes to the very
\* buffer its call holds.
THEOREM AnswersIntactUnlessOverlapped == Spec => []IntactUnlessOverlapped
<1>1. (part = "pools" => Pools!PoolsInv) => IntactUnlessOverlapped
  BY DEF IntactUnlessOverlapped, Pools!IntactUnlessOverlapped, Pools!PoolsInv, Pools!Paired
<1> QED
  BY <1>1, PoolsInvariant, PTL

----------------------------------------------------------------------------
(* The locks *)

\* The levels are numbers, and the mutexes that hold others have a higher one.
LEMMA Levels ==
  /\ \A m \in Level0 : m \in Locks!Mutexes /\ Level[m] = 0
  /\ \A m \in Level1 : m \in Locks!Mutexes /\ Level[m] = 1
  /\ \A m \in Level2 : m \in Locks!Mutexes /\ Level[m] = 2
  /\ \A m \in Level3 : m \in Locks!Mutexes /\ Level[m] = 3
  /\ \A m \in Level4 : m \in Locks!Mutexes /\ Level[m] = 4
<1>1. Locks!Mutexes = Level0 \cup Level1 \cup Level2 \cup Level3 \cup Level4
  BY DEF Locks!Mutexes, Level
<1>2. \A m \in Level1 : m \notin Level0
  BY DEF Level0, Level1
<1>3. \A m \in Level2 : m \notin Level0 /\ m \notin Level1
  BY DEF Level0, Level1, Level2
<1>4. \A m \in Level3 : m \notin Level0 /\ m \notin Level1 /\ m \notin Level2
  BY DEF Level0, Level1, Level2, Level3
<1>5. \A m \in Level4 : m \notin Level0 /\ m \notin Level1 /\ m \notin Level2 /\ m \notin Level3
  BY DEF Level0, Level1, Level2, Level3, Level4
<1> QED
  BY <1>1, <1>2, <1>3, <1>4, <1>5 DEF Level

\* A mutex of level n is taken around what takes mutexes below n only.
LEMMA SectionNests ==
  ASSUME NEW m \in Locks!Mutexes, NEW mode \in {"R", "W"}, NEW body, NEW l \in Nat,
         Locks!Nested(body, Level[m]), Level[m] < l
  PROVE  Locks!Nested(Section(m, mode, body), l)
BY ServicesAssumption, Locks!NestedSection DEF ServicesAssumption, Section

\* Operations that keep to the order, the suspects apart.
KeepsOrder(f) == \A o \in DOMAIN f \ Suspects : Locks!Nested(f[o], 5)

\* One mutex, taken and given back.
LEMMA OneNests ==
  ASSUME NEW m \in Locks!Mutexes, NEW l \in Nat, Level[m] < l
  PROVE  Locks!Nested(Write(m), l) /\ Locks!Nested(Read(m), l)
<1>1. \A k : Locks!Nested(<<>>, k)
  BY Locks!NothingNests
<1> QED
  BY <1>1, SectionNests DEF Write, Read

\* A mutex around others that are lower.
LEMMA AroundNests ==
  ASSUME NEW m \in Locks!Mutexes, NEW body, NEW l \in Nat,
         Locks!Nested(body, Level[m]), Level[m] < l
  PROVE  Locks!Nested(WriteAround(m, body), l) /\ Locks!Nested(ReadAround(m, body), l)
BY SectionNests DEF WriteAround, ReadAround

\* One method after the other.
LEMMA JoinNests ==
  ASSUME NEW p, NEW q, NEW l, Locks!Nested(p, l), Locks!Nested(q, l)
  PROVE  Locks!Nested(p \o q, l)
BY Locks!NestedJoin

\* The task manager nests the queue, the workers and the statistics in the tasks.
LEMMA TaskManagerInOrder == KeepsOrder(TaskManager)
<1>1. /\ "tm.queue" \in Locks!Mutexes /\ Level["tm.queue"] = 0
      /\ "tm.workers" \in Locks!Mutexes /\ Level["tm.workers"] = 0
      /\ "tm.stats" \in Locks!Mutexes /\ Level["tm.stats"] = 0
      /\ "tm.tasks" \in Locks!Mutexes /\ Level["tm.tasks"] = 1
  BY Levels DEF Level0, Level1
<1>2. Locks!Nested(TM_CreateTask, 5)
  BY <1>1, OneNests, AroundNests, JoinNests DEF TM_CreateTask
<1>3. Locks!Nested(TM_UpdateTaskState, 5)
  BY <1>1, OneNests, AroundNests, JoinNests DEF TM_UpdateTaskState
<1>4. Locks!Nested(TM_GetTask, 5)
  BY <1>1, OneNests, AroundNests, JoinNests DEF TM_GetTask
<1>5. Locks!Nested(TM_dispatch, 5)
  BY <1>1, OneNests, AroundNests, JoinNests DEF TM_dispatch
<1>6. Locks!Nested(TM_Stop, 5)
  BY <1>1, OneNests, AroundNests, JoinNests DEF TM_Stop
<1> QED
  BY <1>2, <1>3, <1>4, <1>5, <1>6 DEF KeepsOrder, TaskManager, Suspects

\* The job scheduler nests the statistics in the jobs.
LEMMA JobSchedulerInOrder == KeepsOrder(JobScheduler)
<1>1. /\ "js.stats" \in Locks!Mutexes /\ Level["js.stats"] = 0
      /\ "js.jobs" \in Locks!Mutexes /\ Level["js.jobs"] = 1
  BY Levels DEF Level0, Level1
<1>2. Locks!Nested(JS_executeJob, 5)
  BY <1>1, OneNests, AroundNests, JoinNests DEF JS_executeJob
<1>3. Locks!Nested(JS_checkAndRunJobs, 5)
  BY <1>1, OneNests, AroundNests, JoinNests DEF JS_checkAndRunJobs
<1> QED
  BY <1>2, <1>3 DEF KeepsOrder, JobScheduler, Suspects

\* The health checker nests the statistics in the checks.
LEMMA HealthCheckerInOrder == KeepsOrder(HealthChecker)
<1>1. /\ "hc.stats" \in Locks!Mutexes /\ Level["hc.stats"] = 0
      /\ "hc.checks" \in Locks!Mutexes /\ Level["hc.checks"] = 1
  BY Levels DEF Level0, Level1
<1>2. Locks!Nested(HC_updateCheckStatus, 5)
  BY <1>1, OneNests, AroundNests, JoinNests DEF HC_updateCheckStatus
<1>3. Locks!Nested(HC_GetOverallStatus, 5)
  BY <1>1, OneNests, AroundNests, JoinNests DEF HC_GetOverallStatus
<1>4. Locks!Nested(HC_Reset, 5)
  BY <1>1, OneNests, AroundNests, JoinNests DEF HC_Reset
<1> QED
  BY <1>2, <1>3, <1>4 DEF KeepsOrder, HealthChecker, Suspects

\* The cache nests a lower tier in a higher one, and the statistics in both.
LEMMA CacheOptimizerInOrder == KeepsOrder(CacheOptimizer)
<1>1. /\ "ac.stats" \in Locks!Mutexes /\ Level["ac.stats"] = 0
      /\ "ro.stats" \in Locks!Mutexes /\ Level["ro.stats"] = 0
      /\ "ac.l3" \in Locks!Mutexes /\ Level["ac.l3"] = 1
      /\ "ro.buffer" \in Locks!Mutexes /\ Level["ro.buffer"] = 1
      /\ "ac.l2" \in Locks!Mutexes /\ Level["ac.l2"] = 2
      /\ "ac.l1" \in Locks!Mutexes /\ Level["ac.l1"] = 3
      /\ "rco.stats" \in Locks!Mutexes /\ Level["rco.stats"] = 4
  BY Levels DEF Level0, Level1, Level2, Level3, Level4
<1>2. Locks!Nested(AC_GetL2, 5)
  BY <1>1, OneNests, AroundNests, JoinNests DEF AC_GetL2, AC_Missed, AC_promoteToL1, AC_Evict
<1>3. Locks!Nested(RCO_Get, 5)
  BY <1>1, OneNests, AroundNests, JoinNests DEF RCO_Get, AC_GetL3, AC_Missed, AC_promoteToL2, AC_Evict
<1>4. Locks!Nested(AC_Set("ac.l1"), 5)
  BY <1>1, OneNests, AroundNests, JoinNests DEF AC_Set, AC_Evict
<1>5. Locks!Nested(AC_Set("ac.l3"), 5)
  BY <1>1, OneNests, AroundNests, JoinNests DEF AC_Set, AC_Evict
<1>6. Locks!Nested(AC_Sweep, 5)
  BY <1>1, OneNests, AroundNests, JoinNests DEF AC_Sweep
<1>7. Locks!Nested(RCO_OptimizeResponse, 5)
  BY <1>1, OneNests, AroundNests, JoinNests DEF RCO_OptimizeResponse, RO_OptimizeResponse
<1> QED
  BY <1>2, <1>3, <1>4, <1>5, <1>6, <1>7 DEF KeepsOrder, CacheOptimizer, Suspects

\* The managers nest what they manage in their own mutex.
LEMMA ManagersInOrder == KeepsOrder(Managers)
<1>1. /\ "cb.stats" \in Locks!Mutexes /\ Level["cb.stats"] = 0
      /\ "mm.pools" \in Locks!Mutexes /\ Level["mm.pools"] = 0
      /\ "cm.pool" \in Locks!Mutexes /\ Level["cm.pool"] = 0
      /\ "mgr.member" \in Locks!Mutexes /\ Level["mgr.member"] = 0
      /\ "cb.mutex" \in Locks!Mutexes /\ Level["cb.mutex"] = 1
      /\ "mm.stats" \in Locks!Mutexes /\ Level["mm.stats"] = 1
      /\ "cm.stats" \in Locks!Mutexes /\ Level["cm.stats"] = 1
      /\ "mgr.mutex" \in Locks!Mutexes /\ Level["mgr.mutex"] = 1
      /\ "cbm.mutex" \in Locks!Mutexes /\ Level["cbm.mutex"] = 2
  BY Levels DEF Level0, Level1, Level2
<1>2. Locks!Nested(MM_updateStats, 5)
  BY <1>1, OneNests, AroundNests, JoinNests DEF MM_updateStats
<1>3. Locks!Nested(MM_GetStats, 5)
  BY <1>1, OneNests, AroundNests, JoinNests DEF MM_GetStats
<1>4. Locks!Nested(MM_poolUpdate, 5)
  BY <1>1, OneNests, AroundNests, JoinNests DEF MM_poolUpdate
<1>5. Locks!Nested(CM_updateStats, 5)
  BY <1>1, OneNests, AroundNests, JoinNests DEF CM_updateStats
<1>6. Locks!Nested(CM_GetStats, 5)
  BY <1>1, OneNests, AroundNests, JoinNests DEF CM_GetStats
<1>7. Locks!Nested(CM_poolUpdate, 5)
  BY <1>1, OneNests, AroundNests, JoinNests DEF CM_poolUpdate
<1>8. Locks!Nested(CBM_GetStats, 5)
  BY <1>1, OneNests, AroundNests, JoinNests DEF CBM_GetStats, CB_GetStats
<1>9. Locks!Nested(CBM_Stop, 5)
  BY <1>1, OneNests, AroundNests, JoinNests DEF CBM_Stop, CB_ForceClose
<1>10. Locks!Nested(CB_executeClosed, 5)
  BY <1>1, OneNests, AroundNests, JoinNests DEF CB_executeClosed
<1>11. Locks!Nested(CB_executeHalfOpen, 5)
  BY <1>1, OneNests, AroundNests, JoinNests DEF CB_executeHalfOpen
<1>12. Locks!Nested(CB_Reset, 5)
  BY <1>1, OneNests, AroundNests, JoinNests DEF CB_Reset
<1>13. Locks!Nested(Mgr_GetStats, 5)
  BY <1>1, OneNests, AroundNests, JoinNests DEF Mgr_GetStats
<1>14. Locks!Nested(Mgr_ResetAll, 5)
  BY <1>1, OneNests, AroundNests, JoinNests DEF Mgr_ResetAll
<1>15. Locks!Nested(Mgr_memberUpdate, 5)
  BY <1>1, OneNests, AroundNests, JoinNests DEF Mgr_memberUpdate
<1>16. Locks!Nested(CB_ForceClose, 5)
  BY <1>1, OneNests, AroundNests, JoinNests DEF CB_ForceClose
<1> QED
  BY <1>16, <1>2, <1>3, <1>4, <1>5, <1>6, <1>7, <1>8, <1>9, <1>10, <1>11, <1>12, <1>13, <1>14, <1>15 DEF KeepsOrder, Managers, Suspects

\* So all methods but the suspects do.
LEMMA MethodsNest == Locks!NestsInOrder
<1>1. Locks!Ops = UNION {DOMAIN TaskManager, DOMAIN JobScheduler, DOMAIN HealthChecker,
                        DOMAIN CacheOptimizer, DOMAIN Managers}
  BY DEF Locks!Ops, Methods
<1>2. \A f : KeepsOrder(f) => \A o \in DOMAIN f \ Suspects : Locks!Disciplined(f[o])
  BY DEF KeepsOrder, Locks!Nested
<1>3. ASSUME NEW o \in Locks!Ops \ Suspects PROVE Locks!Disciplined(Methods[o])
  <2>1. \E f \in {TaskManager, JobScheduler, HealthChecker, CacheOptimizer, Managers} :
          o \in DOMAIN f /\ Methods[o] = f[o]
    BY <1>1, <1>3 DEF Methods
  <2> QED
    BY <1>2, <1>3, <2>1, TaskManagerInOrder, JobSchedulerInOrder, HealthCheckerInOrder,
       CacheOptimizerInOrder, ManagersInOrder
<1> QED
  BY <1>3 DEF Locks!NestsInOrder

\* However many goroutines run the services' methods at a time, a deadlock
\* has one of the suspects in it: the others nest their mutexes in the order
\* of Level, so they never wait for each other in a circle.
THEOREM DeadlocksHaveSuspects == Spec => []DeadlockNeedsSuspect
<1> DEFINE Inv == part = "locks" => Locks!TypeOK
<1>1. Locks!LockAssumption /\ Locks!NestsInOrder
  BY ServicesAssumption, MethodsNest DEF ServicesAssumption
<1>2. Init => Inv
  BY <1>1, Locks!TypeInit DEF Init
<1>3. Inv /\ [Next]_vars => Inv'
  <2> SUFFICES ASSUME Inv, [Next]_vars, part' = "locks" PROVE Locks!TypeOK'
    OBVIOUS
  <2>1. part = "locks" /\ Locks!TypeOK
    BY DEF Next, vars
  <2>2. Locks!Next \/ UNCHANGED Locks!vars
    BY <2>1 DEF Next, vars, Locks!vars
  <2> QED
    BY <1>1, <2>1, <2>2, Locks!TypeStep
<1>4. Inv => DeadlockNeedsSuspect
  BY <1>1, Locks!SuspectIn DEF DeadlockNeedsSuspect
<1> QED
  BY <1>2, <1>3, <1>4, PTL DEF Spec
=============================================================================
