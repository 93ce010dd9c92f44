--------------------------- MODULE AdvancedCache ---------------------------
(***************************************************************************)
(* The three-tier cache (advanced_cache.go).  A lookup goes through the     *)
(* tiers one mutex at a time and may carry what it found one tier up; a     *)
(* sweep (invalidation, cleanup, Stop) also takes the tiers one by one.     *)
(* Entries are objects: a promoted entry is the same object in its new tier *)
(* and its access count is shared.  A critical section is one step; so is   *)
(* promotion, which holds the upper tier's mutex until the lower tier's     *)
(* entry is gone.  The order of the mutexes is the subject of LockOrder.    *)
(***************************************************************************)
EXTENDS Naturals, FiniteSets

CONSTANTS
  Keys,        \* what responses are stored under
  Objects,     \* the entries Set may create, as 1..n
  Getters,     \* the concurrent lookups
  Home,        \* Home[k]: the tier of the policy k is stored with
  MaxEntries,  \* MaxEntries[t]: the capacity of tier t
  Promote,     \* Promote[t]: accesses beyond which tier t gives an entry up
  TTL,         \* the policy's time to live, in ticks
  MaxCount,    \* bound: accesses beyond this one are not told apart
  MaxTime      \* bound: ticks of the clock

Tiers == 1..3

TiersAssumption ==
  /\ IsFiniteSet(Keys) /\ Objects \subseteq Nat \ {0} /\ Home \in [Keys -> Tiers]
  /\ MaxEntries \in [Tiers -> Nat \ {0}] /\ Promote \in [Tiers \ {1} -> Nat]
  /\ MaxCount \in Nat /\ \A t \in Tiers \ {1} : MaxCount > Promote[t]
  /\ TTL \in Nat /\ MaxTime \in Nat

VARIABLES
  tier,      \* tier[t]: the map of tier t, from the keys stored there
  object,    \* object[o]: the entries created so far
  now,       \* the clock, in ticks
  getter,    \* getter[g]: where a lookup is
  sweep,     \* the sweep under way
  doomed,    \* history: the objects an invalidation set out to remove
  carried    \* history: the objects promoted since it began

vars == <<tier, object, now, getter, sweep, doomed, carried>>

Entry == [expiresAt : Nat, accessCount : Nat, lastAccess : Nat]
Lookup == [pc : {"idle", "look", "promote"}, key : Keys, tier : Tiers, found : Objects \cup {0}]
Sweep == [kind : {"none", "invalidate", "clean", "stop"}, tier : Tiers, keys : SUBSET Keys, at : Nat]

None == [kind |-> "none", tier |-> 1, keys |-> {}, at |-> 0]

----------------------------------------------------------------------------
\* isExpired
Expired(o, at) == at > object[o].expiresAt

Without(t, S) == [k \in DOMAIN tier[t] \ S |-> tier[t][k]]
With(f, x, y) == [z \in DOMAIN f \cup {x} |-> IF z = x THEN y ELSE f[z]]

\* The keys evictFromLx may choose between.
Least(t) ==
  {k \in DOMAIN tier[t] : \A j \in DOMAIN tier[t] :
     object[tier[t][k]].lastAccess <= object[tier[t][j]].lastAccess}
\* What a store into tier t evicts first: a full tier gives up an entry even
\* when it has the key already.
Victims(t) == IF Cardinality(DOMAIN tier[t]) >= MaxEntries[t]
              THEN {{k} : k \in Least(t)} ELSE {{}}

\* updateAccessStats runs outside every mutex: a concurrent increment may
\* swallow this one.
Accessed(o, counted) ==
  [object EXCEPT ![o].accessCount = IF @ = MaxCount THEN @ ELSE @ + counted,
                 ![o].lastAccess = now]

----------------------------------------------------------------------------
Init ==
  /\ tier = [t \in Tiers |-> <<>>] /\ object = <<>> /\ now = 0
  /\ getter \in [Getters -> {[pc |-> "idle", key |-> k, tier |-> 1, found |-> 0] : k \in Keys}]
  /\ sweep = None /\ doomed = {} /\ carried = {}

\* Set, with storeInL1, storeInL2 or storeInL3.
Set(k) ==
  /\ \E o \in Objects \ DOMAIN object, gone \in Victims(Home[k]) :
       /\ \A p \in Objects \ DOMAIN object : o <= p
       /\ tier' = [tier EXCEPT ![Home[k]] = With(Without(Home[k], gone), k, o)]
       /\ object' = With(object, o, [expiresAt |-> now + TTL, accessCount |-> 1, lastAccess |-> now])
  /\ UNCHANGED <<now, getter, sweep, doomed, carried>>

Begin(g) ==
  /\ getter[g].pc = "idle"
  /\ getter' = [getter EXCEPT ![g].pc = "look", ![g].tier = 1]
  /\ UNCHANGED <<tier, object, now, sweep, doomed, carried>>

\* Get finds the key in the tier it looks at.
Hit(g) ==
  LET t == getter[g].tier  k == getter[g].key IN
  /\ getter[g].pc = "look"
  /\ k \in DOMAIN tier[t] /\ ~Expired(tier[t][k], now)
  /\ \E counted \in {0, 1} : object' = Accessed(tier[t][k], counted)
  /\ LET rises == t # 1 /\ object'[tier[t][k]].accessCount > Promote[t]
     IN getter' = [getter EXCEPT ![g].pc = IF rises THEN "promote" ELSE "idle",
                                 ![g].found = IF rises THEN tier[t][k] ELSE 0]
  /\ UNCHANGED <<tier, now, sweep, doomed, carried>>

\* Get does not, and goes on to the next tier.  An expired entry stays.
Miss(g) ==
  LET t == getter[g].tier  k == getter[g].key IN
  /\ getter[g].pc = "look"
  /\ k \in DOMAIN tier[t] => Expired(tier[t][k], now)
  /\ getter' = [getter EXCEPT ![g].pc = IF t = 3 THEN "idle" ELSE "look",
                              ![g].tier = IF t = 3 THEN t ELSE t + 1]
  /\ UNCHANGED <<tier, object, now, sweep, doomed, carried>>

\* promoteToL1 and promoteToL2: what was found, whatever has become of it,
\* goes one tier up, and whatever the lower tier has under the key by now is
\* deleted.
Rise(g) ==
  LET t == getter[g].tier  k == getter[g].key IN
  /\ getter[g].pc = "promote"
  /\ \E gone \in Victims(t - 1) :
       tier' = [tier EXCEPT ![t - 1] = With(Without(t - 1, gone), k, getter[g].found),
                            ![t] = Without(t, {k})]
  /\ carried' = carried \cup {getter[g].found}
  /\ getter' = [getter EXCEPT ![g].pc = "idle", ![g].found = 0]
  /\ UNCHANGED <<object, now, sweep, doomed>>

\* Invalidate is called with tags or patterns that cover the keys S ...
Invalidate(S) ==
  /\ sweep.kind = "none"
  /\ sweep' = [kind |-> "invalidate", tier |-> 1, keys |-> S, at |-> now]
  /\ doomed' = UNION {{tier[t][k] : k \in S \cap DOMAIN tier[t]} : t \in Tiers}
  /\ carried' = {}
  /\ UNCHANGED <<tier, object, now, getter>>

\* ... cleanupExpired by its ticker, which reads the clock once ...
CleanupExpired ==
  /\ sweep.kind = "none"
  /\ sweep' = [kind |-> "clean", tier |-> 1, keys |-> {}, at |-> now]
  /\ UNCHANGED <<tier, object, now, getter, doomed, carried>>

\* ... and Stop by Shutdown.
Stop ==
  /\ sweep.kind = "none"
  /\ sweep' = [kind |-> "stop", tier |-> 1, keys |-> {}, at |-> now]
  /\ UNCHANGED <<tier, object, now, getter, doomed, carried>>

\* What the sweep under way deletes from tier t.
Swept(t) ==
  {k \in DOMAIN tier[t] : \/ sweep.kind = "invalidate" /\ k \in sweep.keys
                          \/ sweep.kind = "clean" /\ Expired(tier[t][k], sweep.at)
                          \/ sweep.kind = "stop"}

\* Mutant of SweepTier: the third tier is forgotten.
SweepTier_UpperOnly ==
  /\ sweep.kind # "none"
  /\ tier' = [tier EXCEPT ![sweep.tier] = Without(sweep.tier, Swept(sweep.tier))]
  /\ sweep' = IF sweep.tier = 2 THEN None ELSE [sweep EXCEPT !.tier = @ + 1]
  /\ UNCHANGED <<object, now, getter, doomed, carried>>

\* Each of the three takes the tiers one after the other.
SweepTier ==
  /\ sweep.kind # "none"
  /\ tier' = [tier EXCEPT ![sweep.tier] = Without(sweep.tier, Swept(sweep.tier))]
  /\ sweep' = IF sweep.tier = 3 THEN None ELSE [sweep EXCEPT !.tier = @ + 1]
  /\ UNCHANGED <<object, now, getter, doomed, carried>>

Tick ==
  /\ now < MaxTime
  /\ now' = now + 1
  /\ UNCHANGED <<tier, object, getter, sweep, doomed, carried>>

Next ==
  \/ \E k \in Keys : Set(k)
  \/ \E g \in Getters : Begin(g) \/ Hit(g) \/ Miss(g) \/ Rise(g)
  \/ \E S \in SUBSET Keys \ {{}} : Invalidate(S)
  \/ CleanupExpired \/ Stop \/ SweepTier \/ Tick

Spec == Init /\ [][Next]_vars

----------------------------------------------------------------------------
\* Every variable keeps its type (AdvancedCache and AdvancedCacheEntry).
TypeOK ==
  /\ \A t \in Tiers : /\ DOMAIN tier[t] \subseteq Keys
                      /\ Cardinality(DOMAIN tier[t]) <= MaxEntries[t]
                      /\ \A k \in DOMAIN tier[t] : tier[t][k] \in DOMAIN object
  /\ DOMAIN object \subseteq Objects /\ \A o \in DOMAIN object : object[o] \in Entry
  /\ now \in 0..MaxTime /\ getter \in [Getters -> Lookup] /\ sweep \in Sweep
  /\ doomed \subseteq Objects /\ carried \subseteq Objects

\* Once an invalidation has gone through the tiers, what it set out to remove
\* is gone, except where a lookup has carried it past the sweep (Invalidate,
\* promoteToL1, promoteToL2).
OnlyCarriedSurvive ==
  sweep.kind # "invalidate" =>
    \A t \in Tiers : \A k \in DOMAIN tier[t] : tier[t][k] \in doomed => tier[t][k] \in carried

\* Why: an object is found under one key only, in a tier or by a lookup that
\* carries it; and what is doomed and still there was carried, or is found
\* under a key of the sweep, in a tier that the sweep has still to come to.
Under(o, k) ==
  \/ \E t \in Tiers : k \in DOMAIN tier[t] /\ tier[t][k] = o
  \/ \E g \in Getters : getter[g].pc = "promote" /\ getter[g].found = o /\ getter[g].key = k
OneKey == \A o \in Objects, k \in Keys, j \in Keys : Under(o, k) /\ Under(o, j) => k = j
UnderKnown == doomed \subseteq DOMAIN object /\ \A o \in Objects \cup {0}, k \in Keys : Under(o, k) => o \in DOMAIN object
StillToSweep ==
  \A t \in Tiers : \A k \in DOMAIN tier[t] :
    \/ tier[t][k] \notin doomed \/ tier[t][k] \in carried
    \/ sweep.kind = "invalidate" /\ t >= sweep.tier /\ k \in sweep.keys
TiersInv ==
  /\ TypeOK /\ DOMAIN tier = Tiers /\ OneKey /\ UnderKnown /\ StillToSweep
  /\ \A g \in Getters : getter[g].pc = "promote" => getter[g].tier # 1

\* Invalidate leaves nothing of what it was asked to remove.
InvalidationSticks ==
  sweep.kind # "invalidate" =>
    \A t \in Tiers : \A k \in DOMAIN tier[t] : tier[t][k] \notin doomed
=============================================================================
