--------------------------- MODULE ResponseCache ---------------------------
(***************************************************************************)
(* The response cache in front of every GET handler (cache.go) and the     *)
(* middleware that fills it.  A request is answered from the cache, or by   *)
(* its handler, whose answer is then stored.  A resource changes when its    *)
(* handler, a worker that goes on after the handler has answered, or the    *)
(* cluster changes it; the handler of a write asks the cache to forget the  *)
(* resource when it has answered.  Everything between two uses of the       *)
(* cache's mutex is one step.                                               *)
(* Paths are sequences of segments after "/redfish".  What a handler        *)
(* answers is the version of the resource it reads.                         *)
(***************************************************************************)
EXTENDS Naturals, FiniteSets, Functions, SequencesExt

CONSTANTS
  Requests,     \* the GET requests, each made once
  Tags,         \* Tags[r]: the answers whose tag r's client may send along
  Paths,        \* the resources asked for
  Asks,         \* Asks[r]: those request r may ask for
  MaxEntries,   \* NewCache's maxEntries
  TTL,          \* the thirty seconds of getCacheTTL, in ticks
  MaxHandling,  \* how long a handler may take between its read and its end
  MaxVersion,   \* bound: changes of a resource
  MaxWrites,    \* bound: changes, of all resources together
  MaxTime       \* bound: ticks of the clock

CacheAssumption ==
  /\ IsFiniteSet(Paths) /\ MaxEntries \in Nat \ {0} /\ TTL \in Nat \ {0}
  /\ Tags \in [Requests -> SUBSET (0..MaxVersion)] /\ Asks \in [Requests -> SUBSET Paths]
  /\ MaxHandling \in Nat /\ MaxTime \in Nat /\ MaxVersion \in Nat /\ MaxWrites \in Nat

VARIABLES
  entries,   \* the map of cached responses, from the cached paths
  now,       \* the clock, in ticks
  version,   \* version[p]: what a handler asked for p reads now
  past,      \* history: past[p][t] is version[p] when the clock reached t
  request,   \* request[r]: where request r is, and what it was answered
  writing    \* the paths written to by a handler that is to invalidate them

vars == <<entries, now, version, past, request, writing>>

Versions == 0..MaxVersion
NoTag == MaxVersion + 1          \* a request without If-None-Match

Entry == [data : Versions, expiresAt : Nat, lastAccess : Nat]
Request == [pc : {"idle", "conditional", "lookup", "expired", "handle", "store", "done"},
            path : Paths, tag : Versions \cup {NoTag},
            then : {"lookup", "handle"}, data : Versions, at : Nat,
            from : {"nobody", "cache", "handler"}]

----------------------------------------------------------------------------
(* The cache's operations on its map, each run under the mutex.             *)

\* The key is the SHA-256 of method, path and user in hexadecimal: no
\* pattern made of a path occurs in one.
Matching(pattern) == {}

Without(S) == [p \in DOMAIN entries \ S |-> entries[p]]

\* evictOldest deletes an entry accessed longest ago; the map's order
\* decides between equals.
Oldest == {p \in DOMAIN entries :
             \A q \in DOMAIN entries : entries[p].lastAccess <= entries[q].lastAccess}

\* A full map gives up an entry even when it has the key already.
Evicted(S) == IF Cardinality(DOMAIN entries) >= MaxEntries
              THEN \E p \in Oldest : S = {p}
              ELSE S = {}

OfSystems(path) == IsPrefix(<<"v1", "Systems">>, path)
shouldSkipCache(path) == OfSystems(path) \/ IsPrefix(<<"v1", "TaskService", "Tasks">>, path)

\* The first case of getCacheTTL matches every path under /redfish/v1/.
getCacheTTL(path) == IF IsPrefix(<<"v1">>, path) THEN TTL ELSE 2 * TTL

Expired(p) == now > entries[p].expiresAt

----------------------------------------------------------------------------
Init ==
  /\ entries = <<>> /\ now = 0
  /\ version = [p \in Paths |-> 0]
  /\ past = [p \in Paths |-> [t \in 0..MaxTime |-> 0]]
  /\ \E asked \in [Requests -> Paths] :
       /\ \A r \in Requests : asked[r] \in Asks[r]
       /\ request = [r \in Requests |->
            [pc |-> "idle", path |-> asked[r], tag |-> NoTag,
             then |-> "lookup", data |-> 0, at |-> 0, from |-> "nobody"]]
  /\ writing = {}

Goes(r, pc) == request' = [request EXCEPT ![r].pc = pc]
Answered(r, pc, data, from) ==
  request' = [request EXCEPT ![r].pc = pc, ![r].data = data, ![r].at = now, ![r].from = from]

\* A GET arrives, with or without the tag of an answer its client kept.
Arrive(r) ==
  /\ request[r].pc = "idle"
  /\ \E tag \in Tags[r] \cup {NoTag} :
       request' = [request EXCEPT
         ![r].pc = IF shouldSkipCache(request[r].path) THEN "handle"
                   ELSE IF tag = NoTag THEN "lookup" ELSE "conditional",
         ![r].tag = tag]
  /\ UNCHANGED <<entries, now, version, past, writing>>

\* Mutant of GetHit: a hit starts the entry's time to live again.
GetHit_Renews(r) ==
  LET p == request[r].path IN
  /\ request[r].pc \in {"conditional", "lookup"}
  /\ p \in DOMAIN entries /\ ~Expired(p)
  /\ entries' = [entries EXCEPT ![p].lastAccess = now, ![p].expiresAt = now + getCacheTTL(p)]
  /\ Answered(r, "done", entries[p].data, "cache")
  /\ UNCHANGED <<now, version, past, writing>>

\* Get: the answer to a hit.  An entry whose tag is not the client's is
\* looked up again by the caller.
GetHit(r) ==
  LET p == request[r].path IN
  /\ request[r].pc \in {"conditional", "lookup"}
  /\ p \in DOMAIN entries /\ ~Expired(p)
  /\ entries' = [entries EXCEPT ![p].lastAccess = now]
  /\ IF request[r].pc = "conditional" /\ entries[p].data # request[r].tag
     THEN Goes(r, "lookup")
     ELSE Answered(r, "done", entries[p].data, "cache")
  /\ UNCHANGED <<now, version, past, writing>>

AfterMiss(r) == IF request[r].pc = "conditional" THEN "lookup" ELSE "handle"

\* Get: nothing is stored, or what is stored has expired, in which case the
\* read lock is given up before the entry is deleted.
GetMiss(r) ==
  LET p == request[r].path IN
  /\ request[r].pc \in {"conditional", "lookup"}
  /\ \/ p \notin DOMAIN entries /\ Goes(r, AfterMiss(r))
     \/ /\ p \in DOMAIN entries /\ Expired(p)
        /\ request' = [request EXCEPT ![r].pc = "expired", ![r].then = AfterMiss(r)]
  /\ UNCHANGED <<entries, now, version, past, writing>>

GetDeletes(r) ==
  /\ request[r].pc = "expired"
  /\ entries' = Without({request[r].path})
  /\ Goes(r, request[r].then)
  /\ UNCHANGED <<now, version, past, writing>>

\* The handler reads the resource; what it answers is cached unless the
\* path is skipped, in which case the middleware has stepped aside.
Handle(r) ==
  LET p == request[r].path IN
  /\ request[r].pc = "handle"
  /\ Answered(r, IF shouldSkipCache(p) THEN "done" ELSE "store", version[p], "handler")
  /\ UNCHANGED <<entries, now, version, past, writing>>

\* A handler that did not answer 200 leaves the cache alone.
Discard(r) ==
  /\ request[r].pc = "store"
  /\ Goes(r, "done")
  /\ UNCHANGED <<entries, now, version, past, writing>>

\* Set.  The oldest entry goes even when the key itself is stored already.
Set(r) ==
  LET p == request[r].path IN
  /\ request[r].pc = "store"
  /\ \E S \in SUBSET DOMAIN entries :
       /\ Evicted(S)
       /\ entries' = [q \in (DOMAIN entries \ S) \cup {p} |->
            IF q # p THEN entries[q]
            ELSE [data |-> request[r].data, expiresAt |-> now + getCacheTTL(p), lastAccess |-> now]]
  /\ Goes(r, "done")
  /\ UNCHANGED <<now, version, past, writing>>

\* A resource changes: by the handler of a POST or PATCH, by a worker after
\* that handler has answered, or in the cluster.
Change(p) ==
  /\ version[p] < MaxVersion /\ FoldFunction(+, 0, version) < MaxWrites
  /\ version' = [version EXCEPT ![p] = @ + 1]
  /\ UNCHANGED <<entries, now, past, request, writing>>

\* The handler of a write, all of which are about systems, has answered its
\* client; what it asked for may have been done or be left to a worker.
WriteAnswered(p) ==
  /\ OfSystems(p)
  /\ p \notin writing /\ writing' = writing \cup {p}
  /\ UNCHANGED <<entries, now, version, past, request>>

\* ... and then asks the cache to forget what it changes.
Invalidate(p) ==
  /\ p \in writing /\ writing' = writing \ {p}
  /\ entries' = Without(Matching(p))
  /\ UNCHANGED <<now, version, past, request>>

\* cleanupExpired, from the cache's ticker or from the cleanup job.
Cleanup ==
  /\ \E p \in DOMAIN entries : Expired(p)
  /\ entries' = Without({p \in DOMAIN entries : Expired(p)})
  /\ UNCHANGED <<now, version, past, request, writing>>

\* Shutdown's Stop; requests in flight go on and may store again.
Stop ==
  /\ entries # <<>>
  /\ entries' = <<>>
  /\ UNCHANGED <<now, version, past, request, writing>>

\* Time passes; a handler ends before it has taken MaxHandling.
Tick ==
  /\ now < MaxTime
  /\ \A r \in Requests : request[r].pc = "store" => now < request[r].at + MaxHandling
  /\ now' = now + 1
  /\ past' = [p \in Paths |-> [past[p] EXCEPT ![now + 1] = version[p]]]
  /\ UNCHANGED <<entries, version, request, writing>>

Get(r) == GetHit(r) \/ GetMiss(r) \/ GetDeletes(r)

Next ==
  \/ \E r \in Requests : Arrive(r) \/ Get(r) \/ Handle(r) \/ Discard(r) \/ Set(r)
  \/ \E p \in Paths : Change(p) \/ WriteAnswered(p) \/ Invalidate(p)
  \/ Cleanup \/ Stop \/ Tick

Spec == Init /\ [][Next]_vars

----------------------------------------------------------------------------
\* Every variable keeps its type (Cache and CacheEntry in cache.go).
TypeOK ==
  /\ Cardinality(DOMAIN entries) <= MaxEntries
  /\ DOMAIN entries \subseteq Paths /\ \A p \in DOMAIN entries : entries[p] \in Entry
  /\ now \in 0..MaxTime /\ version \in [Paths -> Versions]
  /\ past \in [Paths -> [0..MaxTime -> Versions]]
  /\ request \in [Requests -> Request] /\ writing \subseteq Paths

\* Whatever is stored late, kept alive by hits or never invalidated, nobody is
\* told a state that ended more than a handler's time plus the TTL ago.
StalenessBounded ==
  \A r \in Requests :
    LET p == request[r].path  old == getCacheTTL(p) + MaxHandling IN
    request[r].from = "cache" /\ request[r].at > old
      => request[r].data >= past[p][request[r].at - old]

\* Why: a handler's answer is as new as the moment it was read at, no longer
\* than MaxHandling ago while it is still to be stored; and an entry is as new
\* as everything that had happened MaxHandling before it was stored.
HistoryOnlyGrows ==
  \A p \in Paths : \A t \in 0..now :
    past[p][t] <= version[p] /\ \A u \in 0..t : past[p][u] <= past[p][t]
EntriesFresh ==
  \A p \in DOMAIN entries :
    /\ entries[p].expiresAt <= now + getCacheTTL(p)
    /\ \A t \in 0..now : t + MaxHandling + getCacheTTL(p) <= entries[p].expiresAt
                          => entries[p].data >= past[p][t]
AnswersFresh ==
  \A r \in Requests :
    /\ request[r].at <= now
    /\ request[r].pc = "store" => /\ now <= request[r].at + MaxHandling
                                  /\ request[r].data >= past[request[r].path][request[r].at]
CacheInv ==
  /\ TypeOK /\ HistoryOnlyGrows /\ EntriesFresh /\ AnswersFresh /\ StalenessBounded
=============================================================================
