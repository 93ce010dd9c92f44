----------------------------- MODULE JSONPools -----------------------------
(***************************************************************************)
(* The memory manager's pools of buffers and of JSON encoders               *)
(* (memory_pool.go) and the function that uses both for every optimised     *)
(* answer, OptimizedJSONMarshal.  A pool is a channel: first in, first out, *)
(* a full one discards what is put, an empty one makes do with a new        *)
(* object.  The statistics have a mutex of their own and follow what was    *)
(* done to the channel.  An encoder writes for good to the buffer it was    *)
(* created for.                                                             *)
(***************************************************************************)
EXTENDS Naturals, Integers, Sequences, FiniteSets, Functions, SequencesExt

CONSTANTS
  Calls,        \* the calls of OptimizedJSONMarshal
  MaxBuffers,   \* size of the buffer pool
  MaxEncoders   \* size of the encoder pool

PoolsAssumption ==
  IsFiniteSet(Calls) /\ MaxBuffers \in Nat \ {0} /\ MaxEncoders \in Nat \ {0}

VARIABLES
  buffers,   \* the channel of idle buffers
  encoders,  \* the channel of idle encoders; an encoder is known by its buffer
  content,   \* content[b]: what has been written to buffer b since its reset
  call,      \* call[c]: where call c is, what it holds, what it has made
  owes,      \* owes[c]: what call c has done to a pool and not counted yet
  stats,     \* stats[p]: the counters of pool p
  overlap    \* history: two calls have been under way at a time

vars == <<buffers, encoders, content, call, owes, stats, overlap>>

Pools == {"buffer", "encoder"}
None == 0
NumBuffers == Cardinality(Calls)      \* every call takes one
Buffers == 1..NumBuffers

PCs == {"start", "buffer", "encoder", "encoded", "copied", "failed", "putEncoder", "done"}
Call == [pc : PCs, buffer : Buffers \cup {None}, encoder : Buffers \cup {None},
         result : Seq(Calls), err : BOOLEAN]
Deeds == {"nothing", "taken", "allocated", "returned", "discarded"}

----------------------------------------------------------------------------
UnderWay(c) == call[c].pc \notin {"start", "done"}

\* c has done something to a pool and goes on to count it.
Ready(c) == owes[c].deed = "nothing"
Does(c, p, deed) == Ready(c) /\ owes' = [owes EXCEPT ![c] = [pool |-> p, deed |-> deed]]

\* updateStats of either pool, with the deltas its callers pass: an object
\* taken from the pool adds one to TotalReturned, one put back subtracts one.
Counts(p, poolDelta, allocatedDelta) ==
  stats' = [stats EXCEPT ![p] = [TotalReturned |-> @.TotalReturned + poolDelta,
                                 TotalAllocated |-> @.TotalAllocated + allocatedDelta]]

\* A buffer just allocated, when nothing refers to it any more, may as well be
\* one that was discarded before.
Unused == Buffers \ (Range(buffers) \cup Range(encoders)
                     \cup {call[c].buffer : c \in Calls} \cup {call[c].encoder : c \in Calls})

----------------------------------------------------------------------------
Init ==
  /\ buffers = <<>> /\ encoders = <<>> /\ content = [b \in Buffers |-> <<>>]
  /\ call = [c \in Calls |-> [pc |-> "start", buffer |-> None, encoder |-> None,
                              result |-> <<>>, err |-> FALSE]]
  /\ owes = [c \in Calls |-> [pool |-> "buffer", deed |-> "nothing"]]
  /\ stats = [p \in Pools |-> [TotalReturned |-> 0, TotalAllocated |-> 0]]
  /\ overlap = FALSE

UpdateStats(c) ==
  LET p == owes[c].pool  deed == owes[c].deed IN
  /\ \/ deed = "taken" /\ Counts(p, 1, 0)
     \/ deed = "allocated" /\ Counts(p, 0, 1)
     \/ deed = "returned" /\ Counts(p, -1, 0)
     \/ deed = "discarded" /\ Counts(p, 0, -1)
  /\ owes' = [owes EXCEPT ![c].deed = "nothing"]
  /\ UNCHANGED <<buffers, encoders, content, call, overlap>>

GetBuffer(c) ==
  /\ call[c].pc = "start"
  /\ \E b \in Buffers :
       /\ call' = [call EXCEPT ![c].pc = "buffer", ![c].buffer = b]
       /\ \/ /\ buffers # <<>> /\ b = Head(buffers)
             /\ buffers' = Tail(buffers) /\ Does(c, "buffer", "taken")
             /\ UNCHANGED content
          \/ /\ buffers = <<>> /\ b \in Unused
             /\ Does(c, "buffer", "allocated") /\ content' = [content EXCEPT ![b] = <<>>]
             /\ UNCHANGED buffers
  /\ overlap' = (overlap \/ \E d \in Calls \ {c} : UnderWay(d))
  /\ UNCHANGED <<encoders, stats>>

\* Get is given the buffer but uses it only for a new encoder.
GetEncoder(c) ==
  /\ call[c].pc = "buffer"
  /\ \E b \in Buffers :
       /\ call' = [call EXCEPT ![c].pc = "encoder", ![c].encoder = b]
       /\ \/ /\ encoders # <<>> /\ b = Head(encoders)
             /\ encoders' = Tail(encoders) /\ Does(c, "encoder", "taken")
          \/ /\ encoders = <<>> /\ b = call[c].buffer
             /\ Does(c, "encoder", "allocated") /\ UNCHANGED encoders
  /\ UNCHANGED <<buffers, content, stats, overlap>>

\* Encode makes the whole document first and hands it to the writer at once.
Encode(c) ==
  /\ call[c].pc = "encoder" /\ Ready(c)
  /\ content' = [content EXCEPT ![call[c].encoder] = Append(@, c)]
  /\ call' = [call EXCEPT ![c].pc = "encoded"]
  /\ UNCHANGED <<buffers, encoders, owes, stats, overlap>>

\* Data that has no JSON: nothing is written, and the error is returned.
EncodeFails(c) ==
  /\ call[c].pc = "encoder" /\ Ready(c)
  /\ call' = [call EXCEPT ![c].pc = "failed", ![c].err = TRUE]
  /\ UNCHANGED <<buffers, encoders, content, owes, stats, overlap>>

CopyResult(c) ==
  /\ call[c].pc = "encoded"
  /\ call' = [call EXCEPT ![c].pc = "copied", ![c].result = content[call[c].buffer]]
  /\ UNCHANGED <<buffers, encoders, content, owes, stats, overlap>>

\* The deferred calls run last in, first out: the encoder goes back first.
PutEncoder(c) ==
  /\ call[c].pc \in {"copied", "failed"}
  /\ IF Len(encoders) < MaxEncoders
     THEN encoders' = Append(encoders, call[c].encoder) /\ Does(c, "encoder", "returned")
     ELSE Does(c, "encoder", "discarded") /\ UNCHANGED encoders
  /\ call' = [call EXCEPT ![c].pc = "putEncoder", ![c].encoder = None]
  /\ UNCHANGED <<buffers, content, stats, overlap>>

\* Mutant of PutBuffer: the buffer is not reset.
PutBuffer_Unreset(c) ==
  LET b == call[c].buffer IN
  /\ call[c].pc = "putEncoder"
  /\ IF Len(buffers) < MaxBuffers
     THEN buffers' = Append(buffers, b) /\ Does(c, "buffer", "returned")
     ELSE Does(c, "buffer", "discarded") /\ UNCHANGED buffers
  /\ call' = [call EXCEPT ![c].pc = "done", ![c].buffer = None]
  /\ UNCHANGED <<encoders, content, stats, overlap>>

\* Mutant of PutBuffer: a full pool's oldest buffer makes room.
PutBuffer_Displaces(c) ==
  LET b == call[c].buffer IN
  /\ call[c].pc = "putEncoder"
  /\ content' = [content EXCEPT ![b] = <<>>]
  /\ buffers' = Append(IF Len(buffers) < MaxBuffers THEN buffers ELSE Tail(buffers), b)
  /\ Does(c, "buffer", "returned")
  /\ call' = [call EXCEPT ![c].pc = "done", ![c].buffer = None]
  /\ UNCHANGED <<encoders, stats, overlap>>

PutBuffer(c) ==
  LET b == call[c].buffer IN
  /\ call[c].pc = "putEncoder"
  /\ content' = [content EXCEPT ![b] = <<>>]
  /\ IF Len(buffers) < MaxBuffers
     THEN buffers' = Append(buffers, b) /\ Does(c, "buffer", "returned")
     ELSE Does(c, "buffer", "discarded") /\ UNCHANGED buffers
  /\ call' = [call EXCEPT ![c].pc = "done", ![c].buffer = None]
  /\ UNCHANGED <<encoders, stats, overlap>>

OptimizedJSONMarshal(c) ==
  \/ GetBuffer(c) \/ GetEncoder(c) \/ Encode(c) \/ EncodeFails(c) \/ CopyResult(c)
  \/ PutEncoder(c) \/ PutBuffer(c) \/ UpdateStats(c)

Next == \E c \in Calls : OptimizedJSONMarshal(c)

Spec == Init /\ [][Next]_vars

----------------------------------------------------------------------------
\* Every variable keeps its type (BufferPool, JSONEncoderPool, PoolStats).
TypeOK ==
  /\ buffers \in Seq(Buffers) /\ Len(buffers) <= MaxBuffers
  /\ encoders \in Seq(Buffers) /\ Len(encoders) <= MaxEncoders
  /\ content \in [Buffers -> Seq(Calls)] /\ call \in [Calls -> Call]
  /\ owes \in [Calls -> [pool : Pools, deed : Deeds]]
  /\ stats \in [Pools -> [TotalReturned : Int, TotalAllocated : Int]] /\ overlap \in BOOLEAN

Held(p) == Cardinality({c \in Calls : call[c][p] # None})
Owing(p, deed) == Cardinality({c \in Calls : owes[c] = [pool |-> p, deed |-> deed]})

\* No buffer is in two hands: two calls never hold the same one, and none that
\* a call holds is idle in the pool (BufferPool.Get, BufferPool.Put).
BuffersExclusive ==
  /\ \A c, d \in Calls : c # d /\ call[c].buffer = call[d].buffer => call[c].buffer = None
  /\ \A c \in Calls : call[c].buffer \notin Range(buffers)
  /\ IsInjective(buffers)

\* No object is lost: but for what has been done and not counted yet, those
\* allocated and not discarded are held by calls or idle in their pool.
AllocatedAccountedFor ==
  \A p \in Pools :
    stats[p].TotalAllocated + Owing(p, "allocated") =
      Held(p) + Len(IF p = "buffer" THEN buffers ELSE encoders) + Owing(p, "discarded")

\* Where the buffers and encoders are and how many are allocated agree.
PoolsConsistent == BuffersExclusive /\ AllocatedAccountedFor

Answered(c) == call[c].pc \in {"copied", "putEncoder", "done"} /\ ~call[c].err

\* An answer is the document it was made from and nothing else, as long as no
\* two calls have ever overlapped: buffers and encoders then stay paired.
IntactUnlessOverlapped == \A c \in Calls : Answered(c) => call[c].result = <<c>> \/ overlap

\* Why: where a call is tells what it holds ...
HeldByPlace ==
  \A c \in Calls :
    /\ call[c].buffer # None <=> UnderWay(c)
    /\ call[c].encoder # None <=> call[c].pc \in {"encoder", "encoded", "copied", "failed"}
    /\ call[c].pc = "failed" => call[c].err

\* ... and as long as calls take turns there is but one buffer, which its
\* encoder follows through the pools and the calls.
Paired ==
  /\ \A c, d \in Calls : UnderWay(c) /\ UnderWay(d) => c = d
  /\ (\A c \in Calls : ~UnderWay(c)) =>
       /\ buffers = encoders /\ Len(buffers) <= 1
       /\ \A i \in 1..Len(buffers) : content[buffers[i]] = <<>>
  /\ \A c \in Calls :
       LET b == call[c].buffer IN
       /\ UnderWay(c) => buffers = <<>>
       /\ call[c].pc = "buffer" => encoders \in {<<>>, <<b>>}
       /\ call[c].pc = "putEncoder" => encoders = <<b>>
       /\ call[c].pc \in {"encoder", "encoded", "copied", "failed"} => encoders = <<>> /\ call[c].encoder = b
       /\ call[c].pc \in {"buffer", "encoder"} => content[b] = <<>>
       /\ call[c].pc = "encoded" => content[b] = <<c>>
       /\ Answered(c) => call[c].result = <<c>>
PoolsInv == TypeOK /\ PoolsConsistent /\ HeldByPlace /\ (overlap \/ Paired)
=============================================================================
