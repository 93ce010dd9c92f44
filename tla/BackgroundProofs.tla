-------------------------- MODULE BackgroundProofs --------------------------
(***************************************************************************)
(* The parts that run in the background keep what they promise, whatever    *)
(* their parameters.  The circuit breaker and the power commands have their *)
(* inductive invariants in their own modules; those of the server, of the   *)
(* health checker and of the job scheduler are stated with their models and *)
(* proved here, action by action.                                           *)
(***************************************************************************)
EXTENDS Background, FiniteSetTheorems, TLAPS

\* No operation runs while the circuit is open, and at most one at all, and it
\* is closed as long as fewer than the threshold have failed in a row, however
\* calls, forced states and resets overlap (CircuitBreaker.Execute, ForceOpen,
\* ForceClose, Reset).
THEOREM BreakerKeeps == Spec => []BreakerConsistent
<1> DEFINE Inv == part = "breaker" => Breaker!IInv
<1>1. Init => Inv
  <2> SUFFICES ASSUME Init, part = "breaker" PROVE Breaker!IInv
    OBVIOUS
  <2>1. Breaker!Init
    BY DEF Init
  <2> QED
    BY <2>1, Breaker!InitIInv, BackgroundAssumption DEF BackgroundAssumption
<1>2. Inv /\ [Next]_vars => Inv'
  <2> SUFFICES ASSUME Inv, [Next]_vars, part' = "breaker" PROVE Breaker!IInv'
    OBVIOUS
  <2>1. part = "breaker" /\ [Breaker!Next]_(Breaker!vars)
    BY DEF Next, vars, To9, To8, To7, To6, To5, Breaker!vars
  <2> QED
    BY <2>1, BackgroundAssumption, Breaker!ProceedIInv, Breaker!ForceIInv, Breaker!ResetIInv, Breaker!OtherIInv
    DEF BackgroundAssumption, Breaker!Next
<1>3. Inv => BreakerConsistent
  BY DEF BreakerConsistent, Breaker!IInv
<1> QED
  BY <1>1, <1>2, <1>3, PTL DEF Spec

----------------------------------------------------------------------------
(* The power commands *)

\* However power commands overlap and their requests fail, what they leave
\* behind is what they were to do (SetVMPowerState, errors.Retry).
THEOREM PowerCommandsAreRespected == Spec => []CommandsRespected
<1> DEFINE Inv == part = "power" => Power!TInv /\ Power!IInv
<1>1. Power!PowerAssumption
  BY BackgroundAssumption DEF BackgroundAssumption
<1>2. Init => Inv
  BY <1>1, Power!TInvInit, Power!InitIInv DEF Init
<1>3. Inv /\ [Next]_vars => Inv'
  <2> SUFFICES ASSUME Inv, [Next]_vars, part' = "power" PROVE (Power!TInv /\ Power!IInv)'
    OBVIOUS
  <2>1. part = "power" /\ [Power!Next]_(Power!vars)
    BY DEF Next, vars, To9, To8, To7, To6, To5, Power!vars
  <2> QED
    BY <1>1, <2>1, Power!TInvStep, Power!IInvStep
<1>4. Inv => CommandsRespected
  BY <1>1, Power!TInvSuffices, Power!IInvSuffices DEF CommandsRespected
<1> QED
  BY <1>2, <1>3, <1>4, PTL DEF Spec

----------------------------------------------------------------------------
(* The server's lifecycle                                                   *)

ServerActors == {"start", "reload", "main"}
ServerPCs == {"idle", "snapshot", "look", "cancel", "wait", "clear", "renew", "spawn", "make",
              "listen", "serve", "stopping", "http", "drain", "exit"}
AtThem == {"look", "cancel", "wait", "clear", "renew", "spawn"}
ActorRecord == [pc : ServerPCs, seen : 0..server.MaxReloads]
RunningRecord(made) == [by : ServerActors, gen : 0..made, seen : 0..server.MaxReloads]
WatcherRecord == [ctx : Nat, cancel : Nat, cancelled : SUBSET Nat, made : Nat]
HistoryRecord == [overlap : BOOLEAN, reloads : 0..server.MaxReloads, timedOut : BOOLEAN]

\* The types, and the places of the actors, of the server's variables.
ActorsKept ==
  /\ v2 \in [ServerActors -> ActorRecord]
  /\ v2["start"].pc \notin {"idle", "stopping", "http", "drain", "exit"}
  /\ v2["reload"].pc \notin {"make", "listen", "serve", "stopping", "http", "drain", "exit"}
  /\ v2["main"].pc \notin {"snapshot", "renew", "spawn", "make", "listen", "serve"}
WatchersKept ==
  /\ v3 \in WatcherRecord
  /\ v3.cancel \in 0..v3.made /\ v3.ctx = v3.made /\ v3.cancelled \subseteq 1..v3.made
  /\ v4 \subseteq RunningRecord(v3.made)
RestKept ==
  /\ v1 \in 0..server.MaxReloads /\ v7 \in BOOLEAN
  /\ v5 \in {"none", "made", "serving", "closed"}
  /\ v6 \in [server.Requests -> {"new", "handling", "answered", "dropped"}]
  /\ v8 \in {"up", "panicked", "fatal", "exited"}
  /\ v9 \in HistoryRecord /\ v1 = v9.reloads

\* The type invariant, part by part.
LEMMA ServerTyped ==
  Server!TypeOK /\ Server!PlacesKept <=> ActorsKept /\ WatchersKept /\ RestKept
BY DEF Server!TypeOK, Server!PlacesKept, Server!Actors, ActorsKept, WatchersKept, RestKept, ServerActors,
       ServerPCs, ActorRecord, RunningRecord, WatcherRecord, HistoryRecord

\* ... and after a step.
LEMMA ServerTypedAgain ==
  ASSUME ActorsKept', WatchersKept', RestKept'
  PROVE  (Server!TypeOK /\ Server!PlacesKept)'
BY DEF Server!TypeOK, Server!PlacesKept, Server!Actors, ActorsKept, WatchersKept, RestKept, ServerActors,
       ServerPCs, ActorRecord, RunningRecord, WatcherRecord, HistoryRecord

\* What the parameters are.
LEMMA ServerConstants ==
  server.MaxReloads \in Nat /\ Server!Actors = ServerActors
BY BackgroundAssumption DEF BackgroundAssumption, Server!LifecycleAssumption, Server!Actors, ServerActors

\* Where an actor goes, the others stay.
LEMMA ActorGoes ==
  ASSUME ActorsKept, NEW a \in ServerActors, NEW pc \in ServerPCs, Server!Goes(a, pc)
  PROVE  /\ v2' \in [ServerActors -> ActorRecord]
         /\ v2'[a].pc = pc /\ v2'[a].seen = v2[a].seen
         /\ \A b \in ServerActors \ {a} : v2'[b] = v2[b]
<1> DEFINE k == [v2[a] EXCEPT !.pc = pc]
<1>1. v2[a] \in ActorRecord
  BY DEF ActorsKept
<1>2. k \in ActorRecord /\ k.pc = pc /\ k.seen = v2[a].seen
  BY <1>1 DEF ActorRecord
<1>3. v2' = [v2 EXCEPT ![a] = k]
  BY DEF Server!Goes, ActorsKept
<1> HIDE DEF k
<1> QED
  BY <1>2, <1>3 DEF ActorsKept

\* An actor that goes to a place of its own keeps to its places.
LEMMA ActorKept ==
  ASSUME ActorsKept, NEW a \in ServerActors, NEW pc \in ServerPCs, Server!Goes(a, pc),
         a = "start" => pc \notin {"idle", "stopping", "http", "drain", "exit"},
         a = "reload" => pc \notin {"make", "listen", "serve", "stopping", "http", "drain", "exit"},
         a = "main" => pc \notin {"snapshot", "renew", "spawn", "make", "listen", "serve"}
  PROVE  ActorsKept'
BY ActorGoes DEF ActorsKept, ServerActors

\* The steps of starting and stopping the watchers.
LEMMA RestartKept ==
  ASSUME ActorsKept, WatchersKept, RestKept, NEW a \in ServerActors,
         \/ a # "main" /\ Server!RestartWatchers(a)
         \/ a = "main" /\ Server!Close
  PROVE  ActorsKept' /\ WatchersKept' /\ RestKept'
<1>1. CASE Server!Snapshot(a)
  <2>1. v2' = [v2 EXCEPT ![a] = [pc |-> "look", seen |-> v1]] /\ UNCHANGED <<v1, v3, v4, v5, v6, v7, v8>>
    BY <1>1 DEF Server!Snapshot
  <2>2. [pc |-> "look", seen |-> v1] \in ActorRecord
    BY DEF RestKept, ActorRecord, ServerPCs
  <2>3. ActorsKept'
    BY <2>1, <2>2 DEF ActorsKept, ServerActors
  <2>4. v9' \in HistoryRecord /\ v9'.reloads = v9.reloads
    BY <1>1 DEF Server!Snapshot, Server!Enters, RestKept, HistoryRecord
  <2> QED
    BY <2>1, <2>3, <2>4 DEF WatchersKept, RestKept
<1>2. CASE Server!Look(a) \/ Server!Wait(a)
  <2>1. UNCHANGED <<v1, v3, v4, v5, v6, v7, v8, v9>>
    BY <1>2 DEF Server!Look, Server!Wait
  <2>2. PICK pc \in {"cancel", "http", "renew", "clear"} :
          Server!Goes(a, pc) /\ (pc = "renew" => a # "main") /\ (pc = "http" => a = "main")
    BY <1>2 DEF Server!Look, Server!Wait
  <2>3. ActorsKept'
    BY <2>2, ActorKept DEF ServerPCs
  <2> QED
    BY <2>1, <2>3 DEF WatchersKept, RestKept
<1>3. CASE Server!Cancel(a)
  <2>1. Server!Goes(a, "wait") /\ UNCHANGED <<v1, v4, v5, v6, v7, v9>> /\ v8' \in {v8, "panicked"}
    BY <1>3 DEF Server!Cancel
  <2>2. ActorsKept'
    BY <2>1, ActorKept DEF ServerPCs
  <2>3. v3' = v3 \/ (v3.cancel # 0 /\ v3' = [v3 EXCEPT !.cancelled = @ \cup {v3.cancel}])
    BY <1>3 DEF Server!Cancel
  <2>4. WatchersKept'
    BY <2>1, <2>3 DEF WatchersKept, WatcherRecord
  <2> QED
    BY <2>1, <2>2, <2>4 DEF RestKept
<1>4. CASE Server!Clear(a)
  <2>1. /\ v3' = [v3 EXCEPT !.cancel = 0] /\ UNCHANGED <<v1, v4, v5, v6, v7, v8, v9>>
        /\ Server!Goes(a, IF a = "main" THEN "http" ELSE "renew")
    BY <1>4 DEF Server!Clear
  <2>2. ActorsKept'
    BY <2>1, ActorKept DEF ServerPCs
  <2>3. WatchersKept'
    BY <2>1 DEF WatchersKept, WatcherRecord
  <2> QED
    BY <2>1, <2>2, <2>3 DEF RestKept
<1>5. CASE Server!Renew(a) /\ a # "main"
  <2>1. /\ Server!Goes(a, "spawn") /\ UNCHANGED <<v1, v4, v5, v6, v7, v8, v9>>
        /\ v3' = [v3 EXCEPT !.made = @ + 1, !.ctx = v3.made + 1, !.cancel = v3.made + 1]
    BY <1>5 DEF Server!Renew
  <2>2. ActorsKept'
    BY <1>5, <2>1, ActorKept DEF ServerPCs
  <2>3. /\ v3' \in WatcherRecord /\ v3'.made = v3.made + 1 /\ v3'.ctx = v3.made + 1
        /\ v3'.cancel = v3.made + 1 /\ v3'.cancelled = v3.cancelled
    <3>1. v3 \in WatcherRecord /\ v3.made + 1 \in Nat
      BY DEF WatchersKept, WatcherRecord
    <3> DEFINE n == v3.made + 1
    <3>2. v3' = [v3 EXCEPT !.made = n, !.ctx = n, !.cancel = n]
      BY <2>1
    <3> HIDE DEF n
    <3>3. v3' = [ctx |-> n, cancel |-> n, cancelled |-> v3.cancelled, made |-> n]
      BY <3>1, <3>2 DEF WatcherRecord
    <3> QED
      BY <3>1, <3>3 DEF n, WatcherRecord
  <2>4. v3.made \in Nat
    BY DEF WatchersKept, WatcherRecord
  <2>5. RunningRecord(v3.made) \subseteq RunningRecord(v3.made + 1)
    BY <2>4 DEF RunningRecord
  <2>6. WatchersKept'
    BY <2>1, <2>3, <2>4, <2>5 DEF WatchersKept
  <2> QED
    BY <2>1, <2>2, <2>6 DEF RestKept
<1>6. CASE Server!Spawn(a) /\ a # "main"
  <2>1. /\ v4' = v4 \cup {[by |-> a, gen |-> 0, seen |-> v2[a].seen]}
        /\ UNCHANGED <<v1, v3, v5, v6, v7, v8, v9>>
        /\ Server!Goes(a, IF a = "start" THEN "make" ELSE "idle")
    BY <1>6 DEF Server!Spawn
  <2>2. ActorsKept'
    BY <1>6, <2>1, ActorKept DEF ServerPCs
  <2>3. [by |-> a, gen |-> 0, seen |-> v2[a].seen] \in RunningRecord(v3.made)
    BY DEF ActorsKept, ActorRecord, WatchersKept, WatcherRecord, RunningRecord
  <2> QED
    BY <2>1, <2>2, <2>3 DEF WatchersKept, RestKept
<1> QED
  BY <1>1, <1>2, <1>3, <1>4, <1>5, <1>6 DEF Server!RestartWatchers, Server!Close

\* The steps that are not about the watchers' fields.
LEMMA OtherKept ==
  ASSUME ActorsKept, WatchersKept, RestKept,
         \/ Server!MakeServer \/ Server!Listen \/ Server!Fatalf \/ Server!UpdateConfig \/ Server!Watchers
         \/ Server!Shutdown \/ Server!StopServices \/ Server!CloseHTTP \/ Server!Drain \/ Server!Exit
         \/ \E r \in server.Requests : Server!Arrive(r) \/ Server!Answer(r)
         \/ UNCHANGED Server!vars
  PROVE  ActorsKept' /\ WatchersKept' /\ RestKept'
<1>1. CASE Server!MakeServer \/ Server!Listen
  <2>1. PICK pc \in {"listen", "serve"} : Server!Goes("start", pc)
    BY <1>1 DEF Server!MakeServer, Server!Listen
  <2>2. ActorsKept'
    BY <2>1, ActorKept DEF ServerPCs, ServerActors
  <2> QED
    BY <1>1, <2>2 DEF Server!MakeServer, Server!Listen, WatchersKept, RestKept
<1>2. CASE Server!Fatalf \/ Server!Exit \/ UNCHANGED Server!vars
  BY <1>2 DEF Server!Fatalf, Server!Exit, Server!vars, ActorsKept, WatchersKept, RestKept
<1>3. CASE Server!UpdateConfig
  <2>1. Server!Goes("reload", "snapshot") /\ v1' = v1 + 1 /\ v9' = [v9 EXCEPT !.reloads = @ + 1]
        /\ v9.reloads < server.MaxReloads /\ UNCHANGED <<v3, v4, v5, v6, v7, v8>>
    BY <1>3 DEF Server!UpdateConfig
  <2>2. ActorsKept'
    BY <2>1, ActorKept DEF ServerPCs, ServerActors
  <2>3. v9' \in HistoryRecord /\ v1' = v9'.reloads /\ v1' \in 0..server.MaxReloads
    BY <2>1, ServerConstants DEF RestKept, HistoryRecord
  <2> QED
    BY <2>1, <2>2, <2>3 DEF WatchersKept, RestKept
<1>4. CASE Server!Watchers
  <2>1. UNCHANGED <<v1, v2, v3, v5, v6, v7, v8, v9>>
    BY <1>4 DEF Server!Watchers, Server!WatcherReads, Server!WatcherEnds
  <2>2. PICK w \in v4 : v4' \in {v4 \ {w}, (v4 \ {w}) \cup {[w EXCEPT !.gen = v3.ctx]}}
    BY <1>4 DEF Server!Watchers, Server!WatcherReads, Server!WatcherEnds
  <2>3. w \in RunningRecord(v3.made) /\ v3.ctx \in 0..v3.made
    BY DEF WatchersKept, WatcherRecord
  <2>4. [w EXCEPT !.gen = v3.ctx] \in RunningRecord(v3.made)
    BY <2>3 DEF RunningRecord
  <2> QED
    BY <2>1, <2>2, <2>4 DEF ActorsKept, WatchersKept, RestKept
<1>5. CASE Server!Shutdown \/ Server!StopServices \/ Server!CloseHTTP \/ Server!Drain
  <2>1. PICK pc \in {"stopping", "look", "exit", "drain"} : Server!Goes("main", pc)
    BY <1>5 DEF Server!Shutdown, Server!StopServices, Server!CloseHTTP, Server!Drain
  <2>2. ActorsKept'
    BY <2>1, ActorKept DEF ServerPCs, ServerActors
  <2>3. v9' \in HistoryRecord /\ v9'.reloads = v9.reloads
    <3>1. v9' = v9 \/ (\E b \in BOOLEAN : v9' = [v9 EXCEPT !.overlap = b] \/ v9' = [v9 EXCEPT !.timedOut = b])
      BY <1>5 DEF Server!Shutdown, Server!StopServices, Server!CloseHTTP, Server!Drain, Server!Enters, RestKept, HistoryRecord
    <3> QED
      BY <3>1 DEF RestKept, HistoryRecord
  <2>4. /\ UNCHANGED <<v1, v3, v4, v6, v8>> /\ v5' \in {"none", "made", "serving", "closed"}
        /\ v7' \in BOOLEAN
    BY <1>5 DEF Server!Shutdown, Server!StopServices, Server!CloseHTTP, Server!Drain, RestKept
  <2> QED
    BY <2>2, <2>3, <2>4 DEF WatchersKept, RestKept
<1>6. CASE \E r \in server.Requests : Server!Arrive(r) \/ Server!Answer(r)
  <2>1. UNCHANGED <<v1, v2, v3, v4, v5, v7, v8, v9>>
    BY <1>6 DEF Server!Arrive, Server!Answer
  <2>2. v6' \in [server.Requests -> {"new", "handling", "answered", "dropped"}]
    BY <1>6 DEF Server!Arrive, Server!Answer, RestKept
  <2> QED
    BY <2>1, <2>2 DEF ActorsKept, WatchersKept, RestKept
<1> QED
  BY <1>1, <1>2, <1>3, <1>4, <1>5, <1>6

\* Starting and stopping the watchers comes before, or beside, the HTTP
\* server; main comes to it last.
LEMMA RestartDrains ==
  ASSUME ActorsKept, RestKept, Server!DrainInv, NEW a \in ServerActors,
         \/ a # "main" /\ Server!RestartWatchers(a)
         \/ a = "main" /\ Server!Close
  PROVE  Server!DrainInv'
<1>1. UNCHANGED <<v5, v6>> /\ v8' \in {v8, "panicked"} /\ v9'.timedOut = v9.timedOut
  BY DEF Server!RestartWatchers, Server!Close, Server!Snapshot, Server!Look, Server!Cancel, Server!Wait,
         Server!Clear, Server!Renew, Server!Spawn, Server!Enters, RestKept, HistoryRecord
<1>2. /\ v2[a].pc \in AtThem \cup {"snapshot"}
      /\ v2'[a].pc \in AtThem \cup {"idle", "make", "http"}
      /\ \A b \in ServerActors \ {a} : v2'[b] = v2[b]
  <2>1. CASE Server!Snapshot(a)
    BY <2>1 DEF Server!Snapshot, AtThem, ActorsKept
  <2>2. ASSUME ~Server!Snapshot(a)
        PROVE  v2[a].pc \in AtThem /\ \E pc \in AtThem \cup {"idle", "make", "http"} : Server!Goes(a, pc)
    BY <2>2 DEF Server!RestartWatchers, Server!Close, Server!Look, Server!Cancel, Server!Wait,
         Server!Clear, Server!Renew, Server!Spawn, AtThem
  <2> QED
    BY <2>1, <2>2, ActorGoes DEF AtThem, ServerPCs
<1>3. v8' = "exited" => v8 = "exited"
  BY <1>1
<1> QED
  BY <1>1, <1>2, <1>3 DEF Server!DrainInv, ServerActors, AtThem

\* Whatever is no step of a handler or a watcher leaves the requests to drain.
LEMMA OtherDrains ==
  ASSUME ActorsKept, RestKept, Server!DrainInv,
         \/ Server!MakeServer \/ Server!Listen \/ Server!Fatalf \/ Server!UpdateConfig \/ Server!Watchers
         \/ Server!Shutdown \/ Server!StopServices \/ Server!CloseHTTP \/ Server!Drain \/ Server!Exit
         \/ \E r \in server.Requests : Server!Arrive(r) \/ Server!Answer(r)
         \/ UNCHANGED Server!vars
  PROVE  Server!DrainInv'
<1>1. CASE Server!MakeServer
  <2>1. v2'["start"].pc = "listen" /\ v2'["main"] = v2["main"]
    BY <1>1, ActorGoes DEF Server!MakeServer, ServerPCs, ServerActors
  <2> QED
    BY <1>1, <2>1 DEF Server!MakeServer, Server!DrainInv
<1>2. CASE Server!Listen
  <2>1. v2'["start"].pc = "serve" /\ v2'["main"] = v2["main"]
    BY <1>2, ActorGoes DEF Server!Listen, ServerPCs, ServerActors
  <2> QED
    BY <1>2, <2>1 DEF Server!Listen, Server!DrainInv
<1>3. CASE Server!Fatalf \/ Server!Exit \/ Server!Watchers \/ UNCHANGED Server!vars
  BY <1>3 DEF Server!Fatalf, Server!Exit, Server!Watchers, Server!WatcherReads, Server!WatcherEnds,
     Server!vars, Server!DrainInv
<1>4. CASE Server!UpdateConfig
  <2>1. v2'["start"] = v2["start"] /\ v2'["main"] = v2["main"]
    BY <1>4, ActorGoes DEF Server!UpdateConfig, ServerPCs, ServerActors
  <2>2. v9'.timedOut = v9.timedOut
    BY <1>4 DEF Server!UpdateConfig, RestKept, HistoryRecord
  <2> QED
    BY <1>4, <2>1, <2>2 DEF Server!UpdateConfig, Server!DrainInv
<1>5. CASE Server!Shutdown \/ Server!StopServices
  <2>1. /\ v2["main"].pc \in {"idle", "stopping"} /\ v2'["main"].pc \in {"stopping", "look"}
        /\ v2'["start"] = v2["start"]
    BY <1>5, ActorGoes DEF Server!Shutdown, Server!StopServices, ServerPCs, ServerActors
  <2> QED
    BY <1>5, <2>1 DEF Server!Shutdown, Server!StopServices, Server!Up, Server!DrainInv
<1>6. CASE Server!CloseHTTP
  <2>1. /\ v2'["start"] = v2["start"] /\ v2["main"].pc = "http"
        /\ v2'["main"].pc = IF v5 = "none" THEN "exit" ELSE "drain"
    BY <1>6, ActorGoes DEF Server!CloseHTTP, ServerPCs, ServerActors
  <2> QED
    BY <1>6, <2>1 DEF Server!CloseHTTP, Server!Up, Server!DrainInv
<1>7. CASE Server!Drain
  <2>1. v2'["start"] = v2["start"] /\ v2["main"].pc = "drain" /\ v2'["main"].pc = "exit"
    BY <1>7, ActorGoes DEF Server!Drain, ServerPCs, ServerActors
  <2>2. v9'.timedOut \/ \A r \in server.Requests : v6[r] # "handling"
    BY <1>7 DEF Server!Drain, RestKept, HistoryRecord
  <2> QED
    BY <1>7, <2>1, <2>2 DEF Server!Drain, Server!Up, Server!DrainInv
<1>8. CASE \E r \in server.Requests : Server!Arrive(r) \/ Server!Answer(r)
  <2>1. UNCHANGED <<v2, v5, v8, v9>>
    BY <1>8 DEF Server!Arrive, Server!Answer
  <2>2. ASSUME NEW s \in server.Requests, v6'[s] = "handling" PROVE v6[s] = "handling" \/ v5 = "serving"
    BY <1>8, <2>2 DEF Server!Arrive, Server!Answer, RestKept
  <2> QED
    BY <2>1, <2>2 DEF Server!DrainInv
<1> QED
  BY <1>1, <1>2, <1>3, <1>4, <1>5, <1>6, <1>7, <1>8

\* The invariant of the watchers, and the actors at them, in plain terms.
LEMMA WatchIs ==
  /\ Server!WatchInv <=> v9.overlap \/
       /\ v8 # "panicked"
       /\ \A a \in ServerActors : v2[a].pc \in AtThem =>
            Server!Finds(v2[a].pc) /\ \A b \in ServerActors \ {a} : v2[b].pc \notin AtThem
       /\ (\A a \in ServerActors : v2[a].pc \notin AtThem) => Server!Settled
       /\ v2["reload"].pc \in AtThem => v2["reload"].seen = v1
       /\ v2["start"].pc \in AtThem /\ v2["reload"].pc = "idle" => v2["start"].seen = v1
BY DEF Server!WatchInv, Server!AtWatchers, Server!Actors, ServerActors, AtThem

\* What is to be shown of the watchers after a step.
LEMMA WatchIsAgain ==
  ASSUME v9'.overlap \/
       /\ v8' # "panicked"
       /\ \A a \in ServerActors : v2'[a].pc \in AtThem =>
            Server!Finds(v2[a].pc)' /\ \A b \in ServerActors \ {a} : v2'[b].pc \notin AtThem
       /\ (\A a \in ServerActors : v2'[a].pc \notin AtThem) => Server!Settled'
       /\ v2'["reload"].pc \in AtThem => v2'["reload"].seen = v1'
       /\ v2'["start"].pc \in AtThem /\ v2'["reload"].pc = "idle" => v2'["start"].seen = v1'
  PROVE  Server!WatchInv'
BY DEF Server!WatchInv, Server!AtWatchers, Server!Actors, ServerActors, AtThem

\* a is at the watchers and goes on with them.
LEMMA WatchWithin ==
  ASSUME ActorsKept, Server!WatchInv, NEW a \in ServerActors, NEW pc \in AtThem, v2[a].pc \in AtThem,
         Server!Goes(a, pc), v1' = v1, v9' = v9,
         ~v9.overlap => v8' # "panicked" /\ (v2[a].pc = "wait" \/ Server!Finds(v2[a].pc) => Server!Finds(pc)')
  PROVE  Server!WatchInv'
<1>1. /\ v2'[a].pc = pc /\ v2'[a].seen = v2[a].seen
      /\ \A b \in ServerActors \ {a} : v2'[b] = v2[b]
  BY ActorGoes DEF AtThem, ServerPCs
<1>2. CASE v9.overlap
  BY <1>2, WatchIsAgain
<1>3. CASE ~v9.overlap
  <2>1. Server!Finds(v2[a].pc) /\ \A b \in ServerActors \ {a} : v2[b].pc \notin AtThem
    BY <1>3, WatchIs
  <2>2. Server!Finds(v2[a].pc)'
    BY <1>1, <1>3, <2>1 DEF Server!Finds
  <2>3. v2["reload"].pc \in AtThem => v2["reload"].seen = v1
    BY <1>3, WatchIs
  <2>4. v2["start"].pc \in AtThem /\ v2["reload"].pc = "idle" => v2["start"].seen = v1
    BY <1>3, WatchIs
  <2>5. "idle" \notin AtThem
    BY DEF AtThem
  <2>6. ASSUME NEW d \in ServerActors, v2'[d].pc \in AtThem
        PROVE  Server!Finds(v2[d].pc)' /\ \A b \in ServerActors \ {d} : v2'[b].pc \notin AtThem
    <3>1. d = a
      BY <1>1, <2>1, <2>6
    <3> QED
      BY <1>1, <2>1, <2>2, <3>1
  <2> QED
    BY <1>1, <1>3, <2>3, <2>4, <2>5, <2>6, WatchIsAgain DEF ServerActors
<1> QED
  BY <1>2, <1>3

\* a has done with the watchers.
LEMMA WatchLeaves ==
  ASSUME ActorsKept, Server!WatchInv, NEW a \in ServerActors, NEW pc \in ServerPCs \ AtThem, v2[a].pc \in AtThem,
         Server!Goes(a, pc), v1' = v1, v9' = v9,
         ~v9.overlap => v8' # "panicked" /\ Server!Settled'
  PROVE  Server!WatchInv'
<1>1. /\ v2'[a].pc = pc /\ \A b \in ServerActors \ {a} : v2'[b] = v2[b]
  BY ActorGoes
<1>2. CASE v9.overlap
  BY <1>2, WatchIsAgain
<1>3. CASE ~v9.overlap
  <2>1. \A b \in ServerActors \ {a} : v2[b].pc \notin AtThem
    BY <1>3, WatchIs
  <2>2. \A d \in ServerActors : v2'[d].pc \notin AtThem
    BY <1>1, <2>1
  <2> QED
    BY <1>3, <2>2, WatchIsAgain DEF ServerActors
<1> QED
  BY <1>2, <1>3

\* a comes to the watchers, which is an overlap if another is there.
LEMMA WatchEnters ==
  ASSUME ActorsKept, RestKept, Server!WatchInv, NEW a \in ServerActors, NEW k \in ActorRecord,
         v2[a].pc \in {"stopping", "snapshot"}, v2' = [v2 EXCEPT ![a] = k], k.pc = "look",
         a # "main" => k.seen = v1, Server!Enters(a), UNCHANGED <<v1, v3, v4, v8>>
  PROVE  Server!WatchInv'
<1>1. v9'.overlap = (v9.overlap \/ \E b \in ServerActors \ {a} : v2[b].pc \in AtThem)
  BY ServerConstants DEF Server!Enters, Server!AtWatchers, AtThem, RestKept, HistoryRecord
<1>2. \A b \in ServerActors : v2'[b] = IF b = a THEN k ELSE v2[b]
  BY DEF ActorsKept
<1>3. CASE v9'.overlap
  BY <1>3, WatchIsAgain
<1>4. CASE ~v9'.overlap
  <2>1. ~v9.overlap /\ \A b \in ServerActors : v2[b].pc \notin AtThem
    BY <1>1, <1>4 DEF AtThem
  <2>2. Server!Settled /\ v8 # "panicked"
    BY <2>1, WatchIs
  <2>3. (Server!Alive \/ Server!Gone)'
    BY <2>2 DEF Server!Settled, Server!Alive, Server!Fresh, Server!Gone
  <2>4. Server!Finds(v2[a].pc)'
    BY <1>2, <2>3 DEF Server!Finds
  <2>5. ASSUME NEW d \in ServerActors, v2'[d].pc \in AtThem
        PROVE  Server!Finds(v2[d].pc)' /\ \A b \in ServerActors \ {d} : v2'[b].pc \notin AtThem
    <3>1. d = a
      BY <1>2, <2>1, <2>5
    <3> QED
      BY <1>2, <2>1, <2>4, <3>1
  <2>6. v2'[a].pc \in AtThem
    BY <1>2 DEF AtThem
  <2>7. /\ v2'["reload"].pc \in AtThem => v2'["reload"].seen = v1'
        /\ v2'["start"].pc \in AtThem => v2'["start"].seen = v1'
    BY <1>2, <2>1 DEF ServerActors
  <2> QED
    BY <2>2, <2>5, <2>6, <2>7, WatchIsAgain
<1> QED
  BY <1>3, <1>4

\* The steps of starting and stopping the watchers.
LEMMA RestartWatches ==
  ASSUME ActorsKept, WatchersKept, RestKept, Server!WatchInv, NEW a \in ServerActors,
         \/ a # "main" /\ Server!RestartWatchers(a)
         \/ a = "main" /\ Server!Close
  PROVE  Server!WatchInv'
<1>1. CASE Server!Snapshot(a) /\ a # "main"
  <2>1. [pc |-> "look", seen |-> v1] \in ActorRecord
    BY DEF RestKept, ActorRecord, ServerPCs
  <2> QED
    BY <1>1, <2>1, WatchEnters DEF Server!Snapshot
<1>2. CASE Server!Look(a)
  <2>1. /\ v2[a].pc = "look" /\ UNCHANGED <<v1, v3, v4, v8, v9>>
        /\ Server!Goes(a, IF v3.cancel # 0 THEN "cancel" ELSE IF a = "main" THEN "http" ELSE "renew")
    BY <1>2 DEF Server!Look
  <2>2. ~v9.overlap => (Server!Alive \/ Server!Gone) /\ v8 # "panicked"
    BY <2>1, WatchIs DEF Server!Finds, AtThem
  <2>3. CASE v3.cancel # 0
    <3>1. ~v9.overlap => Server!Finds("cancel")'
      BY <2>1, <2>2, <2>3 DEF Server!Finds, Server!Alive, Server!Gone, Server!Fresh
    <3> QED
      BY <2>1, <2>2, <2>3, <3>1, WatchWithin DEF AtThem
  <2>4. CASE v3.cancel = 0
    <3>1. ~v9.overlap => Server!Gone /\ v4 = {}
      BY <2>2, <2>4 DEF Server!Alive, Server!Gone, Server!Fresh
    <3>2. CASE a # "main"
      <4>1. ~v9.overlap => Server!Finds("renew")'
        BY <2>1, <3>1 DEF Server!Finds
      <4> QED
        BY <2>1, <2>2, <2>4, <3>2, <4>1, WatchWithin DEF AtThem
    <3>3. CASE a = "main"
      <4>1. v2'["main"].pc = "http"
        BY <2>1, <2>4, <3>3, ActorGoes DEF ServerPCs
      <4>2. ~v9.overlap => Server!Settled'
        BY <2>1, <3>1, <4>1 DEF Server!Settled, Server!Gone
      <4> QED
        BY <2>1, <2>2, <2>4, <3>3, <4>2, WatchLeaves DEF AtThem, ServerPCs
    <3> QED
      BY <3>2, <3>3
  <2> QED
    BY <2>3, <2>4
<1>3. CASE Server!Cancel(a)
  <2>1. v2[a].pc = "cancel" /\ Server!Goes(a, "wait") /\ v1' = v1 /\ v9' = v9
    BY <1>3 DEF Server!Cancel
  <2>2. ~v9.overlap => Server!Alive /\ v8 # "panicked"
    BY <2>1, WatchIs DEF Server!Finds, AtThem
  <2>3. ~v9.overlap => v8' # "panicked"
    BY <1>3, <2>2 DEF Server!Cancel, Server!Alive, Server!Fresh
  <2>4. Server!Finds("wait")'
    BY DEF Server!Finds
  <2> QED
    BY <2>1, <2>3, <2>4, WatchWithin DEF AtThem
<1>4. CASE Server!Wait(a)
  <2>1. v2[a].pc = "wait" /\ Server!Goes(a, "clear") /\ UNCHANGED <<v1, v4, v8, v9>> /\ v4 = {}
    BY <1>4 DEF Server!Wait
  <2>2. ~v9.overlap => v8 # "panicked"
    BY WatchIs
  <2>3. Server!Finds("clear")'
    BY <2>1 DEF Server!Finds
  <2> QED
    BY <2>1, <2>2, <2>3, WatchWithin DEF AtThem
<1>5. CASE Server!Clear(a)
  <2>1. /\ v2[a].pc = "clear" /\ UNCHANGED <<v1, v4, v8, v9>>
        /\ Server!Goes(a, IF a = "main" THEN "http" ELSE "renew") /\ v3' = [v3 EXCEPT !.cancel = 0]
    BY <1>5 DEF Server!Clear
  <2>2. ~v9.overlap => v4 = {} /\ v8 # "panicked"
    BY <2>1, WatchIs DEF Server!Finds, AtThem
  <2>3. CASE a # "main"
    <3>1. ~v9.overlap => Server!Finds("renew")'
      BY <2>1, <2>2 DEF Server!Finds
    <3> QED
      BY <2>1, <2>2, <2>3, <3>1, WatchWithin DEF AtThem
  <2>4. CASE a = "main"
    <3>1. v2'["main"].pc = "http" /\ v3'.cancel = 0
      BY <2>1, <2>4, ActorGoes DEF ServerPCs, WatchersKept, WatcherRecord
    <3>2. ~v9.overlap => Server!Settled'
      BY <2>1, <2>2, <3>1 DEF Server!Settled, Server!Gone
    <3> QED
      BY <2>1, <2>2, <2>4, <3>2, WatchLeaves DEF AtThem, ServerPCs
  <2> QED
    BY <2>3, <2>4
<1>6. CASE Server!Renew(a) /\ a # "main"
  <2>1. /\ v2[a].pc = "renew" /\ Server!Goes(a, "spawn") /\ UNCHANGED <<v1, v4, v8, v9>>
        /\ v3' = [v3 EXCEPT !.made = @ + 1, !.ctx = v3.made + 1, !.cancel = v3.made + 1]
    BY <1>6 DEF Server!Renew
  <2>2. ~v9.overlap => v4 = {} /\ v8 # "panicked"
    BY <2>1, WatchIs DEF Server!Finds, AtThem
  <2>3. Server!Fresh'
    <3>1. v3 \in WatcherRecord /\ v3.made \in Nat /\ v3.cancelled \subseteq 1..v3.made
      BY DEF WatchersKept, WatcherRecord
    <3> DEFINE n == v3.made + 1
    <3>2. n \in Nat /\ n # 0 /\ n \notin v3.cancelled
      BY <3>1
    <3>3. v3' = [v3 EXCEPT !.made = n, !.ctx = n, !.cancel = n]
      BY <2>1
    <3> HIDE DEF n
    <3>4. v3' = [ctx |-> n, cancel |-> n, cancelled |-> v3.cancelled, made |-> n]
      BY <3>1, <3>3 DEF WatcherRecord
    <3> QED
      BY <3>2, <3>4 DEF Server!Fresh
  <2>4. ~v9.overlap => Server!Finds("spawn")'
    BY <2>1, <2>2, <2>3 DEF Server!Finds
  <2> QED
    BY <2>1, <2>2, <2>4, WatchWithin DEF AtThem
<1>7. CASE Server!Spawn(a) /\ a # "main"
  <2> DEFINE w == [by |-> a, gen |-> 0, seen |-> v2[a].seen]
             pc == IF a = "start" THEN "make" ELSE "idle"
  <2>1. /\ v2[a].pc = "spawn" /\ UNCHANGED <<v1, v3, v8, v9>> /\ v4' = v4 \cup {w}
        /\ Server!Goes(a, pc)
    BY <1>7 DEF Server!Spawn
  <2>2. ~v9.overlap => v4 = {} /\ Server!Fresh /\ v8 # "panicked"
    BY <2>1, WatchIs DEF Server!Finds, AtThem
  <2>3. v2'[a].pc = pc /\ \A b \in ServerActors \ {a} : v2'[b] = v2[b]
    BY <2>1, ActorGoes DEF ServerPCs
  <2>4. ~v9.overlap /\ v2'["reload"].pc = "idle" => v2[a].seen = v1
    BY <1>7, <2>1, <2>3, WatchIs DEF ServerActors, AtThem
  <2>5. ~v9.overlap => Server!Settled'
    <3> SUFFICES ASSUME ~v9.overlap PROVE Server!Settled'
      OBVIOUS
    <3>1. v4' = {w} /\ w.gen = 0 /\ w.seen = v2[a].seen
      BY <2>1, <2>2
    <3> HIDE DEF w
    <3>2. Server!Alive'
      BY <2>1, <2>2, <3>1 DEF Server!Alive, Server!Fresh
    <3> QED
      BY <2>1, <2>4, <3>1, <3>2 DEF Server!Settled
  <2> QED
    BY <2>1, <2>2, <2>5, WatchLeaves DEF AtThem, ServerPCs
<1> QED
  BY <1>1, <1>2, <1>3, <1>4, <1>5, <1>6, <1>7 DEF Server!RestartWatchers, Server!Close

\* The steps beside the watchers' fields.
LEMMA OtherWatches ==
  ASSUME ActorsKept, WatchersKept, RestKept, Server!WatchInv,
         \/ Server!MakeServer \/ Server!Listen \/ Server!Fatalf \/ Server!UpdateConfig \/ Server!Watchers
         \/ Server!Shutdown \/ Server!StopServices \/ Server!CloseHTTP \/ Server!Drain \/ Server!Exit
         \/ \E r \in server.Requests : Server!Arrive(r) \/ Server!Answer(r)
         \/ UNCHANGED Server!vars
  PROVE  Server!WatchInv'
<1>1. CASE Server!MakeServer \/ Server!Listen \/ Server!Shutdown \/ Server!CloseHTTP \/ Server!Drain
  <2>1. PICK a \in {"start", "main"}, pc \in {"listen", "serve", "stopping", "exit", "drain"} :
          /\ Server!Goes(a, pc) /\ v2[a].pc \in {"make", "listen", "idle", "http", "drain"}
          /\ a = "start" => v2[a].pc \in {"make", "listen"}
    BY <1>1 DEF Server!MakeServer, Server!Listen, Server!Shutdown, Server!CloseHTTP, Server!Drain
  <2>2. /\ v2'[a].pc = pc /\ v2'[a].seen = v2[a].seen /\ a \in ServerActors
        /\ \A b \in ServerActors \ {a} : v2'[b] = v2[b]
    BY <2>1, ActorGoes DEF ServerActors, ServerPCs
  <2>3. v9'.overlap = v9.overlap /\ UNCHANGED <<v1, v3, v4, v8>>
    BY <1>1 DEF Server!MakeServer, Server!Listen, Server!Shutdown, Server!CloseHTTP, Server!Drain, RestKept, HistoryRecord
  <2>4. \A b \in ServerActors : v2'[b].pc \in AtThem <=> v2[b].pc \in AtThem
    BY <2>1, <2>2 DEF AtThem
  <2>5. \A b \in ServerActors : v2'[b].pc \in AtThem => v2'[b] = v2[b]
    BY <2>1, <2>2 DEF AtThem
  <2>6. v2'["reload"] = v2["reload"]
    BY <2>1, <2>2 DEF ServerActors
  <2>7. Server!Settled => Server!Settled'
    <3>1. (Server!Alive => Server!Alive') /\ (Server!Gone => Server!Gone')
      BY <2>3 DEF Server!Alive, Server!Fresh, Server!Gone
    <3>2. v2'["main"].pc = "idle" => v2["main"].pc = "idle"
      BY <2>1, <2>2 DEF ServerActors
    <3>3. v2'["start"].pc \in {"make", "listen", "serve"} => v2["start"].pc \in {"make", "listen", "serve"}
      BY <2>1, <2>2 DEF ServerActors
    <3> QED
      BY <2>3, <2>6, <3>1, <3>2, <3>3 DEF Server!Settled
  <2>8. \A pp \in AtThem : Server!Finds(pp) => Server!Finds(pp)'
    BY <2>3 DEF Server!Finds, Server!Alive, Server!Fresh, Server!Gone
  <2>9. ASSUME NEW d \in ServerActors, v2'[d].pc \in AtThem, ~v9.overlap
        PROVE  Server!Finds(v2[d].pc)' /\ \A b \in ServerActors \ {d} : v2'[b].pc \notin AtThem
    <3>1. v2'[d] = v2[d] /\ v2[d].pc \in AtThem
      BY <2>5, <2>9
    <3>2. Server!Finds(v2[d].pc) /\ \A b \in ServerActors \ {d} : v2[b].pc \notin AtThem
      BY <2>9, <3>1, WatchIs
    <3>3. Server!Finds(v2[d].pc)'
      BY <2>3, <3>1, <3>2 DEF Server!Finds, Server!Alive, Server!Fresh, Server!Gone
    <3> QED
      BY <2>4, <3>2, <3>3
  <2>10. "start" \in ServerActors /\ "reload" \in ServerActors
    BY DEF ServerActors
  <2>11. ~v9.overlap => /\ v8 # "panicked"
                        /\ (\A d \in ServerActors : v2[d].pc \notin AtThem) => Server!Settled
                        /\ v2["reload"].pc \in AtThem => v2["reload"].seen = v1
                        /\ v2["start"].pc \in AtThem /\ v2["reload"].pc = "idle" => v2["start"].seen = v1
    BY WatchIs
  <2> QED
    BY <2>3, <2>4, <2>5, <2>6, <2>7, <2>9, <2>10, <2>11, WatchIsAgain
<1>2. CASE Server!Fatalf \/ Server!Exit \/ UNCHANGED Server!vars
           \/ \E r \in server.Requests : Server!Arrive(r) \/ Server!Answer(r)
  <2>1. UNCHANGED <<v1, v2, v3, v4, v9>> /\ (v8' = "panicked" => v8 = "panicked")
    BY <1>2 DEF Server!Fatalf, Server!Exit, Server!vars, Server!Arrive, Server!Answer
  <2> QED
    BY <2>1 DEF Server!WatchInv, Server!AtWatchers, Server!Finds, Server!Settled, Server!Alive, Server!Fresh, Server!Gone
<1>3. CASE Server!UpdateConfig
  <2>1. /\ v2["reload"].pc = "idle" /\ v2'["reload"].pc = "snapshot"
        /\ \A b \in ServerActors \ {"reload"} : v2'[b] = v2[b]
    BY <1>3, ActorGoes DEF Server!UpdateConfig, ServerActors, ServerPCs
  <2>2. v9'.overlap = v9.overlap /\ UNCHANGED <<v3, v4, v8>>
    BY <1>3 DEF Server!UpdateConfig, RestKept, HistoryRecord
  <2>3. Server!Settled => Server!Settled'
    BY <2>1, <2>2 DEF Server!Settled, Server!Alive, Server!Fresh, Server!Gone, ServerActors
  <2>4. \A b \in ServerActors : v2'[b].pc \in AtThem <=> v2[b].pc \in AtThem
    BY <2>1 DEF AtThem
  <2>5. ASSUME NEW d \in ServerActors, v2'[d].pc \in AtThem, ~v9.overlap
        PROVE  Server!Finds(v2[d].pc)' /\ \A b \in ServerActors \ {d} : v2'[b].pc \notin AtThem
    <3>1. v2'[d] = v2[d] /\ v2[d].pc \in AtThem
      BY <2>1, <2>5 DEF AtThem
    <3>2. Server!Finds(v2[d].pc) /\ \A b \in ServerActors \ {d} : v2[b].pc \notin AtThem
      BY <2>5, <3>1, WatchIs
    <3>3. Server!Finds(v2[d].pc)'
      BY <2>2, <3>1, <3>2 DEF Server!Finds, Server!Alive, Server!Fresh, Server!Gone
    <3> QED
      BY <2>4, <3>2, <3>3
  <2>6. ~v9.overlap => /\ v8 # "panicked"
                       /\ (\A d \in ServerActors : v2[d].pc \notin AtThem) => Server!Settled
    BY WatchIs
  <2> QED
    BY <2>1, <2>2, <2>3, <2>4, <2>5, <2>6, WatchIsAgain DEF AtThem, ServerActors
<1>4. CASE Server!Watchers
  <2>1. UNCHANGED <<v1, v2, v3, v8, v9>>
    BY <1>4 DEF Server!Watchers, Server!WatcherReads, Server!WatcherEnds
  <2>2. (v4 = {} => v4' = {}) /\ (Server!Gone => Server!Gone')
    BY <1>4, <2>1 DEF Server!Watchers, Server!WatcherReads, Server!WatcherEnds, Server!Gone
  <2>3. ASSUME Server!Alive PROVE Server!Alive' /\ ((\A w \in v4 : w.seen = v1) => \A w \in v4' : w.seen = v1)
    <3>1. PICK w \in v4 : v4 = {w} /\ w.gen \in {0, v3.ctx}
      BY <2>3 DEF Server!Alive
    <3>2. w \in RunningRecord(v3.made) /\ 0 \notin v3.cancelled /\ v3.ctx \notin v3.cancelled
      BY <2>3 DEF WatchersKept, WatcherRecord, Server!Alive, Server!Fresh
    <3>3. v4' = {[w EXCEPT !.gen = v3.ctx]}
      BY <1>4, <3>1, <3>2 DEF Server!Watchers, Server!WatcherReads, Server!WatcherEnds
    <3>4. [w EXCEPT !.gen = v3.ctx].gen = v3.ctx /\ [w EXCEPT !.gen = v3.ctx].seen = w.seen
      BY <3>2 DEF RunningRecord
    <3> QED
      BY <2>1, <2>3, <3>1, <3>3, <3>4 DEF Server!Alive, Server!Fresh
  <2>4. Server!Settled => Server!Settled'
    BY <2>1, <2>2, <2>3 DEF Server!Settled, Server!Gone
  <2>5. ASSUME NEW d \in ServerActors, v2[d].pc \in AtThem, ~v9.overlap
        PROVE  Server!Finds(v2[d].pc)' /\ \A b \in ServerActors \ {d} : v2'[b].pc \notin AtThem
    <3>1. Server!Finds(v2[d].pc) /\ \A b \in ServerActors \ {d} : v2[b].pc \notin AtThem
      BY <2>5, WatchIs
    <3> QED
      BY <2>1, <2>2, <2>3, <3>1 DEF Server!Finds, Server!Fresh
  <2>6. ~v9.overlap =>
       /\ v8 # "panicked"
       /\ (\A a \in ServerActors : v2[a].pc \notin AtThem) => Server!Settled
       /\ v2["reload"].pc \in AtThem => v2["reload"].seen = v1
       /\ v2["start"].pc \in AtThem /\ v2["reload"].pc = "idle" => v2["start"].seen = v1
    BY WatchIs
  <2> QED
    BY <2>1, <2>4, <2>5, <2>6, WatchIsAgain
<1>5. CASE Server!StopServices
  <2>1. /\ v2["main"].pc = "stopping" /\ Server!Goes("main", "look") /\ Server!Enters("main")
        /\ UNCHANGED <<v1, v3, v4, v8>>
    BY <1>5 DEF Server!StopServices
  <2> DEFINE k == [v2["main"] EXCEPT !.pc = "look"]
  <2>2. k \in ActorRecord /\ k.pc = "look" /\ "main" \in ServerActors
    BY DEF ActorsKept, ActorRecord, ServerPCs, ServerActors
  <2>3. v2' = [v2 EXCEPT !["main"] = k]
    BY <2>1, <2>2 DEF Server!Goes, ActorsKept
  <2> QED
    BY <2>1, <2>2, <2>3, WatchEnters
<1> QED
  BY <1>1, <1>2, <1>3, <1>4, <1>5

\* The process starts with no watcher and no request.
LEMMA ServerInit == Server!Init => Server!LifecycleInv
<1> SUFFICES ASSUME Server!Init PROVE Server!LifecycleInv
  OBVIOUS
<1>1. /\ v1 = 0 /\ v4 = {} /\ v5 = "none" /\ v7 = FALSE /\ v8 = "up"
      /\ v2 = [a \in ServerActors |-> [pc |-> IF a = "start" THEN "snapshot" ELSE "idle", seen |-> 0]]
      /\ v3 = [ctx |-> 0, cancel |-> 0, cancelled |-> {}, made |-> 0]
      /\ v6 = [r \in server.Requests |-> "new"]
      /\ v9 = [overlap |-> FALSE, reloads |-> 0, timedOut |-> FALSE]
  BY ServerConstants DEF Server!Init
<1>2. /\ v2["start"].pc = "snapshot" /\ v2["reload"].pc = "idle" /\ v2["main"].pc = "idle"
      /\ v2 \in [ServerActors -> ActorRecord]
  BY <1>1, ServerConstants DEF ServerActors, ActorRecord, ServerPCs
<1>3. ActorsKept /\ WatchersKept /\ RestKept
  <2>1. ActorsKept
    BY <1>2 DEF ActorsKept
  <2>2. WatchersKept
    BY <1>1 DEF WatchersKept, WatcherRecord
  <2>3. v9 \in HistoryRecord /\ v9.reloads = 0 /\ v1 \in 0..server.MaxReloads
    BY <1>1, ServerConstants DEF HistoryRecord
  <2>4. v7 \in BOOLEAN /\ v6 \in [server.Requests -> {"new", "handling", "answered", "dropped"}]
    BY <1>1
  <2> QED
    BY <1>1, <2>1, <2>2, <2>3, <2>4 DEF RestKept
<1>4. Server!DrainInv
  BY <1>1, <1>2 DEF Server!DrainInv
<1>5. Server!WatchInv
  <2>1. \A a \in ServerActors : v2[a].pc \notin AtThem
    BY <1>1 DEF ServerActors, AtThem
  <2>2. Server!Settled
    BY <1>1, <1>2 DEF Server!Settled, Server!Gone
  <2> QED
    BY <1>1, <2>1, <2>2, WatchIs DEF ServerActors
<1> QED
  BY <1>3, <1>4, <1>5, ServerTyped DEF Server!LifecycleInv

\* Every step keeps the invariant.
LEMMA ServerStep ==
  ASSUME Server!LifecycleInv, [Server!Next]_(Server!vars)
  PROVE  Server!LifecycleInv'
<1>1. ActorsKept /\ WatchersKept /\ RestKept /\ Server!DrainInv /\ Server!WatchInv
  BY ServerTyped DEF Server!LifecycleInv
<1>2. ASSUME NEW a \in ServerActors,
             \/ a # "main" /\ Server!RestartWatchers(a)
             \/ a = "main" /\ Server!Close
      PROVE  Server!LifecycleInv'
  BY <1>1, <1>2, RestartKept, RestartDrains, RestartWatches, ServerTypedAgain DEF Server!LifecycleInv
<1>3. ASSUME \/ Server!MakeServer \/ Server!Listen \/ Server!Fatalf \/ Server!UpdateConfig \/ Server!Watchers
             \/ Server!Shutdown \/ Server!StopServices \/ Server!CloseHTTP \/ Server!Drain \/ Server!Exit
             \/ \E r \in server.Requests : Server!Arrive(r) \/ Server!Answer(r)
             \/ UNCHANGED Server!vars
      PROVE  Server!LifecycleInv'
  BY <1>1, <1>3, OtherKept, OtherDrains, OtherWatches, ServerTypedAgain DEF Server!LifecycleInv
<1>4. "start" \in ServerActors /\ "reload" \in ServerActors /\ "main" \in ServerActors
  BY DEF ServerActors
<1> QED
  BY <1>2, <1>3, <1>4 DEF Server!Next, Server!Start, Server!Finish

\* So it holds of every behaviour that exercises the server.
LEMMA ServerKeeps == Spec => [](part = "server" => Server!LifecycleInv)
<1> DEFINE Inv == part = "server" => Server!LifecycleInv
<1>1. Init => Inv
  BY ServerInit DEF Init
<1>2. Inv /\ [Next]_vars => Inv'
  <2> SUFFICES ASSUME Inv, [Next]_vars, part' = "server" PROVE Server!LifecycleInv'
    OBVIOUS
  <2>1. part = "server" /\ [Server!Next]_(Server!vars)
    BY DEF Next, vars, To9, To8, To7, To6, To5, Server!vars
  <2> QED
    BY <2>1, ServerStep
<1> QED
  BY <1>1, <1>2, PTL DEF Spec

\* Between reloads exactly one watcher runs for a namespace and watches what
\* the configuration says, unless startup, a reload and a shutdown have been at
\* the watchers at the same time (UpdateConfig, startWatchers).
THEOREM WatchersFollow == Spec => []WatchersFollowConfig
<1>1. (part = "server" => Server!LifecycleInv) => WatchersFollowConfig
  <2> SUFFICES ASSUME part = "server", Server!LifecycleInv
               PROVE  Server!TypeOK /\ Server!WatchersFollowConfig
    BY DEF WatchersFollowConfig
  <2>1. Server!WatchInv /\ Server!TypeOK
    BY DEF Server!LifecycleInv
  <2>2. CASE v9.overlap
    BY <2>1, <2>2 DEF Server!WatchersFollowConfig
  <2>3. CASE ~v9.overlap
    <3>1. v8 # "panicked"
      BY <2>1, <2>3, WatchIs
    <3>2. ASSUME v2["start"].pc = "serve", v2["reload"].pc = "idle", v2["main"].pc = "idle"
          PROVE  Server!Cardinality(v4) = 1 /\ \A w \in v4 : w.seen = v1
      <4>1. Server!Settled
        BY <2>1, <2>3, <3>2, WatchIs DEF ServerActors, AtThem
      <4>2. PICK w \in v4 : v4 = {w}
        BY <3>2, <4>1 DEF Server!Settled, Server!Alive
      <4>3. Server!Cardinality(v4) = Cardinality(v4)
        BY DEF Server!Cardinality, Cardinality, Server!IsFiniteSet, IsFiniteSet
      <4> QED
        BY <3>2, <4>1, <4>2, <4>3, FS_Singleton DEF Server!Settled
    <3> QED
      BY <2>1, <3>1, <3>2 DEF Server!WatchersFollowConfig
  <2> QED
    BY <2>2, <2>3
<1> QED
  BY <1>1, ServerKeeps, PTL

\* If main comes to its end within the time it allows, no request is cut off
\* by a Shutdown that found a server to close (CloseHTTP, Drain).
THEOREM RequestsAreDrained == Spec => []DrainsBeforeExit
<1>1. (part = "server" => Server!LifecycleInv) => DrainsBeforeExit
  BY DEF DrainsBeforeExit, Server!LifecycleInv, Server!DrainInv, Server!DrainsBeforeExit
<1> QED
  BY <1>1, ServerKeeps, PTL

----------------------------------------------------------------------------
(* The health checker                                                       *)

CheckStatuses == {"healthy", "degraded", "unhealthy", "unknown"}
CheckRecord == [added : 0..health.MaxAdded, present : BOOLEAN, status : CheckStatuses, since : 0..health.Interval]
RunRecord == [pc : {"free", "running", "answered"}, check : health.Checks \cup {"none"},
              added : 0..health.MaxAdded, age : 0..health.Timeout, ok : BOOLEAN]
NoRun == [pc |-> "free", check |-> "none", added |-> 0, age |-> 0, ok |-> FALSE]
Latest == health.Timeout + health.Interval + 1 + health.Timeout

ChecksKept == v1 \in [health.Checks -> CheckRecord]
RunsKept == v2 \in [health.Runs -> RunRecord]
DownKept == v5 \in [health.Checks -> BOOLEAN] /\ v6 \in [health.Checks -> 0..Latest]
RoutinesKept == v3 \in BOOLEAN /\ v4 \in BOOLEAN

\* The type invariant, part by part.
LEMMA HealthTyped ==
  Health!TypeOK <=> ChecksKept /\ RunsKept /\ DownKept /\ RoutinesKept
BY DEF Health!TypeOK, Health!Statuses, Health!Late, Latest, ChecksKept, RunsKept, DownKept, RoutinesKept,
       CheckStatuses, CheckRecord, RunRecord

\* ... and after a step.
LEMMA HealthTypedAgain ==
  ASSUME ChecksKept', RunsKept', DownKept', RoutinesKept'
  PROVE  Health!TypeOK'
BY DEF Health!TypeOK, Health!Statuses, Health!Late, Latest, ChecksKept, RunsKept, DownKept, RoutinesKept,
       CheckStatuses, CheckRecord, RunRecord

\* What the parameters are.
LEMMA HealthConstants ==
  /\ health.Interval \in Nat \ {0} /\ health.Timeout \in Nat \ {0} /\ health.MaxAdded \in Nat
  /\ Health!Free = NoRun /\ NoRun \in RunRecord /\ NoRun.pc = "free" /\ Health!Late = Latest /\ Latest \in Nat
<1>1. /\ health.Interval \in Nat \ {0} /\ health.Timeout \in Nat \ {0} /\ health.MaxAdded \in Nat
  BY BackgroundAssumption DEF BackgroundAssumption, Health!CheckerAssumption
<1>2. NoRun \in RunRecord /\ NoRun.pc = "free"
  BY <1>1 DEF NoRun, RunRecord
<1> QED
  BY <1>1, <1>2 DEF Health!Free, NoRun, Health!Late, Latest

\* A run that starts is young and has found nothing.
LEMMA StartedIs ==
  ASSUME ChecksKept, NEW c \in health.Checks
  PROVE  /\ Health!Started(c) \in RunRecord /\ Health!Started(c).pc = "running"
         /\ Health!Started(c).check = c /\ Health!Started(c).added = v1[c].added
         /\ Health!Started(c).age = 0
<1>1. v1[c].added \in 0..health.MaxAdded
  BY DEF ChecksKept, CheckRecord
<1>2. Health!Started(c) = [pc |-> "running", check |-> c, added |-> v1[c].added, age |-> 0, ok |-> FALSE]
  BY DEF Health!Started
<1> QED
  BY <1>1, <1>2, HealthConstants DEF RunRecord

\* A step of run i that leaves the components alone: it keeps to what is said of
\* answers if its own answer does.
LEMMA RunMoves ==
  ASSUME RunsKept, Health!AnswersAged, NEW i \in health.Runs, NEW k \in RunRecord,
         v2' = [v2 EXCEPT ![i] = k], UNCHANGED <<v5, v6>>,
         k.pc # "free" => k.check \in health.Checks,
         k.pc = "answered" /\ k.ok => v6[k.check] <= k.age
  PROVE  RunsKept' /\ Health!AnswersAged' /\ \A j \in health.Runs : v2'[j] = IF j = i THEN k ELSE v2[j]
<1>1. \A j \in health.Runs : v2'[j] = IF j = i THEN k ELSE v2[j]
  BY DEF RunsKept
<1> QED
  BY <1>1 DEF RunsKept, Health!AnswersAged

\* A check is added, put back or removed, while runs of it are under way.
LEMMA AddCheckKeeps ==
  ASSUME Health!CheckerInv, NEW c \in health.Checks,
         Health!AddCheck(c) \/ Health!AddAgain(c) \/ Health!RemoveCheck(c)
  PROVE  Health!CheckerInv'
<1>1. ChecksKept /\ RunsKept /\ DownKept /\ RoutinesKept /\ Health!AnswersAged /\ Health!ResultsAged
  BY HealthTyped DEF Health!CheckerInv
<1>2. UNCHANGED <<v2, v3, v4, v5>>
  BY DEF Health!AddCheck, Health!AddAgain, Health!RemoveCheck
<1>3. PICK k \in CheckRecord :
        /\ v1' = [v1 EXCEPT ![c] = k]
        /\ \/ v6' = [v6 EXCEPT ![c] = 0]
           \/ ~k.present /\ v6' = v6
  <2>1. v1[c] \in CheckRecord
    BY <1>1 DEF ChecksKept
  <2>2. CASE Health!AddCheck(c)
    <3>1. PICK status \in CheckStatuses, since \in 0..health.Interval :
            v1' = [v1 EXCEPT ![c] = [added |-> @.added + 1, present |-> TRUE, status |-> status, since |-> since]]
      BY <2>2 DEF Health!AddCheck, Health!Statuses, CheckStatuses
    <3>2. [added |-> v1[c].added + 1, present |-> TRUE, status |-> status, since |-> since] \in CheckRecord
      BY <2>1, <2>2, HealthConstants DEF Health!AddCheck, CheckRecord
    <3> QED
      BY <2>2, <3>1, <3>2 DEF Health!AddCheck
  <2>3. CASE Health!AddAgain(c)
    <3> DEFINE k == [v1[c] EXCEPT !.present = TRUE]
    <3>1. k \in CheckRecord
      BY <2>1 DEF CheckRecord
    <3>2. v1' = [v1 EXCEPT ![c] = k]
      BY <2>3 DEF Health!AddAgain
    <3> QED
      BY <2>3, <3>1, <3>2 DEF Health!AddAgain
  <2>4. CASE Health!RemoveCheck(c)
    <3> DEFINE k == [v1[c] EXCEPT !.present = FALSE]
    <3>1. k \in CheckRecord /\ ~k.present
      BY <2>1 DEF CheckRecord
    <3>2. v1' = [v1 EXCEPT ![c] = k] /\ v6' = v6
      BY <2>4 DEF Health!RemoveCheck
    <3> HIDE DEF k
    <3> QED
      BY <3>1, <3>2
  <2> QED
    BY <2>2, <2>3, <2>4
<1>4. \A d \in health.Checks : v1'[d] = IF d = c THEN k ELSE v1[d]
  BY <1>1, <1>3 DEF ChecksKept
<1>5. ChecksKept'
  BY <1>1, <1>3 DEF ChecksKept
<1>6. DownKept' /\ (k.present => v6'[c] = 0)
      /\ \A d \in health.Checks : v6[d] \in Nat /\ v6'[d] \in {0, v6[d]} /\ (d # c => v6'[d] = v6[d])
  BY <1>1, <1>2, <1>3, HealthConstants DEF DownKept
<1>7. Health!AnswersAged'
  <2>1. \A i \in health.Runs : v2[i].age \in Nat
    BY <1>1 DEF RunsKept, RunRecord
  <2> QED
    BY <1>1, <1>2, <1>6, <2>1 DEF Health!AnswersAged
<1>8. Health!ResultsAged'
  <2> SUFFICES ASSUME NEW d \in health.Checks, v1'[d].present, v1'[d].status = "healthy"
               PROVE  \/ /\ v6'[d] <= health.Timeout + v1'[d].since
                         /\ v1'[d].since < health.Interval \/ v3' \/ v6'[d] = 0
                      \/ \E i \in health.Runs : Health!Judges(i, d)' /\ v6'[d] <= health.Timeout + health.Interval + v2'[i].age
    BY DEF Health!ResultsAged, Health!Present
  <2>1. CASE d = c
    <3>1. v6'[d] = 0 /\ v1'[d].since \in Nat
      BY <1>4, <1>6, <2>1 DEF CheckRecord
    <3> QED
      BY <3>1, HealthConstants
  <2>2. CASE d # c
    <3>1. v1'[d] = v1[d] /\ v6'[d] = v6[d]
      BY <1>4, <1>6, <2>2
    <3>2. \A i \in health.Runs : Health!Judges(i, d) => Health!Judges(i, d)'
      BY <1>2, <3>1 DEF Health!Judges
    <3> QED
      BY <1>1, <1>2, <3>1, <3>2 DEF Health!ResultsAged, Health!Present
  <2> QED
    BY <2>1, <2>2
<1> QED
  BY <1>1, <1>2, <1>5, <1>6, <1>7, <1>8, HealthTypedAgain DEF Health!CheckerInv, RunsKept, RoutinesKept

\* A run starts, or gets its answer.
LEMMA RunCheckKeeps ==
  ASSUME Health!CheckerInv, NEW i \in health.Runs,
         Health!Answer(i) \/ \E c \in health.Checks : Health!RunCheck(c, i)
  PROVE  Health!CheckerInv'
<1>1. ChecksKept /\ RunsKept /\ DownKept /\ RoutinesKept /\ Health!AnswersAged /\ Health!ResultsAged
  BY HealthTyped DEF Health!CheckerInv
<1>2. UNCHANGED <<v1, v3, v4, v5, v6>>
  BY DEF Health!Answer, Health!RunCheck
<1>3. PICK k \in RunRecord :
        /\ v2' = [v2 EXCEPT ![i] = k] /\ k.pc # "free" /\ k.check \in health.Checks
        /\ k.pc = "answered" /\ k.ok => v6[k.check] <= k.age
        /\ v2[i].pc # "free" => k.check = v2[i].check /\ k.added = v2[i].added /\ k.age = v2[i].age
  <2>1. CASE Health!Answer(i)
    <3> DEFINE k == [v2[i] EXCEPT !.pc = "answered", !.ok = v5[v2[i].check]]
    <3>1. v2[i] \in RunRecord /\ v2[i].pc = "running" /\ v2[i].check \in health.Checks
      BY <1>1, <2>1 DEF Health!Answer, RunsKept, Health!AnswersAged
    <3>2. v5[v2[i].check] \in BOOLEAN /\ (v5[v2[i].check] => v6[v2[i].check] = 0)
      BY <1>1, <3>1 DEF DownKept, Health!AnswersAged
    <3>3. /\ k \in RunRecord /\ k.pc = "answered" /\ k.ok = v5[v2[i].check]
          /\ k.check = v2[i].check /\ k.added = v2[i].added /\ k.age = v2[i].age
      BY <3>1, <3>2 DEF RunRecord
    <3>4. v2' = [v2 EXCEPT ![i] = k]
      <4>1. v2' = [v2 EXCEPT ![i].pc = "answered", ![i].ok = v5[v2[i].check]]
        BY <2>1 DEF Health!Answer
      <4>2. v2'[i] = k
        BY <1>1, <3>1, <4>1 DEF RunsKept, RunRecord
      <4> HIDE DEF k
      <4> QED
        BY <1>1, <4>1, <4>2 DEF RunsKept
    <3> HIDE DEF k
    <3>5. 0 <= k.age
      BY <3>3 DEF RunRecord
    <3> QED
      BY <3>1, <3>2, <3>3, <3>4, <3>5
  <2>2. ASSUME NEW c \in health.Checks, Health!RunCheck(c, i)
        PROVE  \E k \in RunRecord :
                 /\ v2' = [v2 EXCEPT ![i] = k] /\ k.pc # "free" /\ k.check \in health.Checks
                 /\ k.pc = "answered" /\ k.ok => v6[k.check] <= k.age
                 /\ v2[i].pc # "free" => k.check = v2[i].check /\ k.added = v2[i].added /\ k.age = v2[i].age
    <3>1. v2' = [v2 EXCEPT ![i] = Health!Started(c)] /\ v2[i].pc = "free"
      BY <2>2 DEF Health!RunCheck
    <3> QED
      BY <1>1, <3>1, StartedIs
  <2> QED
    BY <2>1, <2>2
<1>4. RunsKept' /\ Health!AnswersAged' /\ \A j \in health.Runs : v2'[j] = IF j = i THEN k ELSE v2[j]
  BY <1>1, <1>2, <1>3, RunMoves
<1>5. \A j \in health.Runs, d \in health.Checks : Health!Judges(j, d) => Health!Judges(j, d)' /\ v2'[j].age = v2[j].age
  BY <1>2, <1>3, <1>4 DEF Health!Judges
<1>6. Health!ResultsAged'
  BY <1>1, <1>2, <1>5 DEF Health!ResultsAged, Health!Present
<1> QED
  BY <1>1, <1>2, <1>4, <1>6, HealthTypedAgain DEF Health!CheckerInv, ChecksKept, DownKept, RoutinesKept

\* A run ends: what it records is a failure, or of a component that was up when
\* the run had begun.
LEMMA RunEndKeeps ==
  ASSUME Health!CheckerInv, NEW i \in health.Runs, Health!UpdateCheckStatus(i) \/ Health!TimesOut(i)
  PROVE  Health!CheckerInv'
<1>1. ChecksKept /\ RunsKept /\ DownKept /\ RoutinesKept /\ Health!AnswersAged /\ Health!ResultsAged
  BY HealthTyped DEF Health!CheckerInv
<1> DEFINE c == v2[i].check
<1>2. v2' = [v2 EXCEPT ![i] = NoRun] /\ UNCHANGED <<v3, v4, v5, v6>> /\ v2[i].pc # "free"
  BY HealthConstants DEF Health!UpdateCheckStatus, Health!TimesOut
<1>3. c \in health.Checks /\ v2[i] \in RunRecord
  BY <1>1, <1>2 DEF Health!AnswersAged, RunsKept
<1>4. PICK ok \in BOOLEAN : v1' = Health!Recorded(i, ok) /\ (ok => v6[c] <= v2[i].age)
  BY <1>1, <1>3 DEF Health!UpdateCheckStatus, Health!TimesOut, Health!AnswersAged, RunRecord
<1>5. RunsKept' /\ Health!AnswersAged' /\ \A j \in health.Runs : v2'[j] = IF j = i THEN NoRun ELSE v2[j]
  BY <1>1, <1>2, RunMoves, HealthConstants
<1> DEFINE status == IF ok THEN "healthy" ELSE IF c \in health.Critical THEN "unhealthy" ELSE "degraded"
<1>6. CASE v2[i].added # v1[c].added
  <2>1. v1' = v1
    BY <1>4, <1>6 DEF Health!Recorded
  <2>2. \A j \in health.Runs, d \in health.Checks : Health!Judges(j, d) => j # i
    BY <1>6 DEF Health!Judges
  <2>3. \A j \in health.Runs, d \in health.Checks : Health!Judges(j, d) => Health!Judges(j, d)' /\ v2'[j] = v2[j]
    BY <1>5, <2>1, <2>2 DEF Health!Judges
  <2>4. Health!ResultsAged'
    BY <1>1, <1>2, <2>1, <2>3 DEF Health!ResultsAged, Health!Present
  <2> QED
    BY <1>1, <1>2, <1>5, <2>1, <2>4, HealthTypedAgain DEF Health!CheckerInv, ChecksKept, DownKept, RoutinesKept
<1>7. CASE v2[i].added = v1[c].added
  <2> DEFINE r == [added |-> v1[c].added, present |-> v1[c].present, status |-> status, since |-> 0]
  <2>1. v1[c] \in CheckRecord /\ status \in CheckStatuses /\ 0 \in 0..health.Interval /\ (status = "healthy" => ok)
    BY <1>1, <1>3, HealthConstants DEF ChecksKept, CheckStatuses
  <2>2. v1' = [v1 EXCEPT ![c].status = status, ![c].since = 0]
    BY <1>4, <1>7 DEF Health!Recorded
  <2> HIDE DEF status
  <2>3. v1'[c] = r /\ v1' = [v1 EXCEPT ![c] = r]
    <3>1. v1'[c] = r
      BY <1>1, <1>3, <2>1, <2>2 DEF ChecksKept, CheckRecord
    <3> HIDE DEF r
    <3> QED
      BY <1>1, <1>3, <2>2, <3>1 DEF ChecksKept
  <2>4. r \in CheckRecord /\ r.status = status /\ r.since = 0
    BY <2>1 DEF CheckRecord
  <2> HIDE DEF r
  <2>5. \A d \in health.Checks : v1'[d] = IF d = c THEN r ELSE v1[d]
    BY <1>1, <2>3 DEF ChecksKept
  <2>6. ChecksKept'
    BY <1>1, <2>3, <2>4 DEF ChecksKept
  <2>7. \A j \in health.Runs, d \in health.Checks :
          Health!Judges(j, d) /\ d # c => Health!Judges(j, d)' /\ v2'[j] = v2[j]
    BY <1>5, <2>5 DEF Health!Judges
  <2>8. v1'[c].status = "healthy" => v6'[c] <= health.Timeout + v1'[c].since /\ v1'[c].since < health.Interval
    <3>1. v2[i].age <= health.Timeout /\ v2[i].age \in Nat /\ v6[c] \in Nat /\ 0 < health.Interval
      BY <1>1, <1>3, HealthConstants DEF RunRecord, DownKept
    <3> QED
      BY <1>2, <1>4, <2>1, <2>4, <2>5, <1>3, <3>1, HealthConstants
  <2>9. Health!ResultsAged'
    <3> SUFFICES ASSUME NEW d \in health.Checks, v1'[d].present, v1'[d].status = "healthy"
                 PROVE  \/ /\ v6'[d] <= health.Timeout + v1'[d].since
                           /\ v1'[d].since < health.Interval \/ v3' \/ v6'[d] = 0
                        \/ \E j \in health.Runs : Health!Judges(j, d)' /\ v6'[d] <= health.Timeout + health.Interval + v2'[j].age
      BY DEF Health!ResultsAged, Health!Present
    <3>1. CASE d = c
      BY <2>8, <3>1
    <3>2. CASE d # c
      BY <1>1, <1>2, <2>5, <2>7, <3>2 DEF Health!ResultsAged, Health!Present
    <3> QED
      BY <3>1, <3>2
  <2> QED
    BY <1>1, <1>2, <1>5, <2>6, <2>9, HealthTypedAgain DEF Health!CheckerInv, DownKept, RoutinesKept
<1> QED
  BY <1>6, <1>7

\* A component goes down, or comes up.
LEMMA TurnsKeeps ==
  ASSUME Health!CheckerInv, NEW c \in health.Checks, Health!Turns(c)
  PROVE  Health!CheckerInv'
<1>1. ChecksKept /\ RunsKept /\ DownKept /\ RoutinesKept /\ Health!AnswersAged /\ Health!ResultsAged
  BY HealthTyped DEF Health!CheckerInv
<1>2. /\ v5' = [v5 EXCEPT ![c] = ~@] /\ v6' = [v6 EXCEPT ![c] = 0] /\ UNCHANGED <<v1, v2, v3, v4>>
  BY DEF Health!Turns
<1>3. DownKept' /\ \A d \in health.Checks : v6'[d] = (IF d = c THEN 0 ELSE v6[d]) /\ v6[d] \in Nat
  BY <1>1, <1>2, HealthConstants DEF DownKept
<1>4. \A d \in health.Checks : v6'[d] <= v6[d] /\ v6'[d] \in Nat /\ v6[d] \in Nat
  BY <1>3
<1>5. Health!AnswersAged'
  <2>1. \A d \in health.Checks : v5'[d] => v6'[d] = 0
    BY <1>1, <1>2, <1>3 DEF Health!AnswersAged, DownKept
  <2>2. \A i \in health.Runs : v2[i].age \in Nat
    BY <1>1 DEF RunsKept, RunRecord
  <2> QED
    BY <1>1, <1>2, <1>4, <2>1, <2>2 DEF Health!AnswersAged
<1>6. \A j \in health.Runs, d \in health.Checks : Health!Judges(j, d) => Health!Judges(j, d)'
  BY <1>2 DEF Health!Judges
<1>7. Health!ResultsAged'
  <2> SUFFICES ASSUME NEW d \in health.Checks, v1[d].present, v1[d].status = "healthy"
               PROVE  \/ /\ v6'[d] <= health.Timeout + v1[d].since
                         /\ v1[d].since < health.Interval \/ v3 \/ v6'[d] = 0
                      \/ \E j \in health.Runs : Health!Judges(j, d)' /\ v6'[d] <= health.Timeout + health.Interval + v2[j].age
    BY <1>2 DEF Health!ResultsAged, Health!Present
  <2>1. /\ \A n \in Nat : v6[d] <= n => v6'[d] <= n
        /\ v6[d] = 0 => v6'[d] = 0
    BY <1>4
  <2>2. health.Timeout + v1[d].since \in Nat
    BY <1>1, HealthConstants DEF ChecksKept, CheckRecord
  <2>3. \A j \in health.Runs : health.Timeout + health.Interval + v2[j].age \in Nat
    BY <1>1, HealthConstants DEF RunsKept, RunRecord
  <2> QED
    BY <1>1, <1>6, <2>1, <2>2, <2>3 DEF Health!ResultsAged, Health!Present
<1> QED
  BY <1>1, <1>2, <1>3, <1>5, <1>7, HealthTypedAgain DEF Health!CheckerInv, ChecksKept, RunsKept, RoutinesKept

\* Time passes for the results, the runs that are under way, and the components
\* that are down.
LEMMA TickKeeps ==
  ASSUME Health!CheckerInv, Health!Tick
  PROVE  Health!CheckerInv'
<1>1. ChecksKept /\ RunsKept /\ DownKept /\ RoutinesKept /\ Health!AnswersAged /\ Health!ResultsAged
  BY HealthTyped DEF Health!CheckerInv
<1>2. /\ ~v3 /\ v3' = TRUE /\ UNCHANGED <<v4, v5>> /\ \A i \in health.Runs : v2[i].age < health.Timeout
      /\ v1' = [c \in health.Checks |-> [v1[c] EXCEPT !.since = IF @ = health.Interval THEN @ ELSE @ + 1]]
      /\ v2' = [i \in health.Runs |-> [v2[i] EXCEPT !.age = IF v2[i].pc = "free" THEN 0 ELSE @ + 1]]
      /\ v6' = [c \in health.Checks |-> IF v5[c] THEN 0 ELSE IF v6[c] = Latest THEN Latest ELSE v6[c] + 1]
  BY HealthConstants DEF Health!Tick
<1>3. ASSUME NEW c \in health.Checks
      PROVE  /\ v1'[c] \in CheckRecord /\ v1'[c].added = v1[c].added /\ v1'[c].present = v1[c].present /\ v1'[c].status = v1[c].status
             /\ v1'[c].since = IF v1[c].since = health.Interval THEN health.Interval ELSE v1[c].since + 1
  <2> DEFINE s == IF v1[c].since = health.Interval THEN health.Interval ELSE v1[c].since + 1
  <2>1. v1[c] \in CheckRecord
    BY <1>1, <1>3 DEF ChecksKept
  <2>2. v1'[c] = [v1[c] EXCEPT !.since = s]
    BY <1>2, <1>3
  <2>3. s \in 0..health.Interval
    BY <2>1, HealthConstants DEF CheckRecord
  <2> HIDE DEF s
  <2>4. v1'[c] \in CheckRecord /\ v1'[c].added = v1[c].added /\ v1'[c].present = v1[c].present /\ v1'[c].status = v1[c].status /\ v1'[c].since = s
    BY <2>1, <2>2, <2>3 DEF CheckRecord
  <2> QED
    BY <2>4 DEF s
<1>4. ASSUME NEW i \in health.Runs
      PROVE  /\ v2'[i] \in RunRecord /\ v2'[i].pc = v2[i].pc /\ v2'[i].check = v2[i].check
             /\ v2'[i].added = v2[i].added /\ v2'[i].ok = v2[i].ok
             /\ v2'[i].age = IF v2[i].pc = "free" THEN 0 ELSE v2[i].age + 1
  <2> DEFINE s == IF v2[i].pc = "free" THEN 0 ELSE v2[i].age + 1
  <2>1. v2[i] \in RunRecord /\ v2[i].age < health.Timeout
    BY <1>1, <1>2, <1>4 DEF RunsKept
  <2>2. v2'[i] = [v2[i] EXCEPT !.age = s]
    BY <1>2, <1>4
  <2>3. s \in 0..health.Timeout
    BY <2>1, HealthConstants DEF RunRecord
  <2> HIDE DEF s
  <2>4. /\ v2'[i] \in RunRecord /\ v2'[i].pc = v2[i].pc /\ v2'[i].check = v2[i].check
        /\ v2'[i].added = v2[i].added /\ v2'[i].ok = v2[i].ok /\ v2'[i].age = s
    BY <2>1, <2>2, <2>3 DEF RunRecord
  <2> QED
    BY <2>4 DEF s
<1>5. ASSUME NEW c \in health.Checks
      PROVE  /\ v6'[c] \in 0..Latest /\ v6[c] \in Nat /\ v6'[c] <= v6[c] + 1 /\ (v5[c] => v6'[c] = 0)
  <2>1. v6[c] \in 0..Latest /\ v5[c] \in BOOLEAN
    BY <1>1, <1>5 DEF DownKept
  <2>2. v6'[c] = IF v5[c] THEN 0 ELSE IF v6[c] = Latest THEN Latest ELSE v6[c] + 1
    BY <1>2, <1>5
  <2>3. v5[c] => v6'[c] = 0
    BY <2>2
  <2>4. v6'[c] \in 0..Latest /\ v6[c] \in Nat /\ v6'[c] <= v6[c] + 1
    BY <2>1, <2>2, HealthConstants
  <2> QED
    BY <2>3, <2>4
<1>6. ChecksKept' /\ RunsKept' /\ DownKept' /\ RoutinesKept'
  BY <1>1, <1>2, <1>3, <1>4, <1>5 DEF ChecksKept, RunsKept, DownKept, RoutinesKept
<1>7. Health!AnswersAged'
  <2>1. ASSUME NEW i \in health.Runs, v2'[i].pc = "answered", v2'[i].ok
        PROVE  v6'[v2'[i].check] <= v2'[i].age
    <3>1. v2[i].check \in health.Checks /\ v6[v2[i].check] <= v2[i].age /\ v2[i].age \in Nat
      BY <1>1, <1>4, <2>1 DEF Health!AnswersAged, RunsKept, RunRecord
    <3> QED
      BY <1>4, <1>5, <2>1, <3>1
  <2>2. \A c \in health.Checks : v5'[c] => v6'[c] = 0
    BY <1>2, <1>5
  <2>3. \A i \in health.Runs : v2'[i].pc # "free" => v2'[i].check \in health.Checks
    BY <1>1, <1>4 DEF Health!AnswersAged
  <2> QED
    BY <2>1, <2>2, <2>3 DEF Health!AnswersAged
<1>8. Health!ResultsAged'
  <2> SUFFICES ASSUME NEW d \in health.Checks, v1'[d].present, v1'[d].status = "healthy"
               PROVE  \/ /\ v6'[d] <= health.Timeout + v1'[d].since
                         /\ v1'[d].since < health.Interval \/ v3' \/ v6'[d] = 0
                      \/ \E j \in health.Runs : Health!Judges(j, d)' /\ v6'[d] <= health.Timeout + health.Interval + v2'[j].age
    BY DEF Health!ResultsAged, Health!Present
  <2>1. v1[d].since \in Nat /\ v1[d].since <= health.Interval
    BY <1>1 DEF ChecksKept, CheckRecord
  <2>2. CASE /\ v6[d] <= health.Timeout + v1[d].since
             /\ v1[d].since < health.Interval \/ v6[d] = 0
    <3>1. v6'[d] <= v6[d] + 1 /\ v6[d] \in Nat /\ v6'[d] \in Nat
      BY <1>5, HealthConstants
    <3>2. CASE v1[d].since < health.Interval
      <4>1. v1'[d].since = v1[d].since + 1
        BY <1>3, <2>1, <3>2, HealthConstants
      <4>2. v6'[d] <= health.Timeout + (v1[d].since + 1)
        BY <2>1, <2>2, <3>1, HealthConstants
      <4> QED
        BY <1>2, <4>1, <4>2
    <3>3. CASE v1[d].since = health.Interval
      <4>1. v1'[d].since = health.Interval /\ v6'[d] <= 1
        BY <1>3, <2>2, <3>1, <3>3, HealthConstants
      <4>2. v6'[d] <= health.Timeout + health.Interval
        BY <3>1, <4>1, HealthConstants
      <4> QED
        BY <1>2, <4>1, <4>2
    <3> QED
      BY <2>1, <3>2, <3>3, HealthConstants
  <2>3. ASSUME NEW j \in health.Runs, Health!Judges(j, d), v6[d] <= health.Timeout + health.Interval + v2[j].age
        PROVE  Health!Judges(j, d)' /\ v6'[d] <= health.Timeout + health.Interval + v2'[j].age
    <3>1. v2[j].age \in Nat /\ v2'[j].age = v2[j].age + 1
      BY <1>1, <1>4, <2>3 DEF RunsKept, RunRecord, Health!Judges
    <3>2. Health!Judges(j, d)'
      BY <1>3, <1>4, <2>3 DEF Health!Judges
    <3> QED
      BY <1>5, <2>3, <3>1, <3>2, HealthConstants
  <2> QED
    BY <1>1, <1>2, <1>3, <2>2, <2>3 DEF Health!ResultsAged, Health!Present
<1> QED
  BY <1>6, <1>7, <1>8, HealthTypedAgain DEF Health!CheckerInv

\* The tick is received: every check that is due gets a run of its own.
LEMMA PeriodicKeeps ==
  ASSUME Health!CheckerInv, Health!RunPeriodicChecks
  PROVE  Health!CheckerInv'
<1>1. ChecksKept /\ RunsKept /\ DownKept /\ RoutinesKept /\ Health!AnswersAged /\ Health!ResultsAged
  BY HealthTyped DEF Health!CheckerInv
<1> DEFINE due == {c \in health.Checks : Health!Present(c) /\ v1[c].since = health.Interval}
<1>2. v3' = FALSE /\ UNCHANGED <<v1, v4, v5, v6>>
  BY DEF Health!RunPeriodicChecks
<1>3. PICK room \in [due -> {i \in health.Runs : v2[i].pc = "free"}] :
        /\ \A c, d \in due : c # d => room[c] # room[d]
        /\ v2' = [i \in health.Runs |-> IF \E c \in due : room[c] = i
                                        THEN Health!Started(CHOOSE c \in due : room[c] = i) ELSE v2[i]]
  BY DEF Health!RunPeriodicChecks
<1>4. ASSUME NEW c \in due
      PROVE  room[c] \in health.Runs /\ v2[room[c]].pc = "free" /\ v2'[room[c]] = Health!Started(c)
  <2>1. room[c] \in health.Runs /\ v2[room[c]].pc = "free"
    BY <1>3, <1>4
  <2>2. (CHOOSE d \in due : room[d] = room[c]) = c
    BY <1>3, <1>4
  <2> QED
    BY <1>3, <1>4, <2>1, <2>2
<1>5. \A i \in health.Runs : (\E c \in due : i = room[c]) \/ v2'[i] = v2[i]
  BY <1>3
<1>6. due \subseteq health.Checks
  OBVIOUS
<1>7. \A c \in health.Checks : c \in due <=> v1[c].present /\ v1[c].since = health.Interval
  BY DEF Health!Present
<1> HIDE DEF due
<1>8. RunsKept'
  <2>1. ASSUME NEW i \in health.Runs PROVE v2'[i] \in RunRecord
    <3>1. CASE v2'[i] = v2[i]
      BY <1>1, <3>1 DEF RunsKept
    <3>2. ASSUME NEW c \in due, i = room[c] PROVE v2'[i] \in RunRecord
      BY <1>1, <1>4, <1>6, <3>2, StartedIs
    <3> QED
      BY <1>5, <3>1, <3>2
  <2>2. v2' = [i \in health.Runs |-> v2'[i]]
    BY <1>3
  <2> QED
    BY <2>1, <2>2 DEF RunsKept
<1>9. Health!AnswersAged'
  <2>1. ASSUME NEW i \in health.Runs
        PROVE  /\ v2'[i].pc # "free" => v2'[i].check \in health.Checks
               /\ v2'[i].pc = "answered" /\ v2'[i].ok => v6[v2'[i].check] <= v2'[i].age
    <3>1. CASE v2'[i] = v2[i]
      BY <1>1, <3>1 DEF Health!AnswersAged
    <3>2. ASSUME NEW c \in due, i = room[c]
          PROVE  v2'[i].check \in health.Checks /\ v2'[i].pc = "running"
      BY <1>1, <1>4, <1>6, <3>2, StartedIs
    <3> QED
      BY <1>5, <3>1, <3>2
  <2> QED
    BY <1>1, <1>2, <2>1 DEF Health!AnswersAged
<1>10. Health!ResultsAged'
  <2> SUFFICES ASSUME NEW d \in health.Checks, v1[d].present, v1[d].status = "healthy"
               PROVE  \/ /\ v6[d] <= health.Timeout + v1[d].since
                         /\ v1[d].since < health.Interval \/ v6[d] = 0
                      \/ \E j \in health.Runs : Health!Judges(j, d)' /\ v6[d] <= health.Timeout + health.Interval + v2'[j].age
    BY <1>2 DEF Health!ResultsAged, Health!Present
  <2>1. v1[d].since \in Nat /\ v1[d].since <= health.Interval /\ v6[d] \in Nat
    BY <1>1 DEF ChecksKept, CheckRecord, DownKept
  <2>2. ASSUME NEW j \in health.Runs, Health!Judges(j, d) PROVE Health!Judges(j, d)' /\ v2'[j] = v2[j]
    <3>1. v2'[j] = v2[j]
      BY <1>4, <1>5, <2>2 DEF Health!Judges
    <3> QED
      BY <1>2, <2>2, <3>1 DEF Health!Judges
  <2>3. CASE v6[d] <= health.Timeout + v1[d].since /\ v1[d].since = health.Interval
    <3>1. d \in due
      BY <1>7, <2>3
    <3>2. Health!Judges(room[d], d)' /\ room[d] \in health.Runs /\ v2'[room[d]].age = 0
      BY <1>1, <1>2, <1>4, <3>1, StartedIs DEF Health!Judges
    <3>3. v6[d] <= health.Timeout + health.Interval + 0
      BY <2>1, <2>3, HealthConstants
    <3> QED
      BY <3>2, <3>3
  <2>4. v1[d].since < health.Interval \/ v1[d].since = health.Interval
    BY <2>1, HealthConstants
  <2> QED
    BY <1>1, <2>2, <2>3, <2>4 DEF Health!ResultsAged, Health!Present
<1> QED
  BY <1>1, <1>2, <1>8, <1>9, <1>10, HealthTypedAgain DEF Health!CheckerInv, ChecksKept, DownKept, RoutinesKept

\* No check runs at first.
LEMMA HealthInit == Health!Init => Health!CheckerInv
<1> SUFFICES ASSUME Health!Init PROVE Health!CheckerInv
  OBVIOUS
<1>1. /\ v1 = [c \in health.Checks |-> [added |-> 0, present |-> FALSE, status |-> "unknown", since |-> health.Interval]]
      /\ v2 = [i \in health.Runs |-> NoRun] /\ v3 = FALSE /\ v4 = FALSE
      /\ v5 = [c \in health.Checks |-> TRUE] /\ v6 = [c \in health.Checks |-> 0]
  BY HealthConstants DEF Health!Init
<1>2. ChecksKept
  BY <1>1, HealthConstants DEF ChecksKept, CheckRecord, CheckStatuses
<1>3. RunsKept /\ \A i \in health.Runs : v2[i].pc = "free"
  BY <1>1, HealthConstants DEF RunsKept
<1>4. DownKept
  BY <1>1, HealthConstants DEF DownKept
<1>5. RoutinesKept
  BY <1>1 DEF RoutinesKept
<1>6. Health!AnswersAged
  BY <1>1, <1>3 DEF Health!AnswersAged
<1>7. Health!ResultsAged
  BY <1>1 DEF Health!ResultsAged, Health!Present
<1> QED
  BY <1>2, <1>3, <1>4, <1>5, <1>6, <1>7, HealthTyped DEF Health!CheckerInv

\* Every step keeps the invariant.
LEMMA HealthStep ==
  ASSUME Health!CheckerInv, [Health!Next]_(Health!vars)
  PROVE  Health!CheckerInv'
<1>1. CASE Health!Stop \/ UNCHANGED Health!vars
  <2>1. UNCHANGED <<v1, v2, v3, v5, v6>>
    BY <1>1 DEF Health!Stop, Health!vars
  <2>2. ChecksKept /\ RunsKept /\ DownKept /\ RoutinesKept
    BY HealthTyped DEF Health!CheckerInv
  <2>3. RoutinesKept'
    BY <1>1, <2>2 DEF RoutinesKept, Health!Stop, Health!vars
  <2>4. Health!AnswersAged' /\ Health!ResultsAged'
    BY <2>1 DEF Health!CheckerInv, Health!AnswersAged, Health!ResultsAged, Health!Present, Health!Judges
  <2> QED
    BY <2>1, <2>2, <2>3, <2>4, HealthTypedAgain DEF Health!CheckerInv, ChecksKept, RunsKept, DownKept
<1> QED
  BY <1>1, AddCheckKeeps, RunCheckKeeps, RunEndKeeps, TurnsKeeps, TickKeeps, PeriodicKeeps DEF Health!Next

\* Runs of one check overlap, answer late or never, and an old result may
\* replace a newer one, checks are removed, replaced and put back meanwhile, and
\* a new one comes with the status its caller gives it; still nothing is shown
\* healthy that has been down, and watched, for an interval, a tick and two
\* timeouts (AddCheck, RemoveCheck, runCheck, runPeriodicChecks).
THEOREM DownComponentsAreNoticed == Spec => []DownIsNoticed
<1> DEFINE Inv == part = "health" => Health!CheckerInv
<1>1. Init => Inv
  BY HealthInit DEF Init
<1>2. Inv /\ [Next]_vars => Inv'
  <2> SUFFICES ASSUME Inv, [Next]_vars, part' = "health" PROVE Health!CheckerInv'
    OBVIOUS
  <2>1. part = "health" /\ [Health!Next]_(Health!vars)
    BY DEF Next, vars, To9, To8, To7, To6, To5, Health!vars
  <2> QED
    BY <2>1, HealthStep
<1>3. Inv => DownIsNoticed
  <2> SUFFICES ASSUME part = "health", Health!CheckerInv PROVE Health!TypeOK /\ Health!DownIsNoticed
    BY DEF DownIsNoticed
  <2>1. ChecksKept /\ RunsKept /\ DownKept /\ Health!ResultsAged
    BY HealthTyped DEF Health!CheckerInv
  <2>2. ASSUME NEW c \in health.Checks, Health!Present(c), v6[c] = Latest, v1[c].status = "healthy"
        PROVE  FALSE
    <3>1. v1[c].since \in Nat /\ v1[c].since <= health.Interval
      BY <2>1 DEF ChecksKept, CheckRecord
    <3>2. \A i \in health.Runs : v2[i].age \in Nat /\ v2[i].age <= health.Timeout
      BY <2>1 DEF RunsKept, RunRecord
    <3>3. \/ v6[c] <= health.Timeout + v1[c].since
          \/ \E i \in health.Runs : v6[c] <= health.Timeout + health.Interval + v2[i].age
      BY <2>1, <2>2 DEF Health!ResultsAged
    <3> QED
      BY <2>2, <3>1, <3>2, <3>3, HealthConstants DEF Latest
  <2> QED
    BY <2>2, HealthConstants DEF Health!CheckerInv, Health!DownIsNoticed
<1> QED
  BY <1>1, <1>2, <1>3, PTL DEF Spec

----------------------------------------------------------------------------
(* The job scheduler                                                        *)

JobRecord == [enabled : BOOLEAN, due : 0..scheduler.Schedule + 1, retries : 0..scheduler.MaxRetries]
ExecPCs == {"free", "begin", "handler", "end", "update"}
ExecRecord == [pc : ExecPCs, job : scheduler.Objects \cup {0}, aged : BOOLEAN, failed : BOOLEAN]
NoExec == [pc |-> "free", job |-> 0, aged |-> FALSE, failed |-> FALSE]
LoopRecord == [pc : {"wait", "start", "ended"}, found : SUBSET scheduler.Objects]

JobsKept ==
  /\ DOMAIN v1 \subseteq scheduler.Names /\ \A n \in DOMAIN v1 : v1[n] \in DOMAIN v2
  /\ DOMAIN v2 \subseteq scheduler.Objects /\ \A o \in DOMAIN v2 : v2[o] \in JobRecord
ExecsKept == v3 \in [scheduler.Executions -> ExecRecord]
LoopKept == v4 \in BOOLEAN /\ v5 \in LoopRecord
CallsKept == v6 \in {"no", "stopping", "stopped"} /\ v7 \in 0..scheduler.MaxCalls

\* The type invariant, part by part.
LEMMA SchedulerTyped == Scheduler!TypeOK <=> JobsKept /\ ExecsKept /\ LoopKept /\ CallsKept
BY DEF Scheduler!TypeOK, Scheduler!Job, JobsKept, ExecsKept, LoopKept, CallsKept, JobRecord, ExecRecord,
       ExecPCs, LoopRecord

\* ... and after a step.
LEMMA SchedulerTypedAgain ==
  ASSUME JobsKept', ExecsKept', LoopKept', CallsKept'
  PROVE  Scheduler!TypeOK'
BY DEF Scheduler!TypeOK, Scheduler!Job, JobsKept, ExecsKept, LoopKept, CallsKept, JobRecord, ExecRecord,
       ExecPCs, LoopRecord

\* What the parameters are.
LEMMA SchedulerConstants ==
  /\ scheduler.Objects \subseteq Nat \ {0} /\ scheduler.Schedule \in Nat \ {0}
  /\ scheduler.MaxRetries \in Nat /\ scheduler.MaxCalls \in Nat
  /\ Scheduler!Free = NoExec /\ NoExec \in ExecRecord /\ NoExec.pc = "free"
<1>1. /\ scheduler.Objects \subseteq Nat \ {0} /\ scheduler.Schedule \in Nat \ {0}
      /\ scheduler.MaxRetries \in Nat /\ scheduler.MaxCalls \in Nat
  BY BackgroundAssumption DEF BackgroundAssumption, Scheduler!SchedulerAssumption
<1>2. NoExec \in ExecRecord /\ NoExec.pc = "free"
  BY DEF NoExec, ExecRecord, ExecPCs
<1> QED
  BY <1>1, <1>2 DEF Scheduler!Free, NoExec

\* What becomes of the jobs' records stays a record.
LEMMA JobsTyped ==
  ASSUME NEW job \in JobRecord, NEW failed \in BOOLEAN
  PROVE  /\ Scheduler!New \in JobRecord
         /\ [job EXCEPT !.enabled = failed] \in JobRecord
         /\ [[job EXCEPT !.enabled = TRUE] EXCEPT !.due = Scheduler!Later] \in JobRecord
         /\ [job EXCEPT !.due = IF @ = 0 THEN 0 ELSE @ - 1] \in JobRecord
         /\ \A soon \in Scheduler!Soon : Scheduler!Rescheduled(job, failed, soon) \in JobRecord
<1>1. scheduler.Schedule \in Nat /\ 0 \in 0..scheduler.MaxRetries /\ Scheduler!Soon \subseteq 0..scheduler.Schedule + 1
      /\ scheduler.Schedule + 1 \in 0..scheduler.Schedule + 1 /\ Scheduler!Later = scheduler.Schedule + 1
  BY SchedulerConstants DEF Scheduler!Later, Scheduler!Soon
<1>2. Scheduler!New \in JobRecord
  BY <1>1 DEF Scheduler!New, JobRecord
<1>3. \A d \in 0..scheduler.Schedule + 1 : [job EXCEPT !.due = d] \in JobRecord
  BY DEF JobRecord
<1>4. /\ [job EXCEPT !.enabled = failed] \in JobRecord
      /\ \A d \in 0..scheduler.Schedule + 1 : [[job EXCEPT !.enabled = TRUE] EXCEPT !.due = d] \in JobRecord
  BY DEF JobRecord
<1>5. (IF job.due = 0 THEN 0 ELSE job.due - 1) \in 0..scheduler.Schedule + 1
  BY <1>1 DEF JobRecord
<1>6. ASSUME NEW soon \in Scheduler!Soon PROVE Scheduler!Rescheduled(job, failed, soon) \in JobRecord
  <2>1. \A d \in 0..scheduler.Schedule + 1, r \in 0..scheduler.MaxRetries :
          [job EXCEPT !.due = d, !.retries = r] \in JobRecord
    BY DEF JobRecord
  <2>2. job.retries < scheduler.MaxRetries => job.retries + 1 \in 0..scheduler.MaxRetries
    BY SchedulerConstants DEF JobRecord
  <2>3. CASE ~failed
    BY <1>1, <2>1, <2>3 DEF Scheduler!Rescheduled
  <2>4. CASE failed /\ job.retries < scheduler.MaxRetries
    <3>1. Scheduler!Rescheduled(job, failed, soon) = [job EXCEPT !.due = soon, !.retries = job.retries + 1]
      BY <2>4 DEF Scheduler!Rescheduled
    <3>2. soon \in 0..scheduler.Schedule + 1 /\ job.retries + 1 \in 0..scheduler.MaxRetries
      BY <1>1, <1>6, <2>2, <2>4
    <3> QED
      BY <2>1, <3>1, <3>2
  <2>5. CASE failed /\ ~(job.retries < scheduler.MaxRetries)
    <3>1. Scheduler!Rescheduled(job, failed, soon) = [job EXCEPT !.due = Scheduler!Later]
      BY <2>5 DEF Scheduler!Rescheduled
    <3> QED
      BY <1>1, <1>3, <3>1
  <2> QED
    BY <2>3, <2>4, <2>5
<1> QED
  BY <1>1, <1>2, <1>3, <1>4, <1>5, <1>6

\* The calls that change the jobs leave the executions and the loop alone.
LEMMA CallsKeep ==
  ASSUME Scheduler!SchedulerInv, NEW n \in scheduler.Names,
         Scheduler!AddJob(n) \/ Scheduler!RemoveJob(n) \/ Scheduler!EnableJob(n) \/ Scheduler!DisableJob(n)
  PROVE  Scheduler!SchedulerInv'
<1>1. JobsKept /\ ExecsKept /\ LoopKept /\ CallsKept
  BY SchedulerTyped DEF Scheduler!SchedulerInv
<1>2. UNCHANGED <<v3, v4, v5, v6>>
  BY DEF Scheduler!AddJob, Scheduler!RemoveJob, Scheduler!EnableJob, Scheduler!DisableJob
<1>3. Scheduler!YoungApart'
  BY <1>2 DEF Scheduler!SchedulerInv, Scheduler!YoungApart, Scheduler!Young
<1>4. v7' \in 0..scheduler.MaxCalls
  BY <1>1, SchedulerConstants DEF Scheduler!AddJob, Scheduler!RemoveJob, Scheduler!EnableJob, Scheduler!DisableJob,
     Scheduler!Called, CallsKept
<1>5. JobsKept'
  <2>1. CASE Scheduler!AddJob(n)
    <3>1. PICK o \in scheduler.Objects \ DOMAIN v2 :
            /\ v1' = [m \in DOMAIN v1 \cup {n} |-> IF m = n THEN o ELSE v1[m]]
            /\ v2' = [p \in DOMAIN v2 \cup {o} |-> IF p = o THEN Scheduler!New ELSE v2[p]]
      BY <2>1 DEF Scheduler!AddJob
    <3>2. Scheduler!New \in JobRecord
      BY SchedulerConstants DEF Scheduler!New, Scheduler!Later, JobRecord
    <3> QED
      BY <1>1, <3>1, <3>2 DEF JobsKept
  <2>2. CASE Scheduler!RemoveJob(n)
    BY <1>1, <2>2 DEF Scheduler!RemoveJob, JobsKept
  <2>3. CASE Scheduler!EnableJob(n)
    <3>1. v1' = v1 /\ n \in DOMAIN v1
          /\ v2' = [v2 EXCEPT ![v1[n]].enabled = TRUE, ![v1[n]].due = Scheduler!Later]
      BY <2>3 DEF Scheduler!EnableJob
    <3>2. v1[n] \in DOMAIN v2 /\ v2[v1[n]] \in JobRecord
      BY <1>1, <3>1 DEF JobsKept
    <3>3. /\ DOMAIN v2' = DOMAIN v2 /\ \A o \in DOMAIN v2 \ {v1[n]} : v2'[o] = v2[o]
          /\ v2'[v1[n]] = [[v2[v1[n]] EXCEPT !.enabled = TRUE] EXCEPT !.due = Scheduler!Later]
      BY <3>1, <3>2
    <3> QED
      BY <1>1, <3>1, <3>2, <3>3, JobsTyped DEF JobsKept
  <2>4. CASE Scheduler!DisableJob(n)
    <3>1. v1' = v1 /\ n \in DOMAIN v1 /\ v2' = [v2 EXCEPT ![v1[n]].enabled = FALSE]
      BY <2>4 DEF Scheduler!DisableJob
    <3>2. v1[n] \in DOMAIN v2 /\ v2[v1[n]] \in JobRecord
      BY <1>1, <3>1 DEF JobsKept
    <3>3. /\ DOMAIN v2' = DOMAIN v2 /\ \A o \in DOMAIN v2 \ {v1[n]} : v2'[o] = v2[o]
          /\ v2'[v1[n]] = [v2[v1[n]] EXCEPT !.enabled = FALSE]
      BY <3>1, <3>2
    <3> QED
      BY <1>1, <3>1, <3>2, <3>3, JobsTyped DEF JobsKept
  <2> QED
    BY <2>1, <2>2, <2>3, <2>4
<1> QED
  BY <1>1, <1>2, <1>3, <1>4, <1>5, SchedulerTypedAgain
  DEF Scheduler!SchedulerInv, ExecsKept, LoopKept, CallsKept

\* Whatever is under way has outlasted the tick.
LEMMA SchedulerTickKeeps ==
  ASSUME Scheduler!SchedulerInv, Scheduler!Tick
  PROVE  Scheduler!SchedulerInv'
<1>1. JobsKept /\ ExecsKept /\ LoopKept /\ CallsKept
  BY SchedulerTyped DEF Scheduler!SchedulerInv
<1>2. /\ v5.pc = "wait" /\ v4' = TRUE /\ UNCHANGED <<v1, v5, v6, v7>>
      /\ v2' = [o \in DOMAIN v2 |-> [v2[o] EXCEPT !.due = IF @ = 0 THEN 0 ELSE @ - 1]]
      /\ v3' = [e \in scheduler.Executions |-> [v3[e] EXCEPT !.aged = v3[e].pc # "free"]]
  BY DEF Scheduler!Tick
<1>3. ASSUME NEW e \in scheduler.Executions
      PROVE  /\ v3'[e] \in ExecRecord /\ v3'[e].pc = v3[e].pc /\ (v3'[e].pc # "free" => v3'[e].aged)
  <2> DEFINE b == v3[e].pc # "free"
  <2>1. v3[e] \in ExecRecord /\ v3'[e] = [v3[e] EXCEPT !.aged = b] /\ b \in BOOLEAN
    BY <1>1, <1>2, <1>3 DEF ExecsKept
  <2>2. v3[e].pc # "free" => b
    OBVIOUS
  <2> HIDE DEF b
  <2>3. v3'[e] \in ExecRecord /\ v3'[e].pc = v3[e].pc
    BY <2>1 DEF ExecRecord
  <2>4. v3'[e].aged = b
    BY <2>1 DEF ExecRecord
  <2> QED
    BY <2>2, <2>3, <2>4
<1>4. JobsKept' /\ ExecsKept'
  <2>1. \A o \in DOMAIN v2 : v2'[o] \in JobRecord
    BY <1>1, <1>2, JobsTyped DEF JobsKept
  <2> QED
    BY <1>1, <1>2, <1>3, <2>1 DEF JobsKept, ExecsKept
<1>5. Scheduler!YoungApart'
  BY <1>2, <1>3 DEF Scheduler!SchedulerInv, Scheduler!YoungApart, Scheduler!Young
<1> QED
  BY <1>1, <1>2, <1>4, <1>5, SchedulerTypedAgain DEF Scheduler!SchedulerInv, LoopKept, CallsKept

\* A tick is received when nothing young is under way.
LEMMA CheckKeeps ==
  ASSUME Scheduler!SchedulerInv, Scheduler!Check
  PROVE  Scheduler!SchedulerInv'
<1>1. JobsKept /\ ExecsKept /\ LoopKept /\ CallsKept
  BY SchedulerTyped DEF Scheduler!SchedulerInv
<1>2. /\ v4 /\ v4' = FALSE /\ UNCHANGED <<v1, v2, v3, v6, v7>>
      /\ v5' = [pc |-> IF Scheduler!Due = {} THEN "wait" ELSE "start", found |-> Scheduler!Due]
  BY DEF Scheduler!Check
<1>3. Scheduler!Due \subseteq scheduler.Objects
  BY <1>1 DEF Scheduler!Due, JobsKept
<1>4. LoopKept'
  BY <1>2, <1>3 DEF LoopKept, LoopRecord
<1>5. \A e \in scheduler.Executions : ~Scheduler!Young(e)'
  BY <1>2 DEF Scheduler!SchedulerInv, Scheduler!YoungApart, Scheduler!Young
<1>6. Scheduler!YoungApart'
  BY <1>2, <1>5 DEF Scheduler!YoungApart
<1> QED
  BY <1>1, <1>2, <1>4, <1>6, SchedulerTypedAgain DEF Scheduler!SchedulerInv, JobsKept, ExecsKept, CallsKept

\* A job that was found is started once.
LEMMA StartKeeps ==
  ASSUME Scheduler!SchedulerInv, NEW e \in scheduler.Executions, Scheduler!Start(e)
  PROVE  Scheduler!SchedulerInv'
<1>1. JobsKept /\ ExecsKept /\ LoopKept /\ CallsKept /\ Scheduler!YoungApart
  BY SchedulerTyped DEF Scheduler!SchedulerInv
<1>2. PICK o \in v5.found :
        /\ v3' = [v3 EXCEPT ![e] = [Scheduler!Free EXCEPT !.pc = "begin", !.job = o]]
        /\ v5' = [pc |-> IF v5.found = {o} THEN "wait" ELSE "start", found |-> v5.found \ {o}]
  BY DEF Scheduler!Start
<1>3. v5.pc = "start" /\ v3[e].pc = "free" /\ UNCHANGED <<v1, v2, v4, v6, v7>>
  BY DEF Scheduler!Start
<1> DEFINE k == [Scheduler!Free EXCEPT !.pc = "begin", !.job = o]
<1>4. o \in scheduler.Objects /\ v5.found \subseteq scheduler.Objects
  BY <1>1, <1>2 DEF LoopKept, LoopRecord
<1>5. k \in ExecRecord /\ k.job = o
  BY <1>4, SchedulerConstants DEF NoExec, ExecRecord, ExecPCs
<1>6. v3' = [v3 EXCEPT ![e] = k]
  BY <1>2
<1> HIDE DEF k
<1>7. \A f \in scheduler.Executions : v3'[f] = IF f = e THEN k ELSE v3[f]
  BY <1>1, <1>6 DEF ExecsKept
<1>8. ExecsKept'
  BY <1>1, <1>5, <1>6 DEF ExecsKept
<1>9. LoopKept' /\ v5'.found = v5.found \ {o} /\ (v5'.pc # "start" => v5'.found = {}) /\ v5'.pc \in {"wait", "start"}
  BY <1>1, <1>2, <1>3, <1>4 DEF LoopKept, LoopRecord
<1>10. ASSUME NEW f \in scheduler.Executions, Scheduler!Young(f)'
       PROVE  v3'[f].job \notin v5'.found /\ (f = e \/ (Scheduler!Young(f) /\ v3'[f].job = v3[f].job /\ v3[f].job # o))
  <2>1. CASE f = e
    BY <1>5, <1>7, <1>9, <2>1
  <2>2. CASE f # e
    <3>1. v3'[f] = v3[f] /\ Scheduler!Young(f)
      BY <1>7, <1>10, <2>2 DEF Scheduler!Young
    <3>2. v3[f].job \notin v5.found
      BY <1>1, <3>1 DEF Scheduler!YoungApart
    <3> QED
      BY <1>2, <1>9, <2>2, <3>1, <3>2
  <2> QED
    BY <2>1, <2>2
<1>11. ~v4
  BY <1>1, <1>3 DEF Scheduler!YoungApart
<1>12. ASSUME NEW f \in scheduler.Executions, NEW g \in scheduler.Executions,
              Scheduler!Young(f)', Scheduler!Young(g)', v3'[f].job = v3'[g].job
       PROVE  f = g
  <2>1. v3'[e].job = o
    BY <1>5, <1>7
  <2>2. CASE f = e \/ g = e
    BY <1>10, <1>12, <2>1, <2>2
  <2>3. CASE f # e /\ g # e
    BY <1>1, <1>10, <1>12, <2>3 DEF Scheduler!YoungApart
  <2> QED
    BY <2>2, <2>3
<1>13. Scheduler!YoungApart'
  BY <1>3, <1>9, <1>10, <1>11, <1>12 DEF Scheduler!YoungApart
<1> QED
  BY <1>1, <1>3, <1>8, <1>9, <1>13, SchedulerTypedAgain DEF Scheduler!SchedulerInv, JobsKept, CallsKept

\* An execution keeps its job and its age until it ends.
LEMMA ExecuteKeeps ==
  ASSUME Scheduler!SchedulerInv, NEW e \in scheduler.Executions, Scheduler!executeJob(e)
  PROVE  Scheduler!SchedulerInv'
<1>1. JobsKept /\ ExecsKept /\ LoopKept /\ CallsKept /\ Scheduler!YoungApart
  BY SchedulerTyped DEF Scheduler!SchedulerInv
<1>2. UNCHANGED <<v1, v4, v5, v6, v7>> /\ v3[e].pc # "free" /\ v3[e] \in ExecRecord
  BY <1>1 DEF Scheduler!executeJob, Scheduler!Begin, Scheduler!Handler, Scheduler!End, Scheduler!Update, ExecsKept
<1>3. PICK k \in ExecRecord :
        /\ v3' = [v3 EXCEPT ![e] = k]
        /\ (k.pc = "free" \/ (k.job = v3[e].job /\ k.aged = v3[e].aged))
  <2>1. CASE Scheduler!Begin(e) \/ Scheduler!End(e)
    <3>1. PICK pc \in {"handler", "update"} : v3' = [v3 EXCEPT ![e] = [@ EXCEPT !.pc = pc]] \/ v3' = [v3 EXCEPT ![e] = NoExec]
      BY <2>1, SchedulerConstants DEF Scheduler!Begin, Scheduler!End
    <3>2. /\ [v3[e] EXCEPT !.pc = pc] \in ExecRecord /\ [v3[e] EXCEPT !.pc = pc].job = v3[e].job
          /\ [v3[e] EXCEPT !.pc = pc].aged = v3[e].aged
      BY <1>2 DEF ExecRecord, ExecPCs
    <3> QED
      BY <3>1, <3>2, SchedulerConstants
  <2>2. CASE Scheduler!Handler(e)
    <3>1. PICK failed \in BOOLEAN : v3' = [v3 EXCEPT ![e].pc = "end", ![e].failed = failed]
      BY <2>2 DEF Scheduler!Handler
    <3> DEFINE k == [v3[e] EXCEPT !.pc = "end", !.failed = failed]
    <3>2. k \in ExecRecord /\ k.job = v3[e].job /\ k.aged = v3[e].aged
      BY <1>2 DEF ExecRecord, ExecPCs
    <3>3. v3'[e] = k
      BY <1>1, <1>2, <3>1 DEF ExecsKept, ExecRecord
    <3> HIDE DEF k
    <3>4. v3' = [v3 EXCEPT ![e] = k]
      BY <1>1, <3>1, <3>3 DEF ExecsKept
    <3> QED
      BY <3>2, <3>4
  <2>3. CASE Scheduler!Update(e)
    BY <2>3, SchedulerConstants DEF Scheduler!Update
  <2> QED
    BY <2>1, <2>2, <2>3 DEF Scheduler!executeJob
<1>4. ExecsKept' /\ \A f \in scheduler.Executions : v3'[f] = IF f = e THEN k ELSE v3[f]
  <2>1. v3 \in [scheduler.Executions -> ExecRecord] /\ v3' = [v3 EXCEPT ![e] = k]
    BY <1>1, <1>3 DEF ExecsKept
  <2>2. v3' \in [scheduler.Executions -> ExecRecord]
    BY <2>1
  <2> QED
    BY <2>1, <2>2 DEF ExecsKept
<1>5. \A f \in scheduler.Executions : Scheduler!Young(f)' => Scheduler!Young(f) /\ v3'[f].job = v3[f].job
  BY <1>2, <1>3, <1>4 DEF Scheduler!Young
<1>6. Scheduler!YoungApart'
  <2>1. /\ v4 => \A f \in scheduler.Executions : ~Scheduler!Young(f)
        /\ v5.pc = "start" => ~v4
        /\ v5.pc # "start" => v5.found = {}
        /\ \A f \in scheduler.Executions : Scheduler!Young(f) => v3[f].job \notin v5.found
        /\ \A f, g \in scheduler.Executions :
             Scheduler!Young(f) /\ Scheduler!Young(g) /\ v3[f].job = v3[g].job => f = g
    BY <1>1 DEF Scheduler!YoungApart
  <2> QED
    BY <1>2, <1>5, <2>1 DEF Scheduler!YoungApart
<1>7. JobsKept'
  <2>1. CASE v2' = v2
    BY <1>1, <1>2, <2>1 DEF JobsKept
  <2>2. CASE Scheduler!Update(e)
    <3> DEFINE o == v3[e].job
    <3>1. PICK soon \in Scheduler!Soon : v2' = [v2 EXCEPT ![o] = Scheduler!Rescheduled(v2[o], v3[e].failed, soon)]
      BY <2>2 DEF Scheduler!Update
    <3>2. v3[e].failed \in BOOLEAN
      BY <1>2 DEF ExecRecord
    <3>3. DOMAIN v2' = DOMAIN v2
          /\ \A p \in DOMAIN v2 : v2'[p] = IF p = o THEN Scheduler!Rescheduled(v2[o], v3[e].failed, soon) ELSE v2[p]
      BY <3>1
    <3>4. o \in DOMAIN v2 => Scheduler!Rescheduled(v2[o], v3[e].failed, soon) \in JobRecord
      BY <1>1, <3>2, JobsTyped DEF JobsKept
    <3> QED
      BY <1>1, <1>2, <3>3, <3>4 DEF JobsKept
  <2> QED
    BY <2>1, <2>2 DEF Scheduler!executeJob, Scheduler!Begin, Scheduler!Handler, Scheduler!End
<1> QED
  BY <1>1, <1>2, <1>4, <1>6, <1>7, SchedulerTypedAgain DEF Scheduler!SchedulerInv, LoopKept, CallsKept

\* Stopping, and the end of the loop, start no execution.
LEMMA SchedulerRest ==
  ASSUME Scheduler!SchedulerInv,
         Scheduler!LoopEnds \/ Scheduler!StopBegins \/ Scheduler!StopClears \/ UNCHANGED Scheduler!vars
  PROVE  Scheduler!SchedulerInv'
<1>1. JobsKept /\ ExecsKept /\ LoopKept /\ CallsKept /\ Scheduler!YoungApart
  BY SchedulerTyped DEF Scheduler!SchedulerInv
<1>2. /\ UNCHANGED <<v2, v3, v4, v7>>
      /\ v5' = v5 \/ (v5.pc = "wait" /\ v5' = [pc |-> "ended", found |-> {}])
      /\ v1' = v1 \/ v1' = <<>>
      /\ v6' \in {v6, "stopping", "stopped"}
  BY DEF Scheduler!LoopEnds, Scheduler!StopBegins, Scheduler!StopClears, Scheduler!vars
<1>3. DOMAIN <<>> = {}
  OBVIOUS
<1>4. JobsKept' /\ ExecsKept' /\ CallsKept'
  BY <1>1, <1>2, <1>3 DEF JobsKept, ExecsKept, CallsKept
<1>5. LoopKept'
  BY <1>1, <1>2 DEF LoopKept, LoopRecord
<1>6. Scheduler!YoungApart'
  BY <1>1, <1>2 DEF Scheduler!YoungApart, Scheduler!Young
<1> QED
  BY <1>4, <1>5, <1>6, SchedulerTypedAgain DEF Scheduler!SchedulerInv

\* Nothing is scheduled at first.
LEMMA SchedulerInit == Scheduler!Init => Scheduler!SchedulerInv
<1> SUFFICES ASSUME Scheduler!Init PROVE Scheduler!SchedulerInv
  OBVIOUS
<1>1. /\ v1 = <<>> /\ v2 = <<>> /\ v3 = [e \in scheduler.Executions |-> NoExec]
      /\ v4 = FALSE /\ v5 = [pc |-> "wait", found |-> {}] /\ v6 = "no" /\ v7 = 0
  BY SchedulerConstants DEF Scheduler!Init
<1>2. DOMAIN <<>> = {}
  OBVIOUS
<1>3. JobsKept
  BY <1>1, <1>2 DEF JobsKept
<1>4. ExecsKept /\ \A e \in scheduler.Executions : ~Scheduler!Young(e)
  BY <1>1, SchedulerConstants DEF ExecsKept, Scheduler!Young
<1>5. LoopKept /\ CallsKept
  <2>1. v4 \in BOOLEAN /\ v5 \in LoopRecord
    BY <1>1 DEF LoopRecord
  <2>2. v7 \in 0..scheduler.MaxCalls
    BY <1>1, SchedulerConstants
  <2> QED
    BY <1>1, <2>1, <2>2 DEF LoopKept, CallsKept
<1>6. Scheduler!YoungApart
  BY <1>1, <1>4 DEF Scheduler!YoungApart
<1> QED
  BY <1>3, <1>4, <1>5, <1>6, SchedulerTyped DEF Scheduler!SchedulerInv

\* Of what is all the same there is at most one.
LEMMA AtMostOneYoung ==
  ASSUME NEW S, \A e, f \in S : e = f
  PROVE  Scheduler!Cardinality(S) <= 1
<1>1. Scheduler!Cardinality(S) = Cardinality(S)
  BY DEF Scheduler!Cardinality, Cardinality, Scheduler!IsFiniteSet, IsFiniteSet
<1>2. CASE S = {}
  BY <1>1, <1>2, FS_EmptySet
<1>3. CASE \E e \in S : TRUE
  <2>1. PICK e \in S : S = {e}
    BY <1>3
  <2> QED
    BY <1>1, <2>1, FS_Singleton
<1> QED
  BY <1>2, <1>3

\* Two executions of a job overlap only where the older one has outlasted a
\* tick, whatever is enabled, disabled, removed and added again meanwhile
\* (checkAndRunJobs, executeJob).
THEOREM OverlapsAreSlow == Spec => []OverlapMeansSlow
<1> DEFINE Inv == part = "scheduler" => Scheduler!SchedulerInv
<1>1. Init => Inv
  BY SchedulerInit DEF Init
<1>2. Inv /\ [Next]_vars => Inv'
  <2> SUFFICES ASSUME Inv, [Next]_vars, part' = "scheduler" PROVE Scheduler!SchedulerInv'
    OBVIOUS
  <2>1. part = "scheduler" /\ [Scheduler!Next]_(Scheduler!vars)
    BY DEF Next, vars, To9, To8, To7, To6, To5, Scheduler!vars
  <2> QED
    BY <2>1, CallsKeep, SchedulerTickKeeps, CheckKeeps, StartKeeps, ExecuteKeeps, SchedulerRest
    DEF Scheduler!Next, Scheduler!Loop
<1>3. Inv => OverlapMeansSlow
  <2> SUFFICES ASSUME part = "scheduler", Scheduler!SchedulerInv
               PROVE  Scheduler!TypeOK /\ Scheduler!OverlapMeansSlow
    BY DEF OverlapMeansSlow
  <2>1. ASSUME NEW o \in DOMAIN v2
        PROVE  Scheduler!Cardinality({e \in Scheduler!UnderWay(o) : ~v3[e].aged}) <= 1
    <3> DEFINE S == {e \in Scheduler!UnderWay(o) : ~v3[e].aged}
    <3>1. \A e, f \in S : e = f
      BY DEF Scheduler!UnderWay, Scheduler!SchedulerInv, Scheduler!YoungApart, Scheduler!Young
    <3> HIDE DEF S
    <3>2. Scheduler!Cardinality(S) <= 1
      BY <3>1, AtMostOneYoung
    <3> QED
      BY <3>2 DEF S
  <2> QED
    BY <2>1 DEF Scheduler!SchedulerInv, Scheduler!OverlapMeansSlow
<1> QED
  BY <1>1, <1>2, <1>3, PTL DEF Spec
=============================================================================
