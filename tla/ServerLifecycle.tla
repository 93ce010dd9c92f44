-------------------------- MODULE ServerLifecycle --------------------------
(***************************************************************************)
(* The life of the server process: main's goroutine that runs Server.Start, *)
(* the goroutine that reloads the configuration, and main itself, which     *)
(* waits for a signal and runs Server.Shutdown.  Each of them (re)starts or *)
(* stops the client's watchers, whose fields no mutex protects.  The        *)
(* boot-once watcher of one namespace stands for all, which have the same   *)
(* code: a generation is a context with its cancel function, and a          *)
(* goroutine reads the context field when it runs, not when it is created.  *)
(***************************************************************************)
EXTENDS Naturals, FiniteSets

CONSTANTS
  Requests,    \* the requests
  MaxReloads   \* bound: changes of the configuration file

LifecycleAssumption == MaxReloads \in Nat /\ IsFiniteSet(Requests)

VARIABLES
  config,     \* Server.config, by its version
  actor,      \* actor[a]: where a goroutine is, and the version it has read
  watcher,    \* the watcher generations: ctx, cancel (0 for nil), those cancelled
  running,    \* the watchers: their generation (0 before they read it), what they watch
  http,       \* the HTTP server: none, made, serving, closed
  request,    \* request[r]: a request
  stopped,    \* the task manager and the other services were stopped
  process,    \* the process: up, or how it ended
  history     \* two actors were at the watchers at once; the reloads so far; a Shutdown ran out of time

vars == <<config, actor, watcher, running, http, request, stopped, process, history>>

Actors == {"start", "reload", "main"}
AtWatchers(a) == actor[a].pc \in {"look", "cancel", "wait", "clear", "renew", "spawn"}

----------------------------------------------------------------------------
\* After NewServer.
Init ==
  /\ config = 0 /\ running = {} /\ http = "none" /\ stopped = FALSE /\ process = "up"
  /\ actor = [a \in Actors |-> [pc |-> IF a = "start" THEN "snapshot" ELSE "idle", seen |-> 0]]
  /\ watcher = [ctx |-> 0, cancel |-> 0, cancelled |-> {}, made |-> 0]
  /\ request = [r \in Requests |-> "new"]
  /\ history = [overlap |-> FALSE, reloads |-> 0, timedOut |-> FALSE]

Up == process = "up"
Goes(a, pc) == actor' = [actor EXCEPT ![a].pc = pc]

\* UpdateConfig: the new configuration is in place before the watchers are
\* started again.
UpdateConfig ==
  /\ Up /\ actor["reload"].pc = "idle" /\ history.reloads < MaxReloads
  /\ history' = [history EXCEPT !.reloads = @ + 1]
  /\ config' = config + 1 /\ Goes("reload", "snapshot")
  /\ UNCHANGED <<watcher, running, http, request, stopped, process>>

\* History: a is about to use the watchers' fields.
Enters(a) ==
  history' = [history EXCEPT !.overlap = @ \/ \E b \in Actors \ {a} : AtWatchers(b)]

\* startWatchers reads the namespaces under the lock.
Snapshot(a) ==
  /\ Up /\ actor[a].pc = "snapshot"
  /\ actor' = [actor EXCEPT ![a] = [pc |-> "look", seen |-> config]]
  /\ Enters(a)
  /\ UNCHANGED <<config, watcher, running, http, request, stopped, process>>

\* stopBootOnceWatcher: is there a cancel function ...
Look(a) ==
  /\ Up /\ actor[a].pc = "look"
  /\ Goes(a, IF watcher.cancel # 0 THEN "cancel" ELSE IF a = "main" THEN "http" ELSE "renew")
  /\ UNCHANGED <<config, watcher, running, http, request, stopped, process, history>>

\* Mutant of Cancel: the function is forgotten, not called.
Cancel_Not(a) ==
  /\ Up /\ actor[a].pc = "cancel" /\ Goes(a, "wait")
  /\ UNCHANGED <<config, watcher, running, http, request, stopped, process, history>>

\* ... call it, which panics if it is gone by now ...
Cancel(a) ==
  /\ Up /\ actor[a].pc = "cancel" /\ Goes(a, "wait")
  /\ IF watcher.cancel = 0 THEN process' = "panicked" /\ UNCHANGED watcher
     ELSE /\ watcher' = [watcher EXCEPT !.cancelled = @ \cup {watcher.cancel}]
          /\ UNCHANGED process
  /\ UNCHANGED <<config, running, http, request, stopped, history>>

\* Mutant of Wait: the watchers that were cancelled are not waited for.
Wait_Not(a) ==
  /\ Up /\ actor[a].pc = "wait"
  /\ Goes(a, "clear")
  /\ UNCHANGED <<config, watcher, running, http, request, stopped, process, history>>

\* ... wait for all watchers, whatever their generation ...
Wait(a) ==
  /\ Up /\ actor[a].pc = "wait" /\ running = {}
  /\ Goes(a, "clear")
  /\ UNCHANGED <<config, watcher, running, http, request, stopped, process, history>>

\* ... and clear the field.
Clear(a) ==
  /\ Up /\ actor[a].pc = "clear"
  /\ watcher' = [watcher EXCEPT !.cancel = 0]
  /\ Goes(a, IF a = "main" THEN "http" ELSE "renew")
  /\ UNCHANGED <<config, running, http, request, stopped, process, history>>

\* StartBootOnceWatcher: a new generation, and a goroutine for it.
Renew(a) ==
  /\ Up /\ actor[a].pc = "renew" /\ Goes(a, "spawn")
  /\ watcher' = [watcher EXCEPT !.made = @ + 1, !.ctx = watcher.made + 1, !.cancel = watcher.made + 1]
  /\ UNCHANGED <<config, running, http, request, stopped, process, history>>

Spawn(a) ==
  /\ Up /\ actor[a].pc = "spawn"
  /\ running' = running \cup {[by |-> a, gen |-> 0, seen |-> actor[a].seen]}
  /\ Goes(a, IF a = "start" THEN "make" ELSE "idle")
  /\ UNCHANGED <<config, watcher, http, request, stopped, process, history>>

\* A watcher reads the context, and ends once that is cancelled.
WatcherReads ==
  /\ Up /\ \E w \in running : w.gen = 0 /\
              running' = (running \ {w}) \cup {[w EXCEPT !.gen = watcher.ctx]}
  /\ UNCHANGED <<config, actor, watcher, http, request, stopped, process, history>>

WatcherEnds ==
  /\ Up /\ \E w \in running : w.gen \in watcher.cancelled /\ running' = running \ {w}
  /\ UNCHANGED <<config, actor, watcher, http, request, stopped, process, history>>

\* Start goes on to make the HTTP server and to listen ...
MakeServer ==
  /\ Up /\ actor["start"].pc = "make" /\ Goes("start", "listen")
  /\ http' = "made"
  /\ UNCHANGED <<config, watcher, running, request, stopped, process, history>>

Listen ==
  /\ Up /\ actor["start"].pc = "listen" /\ Goes("start", "serve")
  /\ http' = IF http = "closed" THEN "closed" ELSE "serving"
  /\ UNCHANGED <<config, watcher, running, request, stopped, process, history>>

\* ... which ends with an error once the server is closed: log.Fatalf.
Fatalf ==
  /\ Up /\ actor["start"].pc = "serve" /\ http = "closed"
  /\ process' = "fatal" /\ UNCHANGED <<config, actor, watcher, running, http, request, stopped, history>>

Arrive(r) ==
  /\ Up /\ request[r] = "new" /\ http = "serving"
  /\ request' = [request EXCEPT ![r] = "handling"]
  /\ UNCHANGED <<config, actor, watcher, running, http, stopped, process, history>>

\* A handler may start a task, which nobody works off once the task manager
\* is stopped, and answers.
Answer(r) ==
  /\ Up /\ request[r] = "handling"
  /\ \E task \in BOOLEAN :
       request' = [request EXCEPT ![r] = IF task /\ stopped THEN "dropped" ELSE "answered"]
  /\ UNCHANGED <<config, actor, watcher, running, http, stopped, process, history>>

\* A signal: Shutdown stops the task manager first, and waits for its workers,
\* and for the other services, while everything else goes on ...
Shutdown ==
  /\ Up /\ actor["main"].pc = "idle" /\ stopped' = TRUE
  /\ Goes("main", "stopping")
  /\ UNCHANGED <<config, watcher, running, http, request, process, history>>

\* ... their Stops have returned, and it is the watchers' turn ...
StopServices ==
  /\ Up /\ actor["main"].pc = "stopping"
  /\ Goes("main", "look") /\ Enters("main")
  /\ UNCHANGED <<config, watcher, running, http, request, stopped, process>>

\* Mutant of CloseHTTP: the server is closed and nobody waits.
CloseHTTP_Only ==
  /\ Up /\ actor["main"].pc = "http" /\ Goes("main", "exit")
  /\ http' = IF http = "none" THEN "none" ELSE "closed"
  /\ UNCHANGED <<config, watcher, running, request, stopped, process, history>>

\* ... and the HTTP server at last, if there is one yet.
CloseHTTP ==
  /\ Up /\ actor["main"].pc = "http"
  /\ Goes("main", IF http = "none" THEN "exit" ELSE "drain")
  /\ http' = IF http = "none" THEN "none" ELSE "closed"
  /\ UNCHANGED <<config, watcher, running, request, stopped, process, history>>

\* http.Server.Shutdown waits for the requests, thirty seconds at most.
Drain ==
  /\ Up /\ actor["main"].pc = "drain"
  /\ \E late \in BOOLEAN :
       /\ late \/ \A r \in Requests : request[r] # "handling"
       /\ history' = [history EXCEPT !.timedOut = late]
  /\ Goes("main", "exit")
  /\ UNCHANGED <<config, watcher, running, http, request, stopped, process>>

Exit ==
  /\ Up /\ actor["main"].pc = "exit" /\ process' = "exited"
  /\ UNCHANGED <<config, actor, watcher, running, http, request, stopped, history>>

RestartWatchers(a) ==
  Snapshot(a) \/ Look(a) \/ Cancel(a) \/ Wait(a) \/ Clear(a) \/ Renew(a) \/ Spawn(a)
\* After the signal.
Close == Look("main") \/ Cancel("main") \/ Wait("main") \/ Clear("main")
Start == RestartWatchers("start") \/ MakeServer \/ Listen \/ Fatalf
Watchers == WatcherReads \/ WatcherEnds
Finish == StopServices \/ Close \/ CloseHTTP \/ Drain \/ Exit

Next ==
  \/ Start \/ UpdateConfig \/ RestartWatchers("reload") \/ Watchers
  \/ Shutdown \/ Finish
  \/ \E r \in Requests : Arrive(r) \/ Answer(r)

\* Goroutines run.  WF of Finish includes StopServices: the services' Stops
\* return, which TaskManager's StopReturns and SelfHealing's Stop are about.
Fairness ==
  /\ WF_vars(Start) /\ WF_vars(RestartWatchers("reload")) /\ WF_vars(Watchers)
  /\ WF_vars(Finish)

Spec == Init /\ [][Next]_vars /\ Fairness

----------------------------------------------------------------------------
\* Every variable keeps its type.
TypeOK ==
  /\ config \in 0..MaxReloads /\ stopped \in BOOLEAN
  /\ actor \in [Actors -> [pc : {"idle", "snapshot", "look", "cancel", "wait", "clear", "renew",
                                 "spawn", "make", "listen", "serve", "stopping", "http", "drain", "exit"},
                           seen : 0..MaxReloads]]
  /\ watcher.cancel \in 0..watcher.made /\ watcher.ctx = watcher.made
  /\ watcher.cancelled \subseteq 1..watcher.made
  /\ running \subseteq [by : Actors, gen : 0..watcher.made, seen : 0..MaxReloads]
  /\ http \in {"none", "made", "serving", "closed"}
  /\ request \in [Requests -> {"new", "handling", "answered", "dropped"}]
  /\ process \in {"up", "panicked", "fatal", "exited"}

\* Between reloads exactly one watcher runs for a namespace, and it watches
\* what the configuration says, unless startup, a reload and a shutdown have
\* been at the watchers at the same time; only then may the process panic
\* (UpdateConfig, RestartWatchers).
WatchersFollowConfig ==
  \/ history.overlap
  \/ /\ process # "panicked"
     /\ Up /\ actor["start"].pc = "serve" /\ actor["reload"].pc = "idle" /\ actor["main"].pc = "idle"
          => Cardinality(running) = 1 /\ \A w \in running : w.seen = config

\* If main comes to its end within the time it allows, no request is cut off,
\* provided that Shutdown found a server to close: a signal that comes before
\* Start has made it closes nothing (CloseHTTP, Drain).
DrainsBeforeExit ==
  process = "exited" /\ http = "closed" /\ ~history.timedOut =>
    \A r \in Requests : request[r] # "handling"

\* Once the signal has come the process ends, unless the watchers have been
\* restarted by two goroutines at once and one is left that nobody cancels.
Signalled == actor["main"].pc # "idle"
Ended == ~Up \/ history.overlap
ShutdownEnds == Signalled ~> Ended

----------------------------------------------------------------------------
(* What WatchersFollowConfig and DrainsBeforeExit rest on                   *)

\* Who may be where, and how the configuration is counted.
PlacesKept ==
  /\ history \in [overlap : BOOLEAN, reloads : 0..MaxReloads, timedOut : BOOLEAN]
  /\ config = history.reloads
  /\ watcher \in [ctx : Nat, cancel : Nat, cancelled : SUBSET Nat, made : Nat]
  /\ actor["start"].pc \notin {"idle", "stopping", "http", "drain", "exit"}
  /\ actor["reload"].pc \notin {"make", "listen", "serve", "stopping", "http", "drain", "exit"}
  /\ actor["main"].pc \notin {"snapshot", "renew", "spawn", "make", "listen", "serve"}

\* The server is closed by Shutdown alone, which lets no new request in.
DrainInv ==
  /\ http = "none" <=> actor["start"].pc \notin {"listen", "serve"}
  /\ actor["main"].pc = "drain" => http = "closed"
  /\ http = "closed" => actor["main"].pc \in {"drain", "exit"}
  /\ http = "closed" /\ actor["main"].pc = "exit" /\ ~history.timedOut =>
       \A r \in Requests : request[r] # "handling"
  /\ process = "exited" => actor["main"].pc = "exit"

\* The watchers when nobody starts or stops them: one, of the generation that
\* can be cancelled, or none.
Fresh == watcher.cancel # 0 /\ watcher.cancel = watcher.ctx /\ watcher.ctx \notin watcher.cancelled
Alive == Fresh /\ \E w \in running : running = {w} /\ w.gen \in {0, watcher.ctx}
Gone == watcher.cancel = 0 /\ running = {}

\* What an actor at the watchers finds there.
Finds(pc) ==
  /\ pc = "look" => Alive \/ Gone
  /\ pc = "cancel" => Alive
  /\ pc \in {"clear", "renew", "spawn"} => running = {}
  /\ pc = "spawn" => Fresh

Settled ==
  /\ Alive \/ Gone
  /\ actor["start"].pc \in {"make", "listen", "serve"} /\ actor["main"].pc = "idle" => Alive
  /\ actor["reload"].pc = "idle" => \A w \in running : w.seen = config

WatchInv ==
  history.overlap \/
    /\ process # "panicked"
    /\ \A a \in Actors : AtWatchers(a) =>
         Finds(actor[a].pc) /\ \A b \in Actors \ {a} : ~AtWatchers(b)
    /\ (\A a \in Actors : ~AtWatchers(a)) => Settled
    /\ AtWatchers("reload") => actor["reload"].seen = config
    /\ AtWatchers("start") /\ actor["reload"].pc = "idle" => actor["start"].seen = config

LifecycleInv == TypeOK /\ PlacesKept /\ DrainInv /\ WatchInv

----------------------------------------------------------------------------
\* "It stops accepting new connections and waits for existing requests to
\* complete", says Shutdown (main exits, or Start's error ends the process).
RequestsComplete ==
  process \in {"exited", "fatal"} /\ http = "closed" /\ ~history.timedOut =>
    \A r \in Requests : request[r] # "handling"
=============================================================================
