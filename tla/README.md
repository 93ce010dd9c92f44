# Formal models of kubevirt-redfish

kubevirt-redfish serves the Redfish API (power, boot order, virtual media) for
KubeVirt virtual machines. It is a Go HTTP server: handlers run concurrently,
insertions of media run in a worker pool, watchers react to changes in the
cluster, and everything that has to survive a restart is kept on the VM objects
as labels and annotations. Around that stand services of the server's own:
caches, pools, a rate limiter, retries, circuit breakers, a job scheduler, a
health checker. This directory holds TLA+ models of these parts, the TLC
configurations that check them, and TLAPS proofs of what matters most.

Paths are relative to `src/`; `client.go` is `pkg/kubevirt/client.go`, `main.go`
is `cmd/main.go`, `errors.go` is `pkg/errors/errors.go`, all other files are in
`pkg/server`.

## 1. Inventory

| Part | State | Operations | Hard because |
|---|---|---|---|
| Task manager (`task_manager.go`) | task map, priority queue, one buffered channel per worker, retry timers, counters; `taskMutex`, `statsMutex`, the queue's mutex | `CreateTask`, `GetTask`, `UpdateTaskState`, dispatcher, `work`/`processJob`, retry timers, `CleanupOldTasks`, `Stop` | five kinds of goroutines; a job may be queued, put back, in a channel, worked on or waiting for a timer |
| Virtual media (`client.go`, handlers in `server.go`) | on the VM: disk, volume, URL annotation, importing label; claims, helper pods, CDI sources | `InsertVirtualMedia` (repeated up to three times by the task manager), `copyISOToPVC`, `EjectVirtualMedia`, import-pod watcher, CDI claim watcher, `CheckInsertedMedia` | each operation is up to seven API calls; other actors run between any two, any call may fail, the server may die |
| Deferred power (`handlePowerAction`, `handlePowerAfterImport`) | label `power-after-import` | defer, release by the VM watcher | check-then-act between the importing label and the power label |
| Power state (`SetVMPowerState`, `GetVMPowerState`) | run strategy, force-stop annotation, the instance's pause and grace period | On, ForceOff, GracefulShutdown, ForceRestart, Pause, Resume, ... | a restart is two patches with a pause; commands overlap; a lost answer is retried |
| Boot order (`SetBootOrder`, `SetBootOnce`, VM watcher) | disks' boot order, label and annotations of a pending boot-once | boot update, boot-once, restore by the watcher | patches computed from a VM read earlier; the list of disks is replaced as a whole |
| Server lifecycle (`server.go`, `main.go`) | HTTP server, watchers' contexts, configuration | `Start`, `Shutdown`, `UpdateConfig`, `RestartWatchers` | three goroutines stop and start the watchers, whose fields no mutex protects |
| Health checker, job scheduler | checks, jobs, counters; two mutexes each | periodic checks, self-healing; `AddJob`, `run`, `Stop`, `GetStats` | overlapping executions, late answers; locks taken in different orders |
| Circuit breaker, retry mechanism, rate limiter | state and counters; attempts; token buckets | `Execute`, `ForceOpen`; `ExecuteWithRetry`; `Take`, `Allow` | state read before a lock, re-entrant locking, overflow, statistics in separate steps |
| Response cache, three-tier cache, response optimizer | entries with expiry, access counts | `Get`, `Set`, eviction, promotion, invalidation | a miss and a later store around a write; an entry between two tiers |
| Pools of buffers, encoders, HTTP clients; memory monitor | channels of idle objects, counters | get, put, cleanup, `Stop` | objects that refer to other pooled objects; counters kept by deltas |
| Authentication, configuration, HTTP routing, logging, errors | per-request or immutable | | little state of their own |

### How they interact

`handleInsertVirtualMedia` checks what is attached and calls
`TaskManager.CreateTask`; a worker later runs `InsertVirtualMedia`, which
changes the VM, creates a claim and starts an import (by a helper pod, or by
CDI), and marks it with the importing label. The two import watchers remove
that label when the import is over. `handlePowerAction` looks for importing
labels and, if there are any, stores its command in the power label instead of
running it; the VM watcher sees the last importing label go and runs it.
`SetBootOnce` leaves a label and a saved configuration for the same VM watcher,
which restores the order once another instance runs. `startWatchers` starts one
watcher of each kind for every chassis in the configuration, and does not look
whether two of them have the same namespace (`server.go:372-375`). Nothing but the labels
and annotations of the VM connects these parts: there is no lock between them,
and their merge patches carry no `resourceVersion`, so two of them never
conflict; a patch takes effect on whatever the VM is by then. (The branch of
`InsertVirtualMedia` that retries on "the object has been modified" can
therefore not be reached by these patches.)

The middleware of the response cache stands in front of the GET handlers. The
handler of a write answers its client and then asks the cache to forget, by a
pattern made of the path; what an insertion asked for is done by a worker later.
The other services are reached through
their statistics (`/metrics` and the health endpoints call every `GetStats`),
by `Stop` in `Shutdown`, and by one another: self-healing closes the circuit
breakers. At this commit `main.go` and `server.go` create the circuit breakers,
rate limiters, retry mechanisms and the three-tier cache but send no request
through them, and no health check is registered. They are modelled as what
their interface promises to a caller.

### What makes each part correct

* Task manager: every unfinished task has exactly one job, wherever it is; an
  outcome once reported stands; a task fails only when its retries are used up;
  every task ends; `Stop` returns; jobs leave the queue by priority, then age.
* Media: a label is removed only by the end of its own import; every importing
  label goes eventually; ejection leaves nothing behind that acts later.
* Deferred power: a command takes effect once for each client that asked, after
  the import it was deferred for, and a command that was accepted as deferred does
  run.
* Power: the VM ends in a state that somebody asked for; a restart that reports
  success was one; what is reported comes to agree with what was asked for.
* Boot order: whenever the disks are not in their permanent order, the VM says
  so and carries that order; a boot-once ends; a hard disk stays bootable.
* Lifecycle: accepted requests are served before the process ends; the watchers
  run once and with the latest configuration; a signal ends the process.
* Locks: no cycle of goroutines waiting for one another.
* Caches: capacity is kept, staleness is bounded, what was invalidated is gone.
* Pools: an object is in one hand; an answer is the document it was made from.
* Breaker, retries, limiter, checks, jobs: nothing runs through an open circuit;
  waits are bounded; no request is miscounted; an outage shows; a job recurs.

`PROJECT.json` lists the hazards of the code line by line ("hazards") with the
property that covers each, or why none does.

## 2. Modules

| Module | Models | Extends / instantiates |
|---|---|---|
| `PriorityQueue`, `MCPriorityQueue` | `Push` and `Pop` as functions on sequences; the queue driven by any pushes and pops | |
| `TaskLifecycle` | what a client polling a task is promised (abstract) | |
| `TaskManager` | tasks, dispatcher, workers, timers, cleanup, `Stop` | instantiates `PriorityQueue`, and `TaskLifecycle` with the refinement mapping `Reported` |
| `MediaImport` | insertion, import, ejection, deferred power, three watchers | |
| `BootOnce` | boot updates, boot-once and its restore | |
| `PowerState` | the API requests of power commands, and what is reported | |
| `ServerLifecycle` | start, reload, shutdown, watcher generations | |
| `JobScheduler`, `HealthChecker`, `SelfHealing`, `CircuitBreaker` | these services; self-healing with the breakers it closes | |
| `ResponseCache`, `AdvancedCache`, `JSONPools`, `ConnectionPool`, `RateLimiter`, `RetryMechanism` | these services | |
| `LockOrder` | goroutines running operations made of lock and unlock steps | |
| `ServiceLocks` | the lock and unlock steps of the services' methods, as data for `LockOrder` | |
| `Services`, `Background` | the services that serve requests, and the parts that run in the background, each set as one specification with the properties of its parts | instantiate the modules of the parts (and `LockOrderProofs`, for the `Methods` of `ServiceLocks`) |
| `TaskManagerProofs`, `MediaImportProofs`, `BootOnceProofs`, `PowerStateProofs`, `CircuitBreakerProofs`, `LockOrderProofs`, `ServicesProofs`, `BackgroundProofs` | theorems | the module of that name |
| `MCTaskManager`, `MCMediaImport`, `MCBootOnce`, `MCLocks`, `MCServices`, `MCBackground` | instances for TLC | the module of that name |

### PriorityQueue and TaskManager

A job belongs to exactly one task, so a job is represented by its task. An
action is what one goroutine does under one lock or in one channel operation.

| Actions | Code |
|---|---|
| `CreateStore`, `CreatePush`, `CreateStats` | the three critical sections of `CreateTask`, nested in `taskMutex`; `creating`/`createStep` are that mutex being held |
| `DispatchCheck`, `DispatchPop`, `DispatchAssign`, `DispatchPutBack` | `jobDispatcher` and `getAvailableWorker` |
| `Receive`, `StartJob`, `JobReturns`, `Complete`, `ScheduleRetry`, `Fail`, `Release`, `WorkerReturn` | `work` and `processJob` |
| `TimerFires` | the `AfterFunc` that queues a retry |
| `Cleanup` | `CleanupOldTasks`, for any set of ended tasks that have become old |
| `StopSignal`, `StopJoin`, `StopJoined`, `StopClear` | `Stop` and `Worker.Stop` |

`jobs` is `priorityQueue.jobs`, `jobChan[w]` a worker's channel, `timers` the
retries whose timer has not fired, `taskState` the task map. `taskState` also
distinguishes why a task has no entry: never created, cleaned up, or dropped by
`Stop`. `Push` is the code's single swapping pass, not a sort: that one pass is
enough is what `PriorityThenAge` checks.

### MediaImport

One VM and its device `cdrom0`. Every call to the Kubernetes API is a step of
its own and has three outcomes: `ok`; `refused`, no effect and an error;
`unheard`, the effect but an error, as when the context's deadline passes first.
What a call reads is kept in `seen`, `ejectSeen` or the watcher's variable until
the call that uses it. A claim, its helper pod, its `VolumeImportSource` and
its label value have the same unique name in the code, here the pair of request
and attempt. Image URLs in `PodUrl` are imported by a helper pod, the others by
CDI, which binds a prime copy of the claim first (`client.go:3829`).
An insertion is retried at once or later; the task manager's delay does not
matter to what other actors may do in between. `Restart` loses everything in
memory and keeps the cluster's objects. `ClaimProgress` and `PodEnds` are the
cluster.

The watchers act on any object that matches, at any time: events may be lost,
repeated or late, and the sweep of every minute lists the same objects, so the
handlers' guards are the selectors of the sweep and nothing remembers events.
`Watcher` are the chassis of the configuration that have the VM's namespace: each
brings a watcher of VMs, of import pods and of claims (`vmWatch[w]`, `podWatch[w]`,
`claimWatch[w]`). Nothing keeps two of them apart. Two that have both read a command
on the label both take the label off, which is a null patch that succeeds a second
time, and both run the command; the history `shared` holds the commands to which
this has happened. A second replica of the server (`helm/README.md:165` prescribes
three) would bring watchers too, which act as those of another chassis do; its task
queue is not modelled.

### BootOnce

`disks` maps a disk to its boot order, 0 for none; `HddCount` hard disks, a
CD-ROM and one disk that is neither, such as cloud-init's. A request reads and
patches the VM twice (`RecordVMBootOptionsAsAnnotations`, then `SetBootOnce` or
`SetBootOrder`); a patch is `Merged` field by field from the VM read and the VM
wanted, as `computeVMPatch` does, with the list of disks as one field, as JSON
merge patches have it. `permanent` is a history variable, the order of the hard
disks outside of any boot-once. The instances of the VM come and go by the
environment. Insertion and ejection of media are one step each here. There is one
watcher of the VM. A second one, of another chassis, computes the same patch from
the same pending boot-once; `Restorable`, `NothingLeft` and `DiskAsBackup` held with
two in a variant of the module with `BootOnce.cfg`'s bounds that is not kept here.

### PowerState

A command is a sequence of requests: `Grace`, `Stop`, `Wake` (the end of the pause in
a restart), `Start` are those of `SetVMPowerState`; `Attempt` one try of `pauseVMI` or
`unpauseVMI` under `errors.Retry`: its answer may be lost, and one that the API server
denies is not tried again. `Expires` is the end of the context, which ends the tries.
A JSON patch is refused when a path it replaces is not there (`Possible`): `legacy` is
a VM with `running` instead of `runStrategy`, `annotated` one that has annotations.
`GetVMPowerState` is an operator on the VM and its instance, without the branches for
a pod that terminates, a change that is requested and an instance that has ended
(`client.go:675-685`, `704-708`). `Reconcile`, `Boots` and `Vanishes` are KubeVirt's
controller. `history` records what each command's requests did.

### ServerLifecycle

`actor` holds the three goroutines that touch the watchers: main's, which
waits for a signal and runs `Shutdown`; the one that runs `Start`; the one that
reloads the configuration. The boot-once watcher of one namespace stands for
all. `StartBootOnceWatcher` reads, cancels, waits, clears and renews fields
that no mutex protects, each a step; a watcher's goroutine reads the context
field when it first runs. `watcher.cancel` is 0 for a nil function, whose call
panics. `http` and `request` are `net/http`: `Shutdown` closes the listener,
makes `ListenAndServe` return, and waits for handlers. The server's own `Shutdown`
stops the other services first (pc `"stopping"`, `StopServices`), while requests,
reloads and `Start` go on.

### The services

`ResponseCache` has the middleware around a cached handler: look, miss, handle, store,
with anything in between: a change of the resource (`Change`), the answer to a write
(`WriteAnswered`) and the call of `Invalidate` that follows it are steps of their own,
and the change may come before, between or after the other two. What a handler answers
is the version of the resource it read, so staleness is a comparison with the `past`.
`AdvancedCache` keeps entries as objects, because a promoted entry is shared between
lookups; a sweep takes the tiers one by one. `JSONPools` has the two channels of
`memory_pool.go`; a new encoder writes to the buffer it was created for, for good;
data that has no JSON makes `Encode` fail. `ConnectionPool` has the clients' channel,
the cleanup that works from an old size, and `Stop`. In both, an operation on the
channel and the `updateStats` that follows it are two steps; `owes` is what a
goroutine has done and not counted yet. `RateLimiter` takes buckets one after the
other, each under its own mutex. `RetryMechanism` has `calculateDelay` for all four
strategies with the wrap-around of a `Duration`, which lies in `-Half..Half-1`.
`CircuitBreaker` has the mutex that is held while the protected operation runs.
`JobScheduler` counts `NextRun` in ticks; a retry, which the code puts off by 5 to 15
seconds, is due at the next tick or the one after (`Soon`); an execution works on the
job object it was started with. `HealthChecker` has checks that are added with
whatever status their caller gives them, removed, replaced, and put back as they were
(the last one removed, that is), and runs of them that answer in time, late or never.
`SelfHealing` waits for the mutex of each breaker it looks at; of the overall status
it keeps whether it is unhealthy, and of a breaker its state and whether somebody has
its mutex, for the time of an operation or for ever.

### LockOrder and ServiceLocks

`LockOrder` runs any operations of `Program`, each a sequence of lock and unlock
steps, under the rules of `sync.RWMutex`: an announced writer keeps new readers
out and waits for those that are in. `ServiceLocks` is the longest path through
each method, with the methods it calls: a record of them for each service, all
of them together in `Methods`; and the `Level` of each mutex: the order in which
the methods that change something nest them. `Suspects` are the methods that do
not keep to it.

### Services and Background

These services do not read each other's state, so no interleaving of two of them
shows what one alone does not; each behaviour has one `part`, and the variables
`v1`, `v2`, ... are the part's, in the order its module declares them. Each
property says `part = ... =>` and is the module's own property of that name. With
its first invariant, each part's type invariant is checked. The parameters of a
part are the fields of one record, a constant; `MCServices` and `MCBackground` only
give these records their values for TLC, so that what the runs check and what the
theorems state is the same formula.

## 3. Runs

Passing runs:

* `services`: the queue is sorted by priority and age after every push
  (`PriorityThenAge`); a cached answer is at most a TTL and a handler's time old
  (`StalenessBounded`); what an invalidation meant to remove survives
  only where a lookup carried it past the sweep (`OnlyCarriedSurvive`); a buffer
  is in one hand, and buffers and encoders that were allocated are in use or in their
  pool, but for what has still to be counted (`PoolsConsistent`); an answer is intact
  unless calls have overlapped (`IntactUnlessOverlapped`); clients are in use or in the
  pool, but for what has still to be counted (`ActiveAreAccountedFor`); requests are
  counted once when they come and once when they go, unless a `Reset` comes in between
  (`RequestsAddUp`); giving up means every attempt failed, and waits keep to
  their limits where no product overflows (`RetriesBounded`); a deadlock has a
  suspect in it (`DeadlockNeedsSuspect`).
* `background`: no operation runs through an open circuit and failures in a row
  are counted right (`BreakerConsistent`), calls return unless the breaker has
  locked itself out (`CallsReturn`); executions of a job overlap only if one
  outlasts a tick (`OverlapMeansSlow`), jobs recur (`JobRuns`); an outage shows
  within an interval, a tick and two timeouts, whatever status a check was added with
  (`DownIsNoticed`); while the service is unhealthy, open breakers are closed, unless
  one of them has locked itself out and self-healing waits for its mutex for good
  (`BreakersHeal`); power commands leave what was asked for
  (`CommandsRespected`), the report comes to agree (`ReportSettles`); watchers
  follow the configuration (`WatchersFollowConfig`), requests are drained
  (`DrainsBeforeExit`), a signal ends the process (`ShutdownEnds`).
* `task_manager` (3 tasks, 2 workers, channels of 1, 1 retry, fairness): type,
  one copy of every job, jobs exactly for unfinished tasks, no division by zero,
  failure only after the last retry; tasks end, `Stop` returns, and the module
  implements `TaskLifecycle`, which includes that outcomes are final.
* `media_import` (1 insertion by a helper pod or by CDI, 1 ejection, 2 power commands,
  watchers of 2 chassis, two troubles, each a failing call or a restart): commands run
  at most once, unless two watchers had both read one before either took the label
  off, and not before their import is over; a label goes with its own import.
* `media_import_live` (1 insertion by CDI with 1 retry, 1 power command, watchers of 2
  chassis, a failing call or a restart, fairness): labels go, deferred commands run.
* `boot_once` (1 update, permanent or for once, 3 instances, 1 failing call, 1
  restart, fairness; and a second boot-once over the same instance): the
  permanent order is in place or saved where the watcher looks; nothing of a
  finished boot-once is left; a hard disk keeps its place; a boot-once ends.

Runs that show where the code departs from its own comments:

* `media_stuck_label`: a helper pod that completes before its importing label is
  set is deleted by the watcher, which finds no label to remove. The label set
  next stays, and every later power command is deferred for good.
* `media_label_race`: the watcher compares the label with its pod in one call
  and removes it in another. Around an ejection and a re-insertion, the pod of
  the first clears the label of the second.
* `media_overtaken`: the watcher removes the power label whatever it holds by
  then. A command deferred after the watcher's read is gone, although its
  client was told that it is deferred; another command runs instead.
* `boot_once_lost`: the watcher ends a boot-once between the read and the patch
  of a second one. The patch changes the boot order but not the label and the
  saved order, which did not differ from what was read: the temporary order
  becomes permanent.
* `health_deadlock`: `GetStats` holds the statistics' mutex and takes the checks',
  a finishing check does the opposite. (It needs a registered check, and none is
  at this commit.)
* `server_shutdown`: `http.Server.Shutdown` makes `ListenAndServe` return at once;
  the goroutine that called it takes this for a failure and ends the process
  with `log.Fatalf`, while `Shutdown` still waits for requests.

Disagreements seen while modelling that no run shows:

* Task manager: a worker with room in its channel counts as available, so jobs
  wait behind a busy worker while others are idle (`task_manager.go:501`);
  `TotalTasksCreated` is never incremented (`:571` counts a creation as a
  completion); a task created after `Stop` is stored and never processed;
  `GetStats` takes the mutexes in the opposite order to `CreateTask`.
* Deferred power: with two chassis over one namespace, or two replicas of the server,
  a deferred command may run twice: two watchers read it on the label, both remove the
  label and both run it. The comment at `client.go:3336` has the label removed first "to
  avoid re-triggering". `AtMostOnce` says when this happens, and no run of its own.
* Media: `CheckInsertedMedia` answers ready before the importing label is set and
  after a failed import; an ejection does not stop a pod created after its read;
  of two insertions accepted while nothing is attached, the second replaces the
  first, and their URL annotation and volume may end up from different ones.
* Boot order: a permanent order set while a boot-once is pending is undone by
  the restore; `getVMIUID` takes an error for "no instance", upon which the
  watcher ends the boot-once at once, unused; with two boot-onces around a reboot
  and an insertion, the restore leaves the CD-ROM, unknown to the saved order,
  its first place, while the hard disks get theirs or none.
* Caches: `Invalidate`'s patterns match no key that the middleware stores; an
  invalidated entry in transit between two tiers is stored again (`InvalidationSticks`
  of `AdvancedCache` is that stronger, false property).
* Pools: once two calls of `OptimizedJSONMarshal` have overlapped, an encoder may
  write to a buffer that is not the one its caller reads, and the answer is another
  document, several, or none; an object taken from a pool adds one to `TotalReturned`
  and one put back subtracts one, the opposite of what `CurrentInUse` takes it for.
* Rate limiter: the comments at `rate_limiter.go:86` and `:112` say that tokens are
  refilled "based on time elapsed"; the code sets the bucket to its capacity at every
  `Take`. The model has the refill as it is written, and no property rests on it.
* Retries: an exponential delay overflows before it is compared with its limit,
  and the wait is then at once or arbitrary.
* Circuit breaker: `executeOpen` calls `executeHalfOpen` with the mutex held, which
  takes it again: the first call after the timeout blocks the breaker for good, and
  self-healing with it, which waits for the mutex of every breaker.
* Lifecycle: a signal before `Start` has made the HTTP server finds nothing to
  close; a reload while `Start` or `Shutdown` is at the watchers may leave one that
  nobody cancels, or call a cancel function that is nil by then.

### Bounds and why they are enough

`task_manager`: two workers and a channel of one job give every situation of
the dispatcher: a free worker, a busy worker with room, a full channel, all full.
Three tasks fill a worker, its channel and the queue. One retry is enough for a
job to be in a timer and to come back; the code's three repeat the same steps.
Tasks are created in the order of their numbers, which loses nothing but names
and, unlike a symmetry set, is sound for the liveness properties.

Media: one insertion, one ejection, two power commands and one fault give every pair
of actors on one VM; two troubles come at every pair of places. Two power commands are
needed for one to overtake another. Two insertions at once are in the runs that need
them. Two chassis are needed for two watchers to meet at one command or one claim; the
runs that show a disagreement need only one. `media_import` has no retry and
`media_import_live` no second trouble, because the code does not keep the properties
there: an importing label set by a call whose answer was lost belongs to an attempt
that was given up. The watcher may then remove the label of the next attempt in its
place, and with a restart between the two attempts nothing ever ends the import the
label names. Helper pods are left out of `media_import_live` because of what
`media_stuck_label` shows, and it has no ejection.

`boot_once`: two hard disks are needed to tell orders apart, and three instances
to have a boot-once across a stop, a start and another. The second request is
sent only over the instance that runs at first and without failing calls
(`SecondIsCalm`): two that straddle a reboot are what `boot_once_lost` refutes, and
`NothingLeft` and `DiskAsBackup` do not survive it either.

`services`: five jobs of three priorities give `Push` all relations of a new job to
those queued. One entry per cache and tier makes every second store an eviction; two
versions and a TTL of one tick make an entry fresh, stale and expired. Three calls on
two buffers and one encoder empty and overfill both pools. Three users of two clients
and five clients created find the pool full and empty, also while the cleanup and
`Stop` run. Three requests share some buckets and not others. The retry instance has
eight bits, so that seven attempts reach the overflow. Two goroutines suffice for
every cycle of two mutexes; longer ones are excluded by `DeadlocksHaveSuspects`.

`background`: three calls with a threshold of two fail, open the circuit and find
it open. Two job objects under one name give remove and re-add; two executions
overlap. A check has two objects, two runs at a time and an interval of two ticks
with a timeout of one. Three breakers let self-healing be at one, have passed one and
have one before it. Two power commands and one fault give every pair of commands
with a failure at any request. Two reloads overlap with start and shutdown.

All bounds are constants: `MaxTroubles`, `MaxFaults`, `MaxCrashes`, `MaxBoots`,
`MaxAttempts`, `MaxJobs`, `MaxTime`, `MaxVersion`, `MaxWrites`, `MaxHandling`,
`MaxCount`, `MaxCreated`, `MaxResets`, `MaxForced`, `MaxCalls`, `MaxAdded`,
`MaxReloads`. All configurations allow deadlock: with clients that need not call and
bounds reached, the system may rest. In `LockOrder` a thread may stay idle; that
threads wait for each other is the property `NoDeadlock`, not TLC's.

### Fairness

Weak fairness of a goroutine that can go on: the Go scheduler runs it, API calls
have deadlines, `InsertVirtualMedia` has one too, timers fire. No fairness for
clients, faults, restarts, instances and `StopSignal`. In `MediaImport` the
watcher's visits to a completed pod or bound claim are strongly fair: the sweep
comes back every minute to every object, also when other objects kept the watcher
busy meanwhile. Helper pods end because `curl` has `--max-time`. That CDI ends
its imports is an assumption about the cluster. In `BootOnce`, the VM watcher is
weakly fair, which the sweep justifies.

`CircuitBreaker`: a call goes on, and the protected operation returns. `JobScheduler`:
the ticker ticks, the loop and the executions go on, handlers return.
`HealthChecker`: none; checks may hang. `SelfHealing`: operations end, and the routine
is strongly fair, because a `sync.RWMutex` gives whoever waits for it a turn between
two holders. `PowerState`: only
KubeVirt's controller; commands may stay where they are, and the report has to
settle all the same. `ServerLifecycle`: the goroutines of `Start`, of a reload, of
the watchers and of `Shutdown` go on. That includes the `Stop`s of the services: the
task manager's returns (`StopReturns`), and the one that may wait for ever, that of a
breaker which has locked itself out, finds no such breaker, because nothing is sent
through one at this commit. Handlers of requests need not, because
`Shutdown` has a deadline.

## 4. Theorems

Assumptions: the module's assumption on its constants (`TaskManagerAssumption`
and so on): numbers, finite sets, distinct identities. TLC checks each on the
instances it runs. All theorems hold for every value of the constants that
satisfies them.

`TaskManagerProofs`:

* `TypeCorrect`: `Spec => []TypeOK`, with `Control`, which ties each program
  counter to the variables it uses.
* `JobsAreUnique` and `JobsAreConserved`: `OneCopy` and `JobIffUnfinished`. They
  need one more conjunct to be inductive: tasks not yet queued are nowhere
  (`UnqueuedNowhere`). Every action moves at most one job, from one place to
  another, adds one or removes one; `MovedIf` and `KeptIf` state this in terms
  of `Holds`, the `Effect...` lemmas establish it per action, and one lemma each
  derives the invariant from it (`MovedPlaces`, `KeptPlaces`, `FinishedPlaces`).
  `PassIsIdentity` shows that for the single priority `CreateTask` uses, the
  swapping pass leaves the slice as appended.
* `DivisionIsDefined`, `FailureIsExhaustion`: from `Records`, which relates the
  counters and the set of ended tasks to the task map.
* `OutcomesAreFinal` (`[][...]_vars`) and `Refinement`, that `TaskManager`
  implements `TaskLifecycle`: a job a worker has belongs to a running or pending
  task (`WorkedIsLive`), so each step changes the task map as `MapStep` allows,
  and maps to a step of `TaskLifecycle` or to none.

`Invariance` is the conjunction of all of these, `[]IInv`.

`MediaImportProofs!PowerAtMostOnce`: a power command takes effect at most once, unless
two watchers have both read it before either took the label off, for any number of
chassis, requests, insertions, failing calls and restarts. The inductive invariant
says that a command is in one place: with its handler, on the label, or with one
watcher about to run it (any number may be about to take it off the label, if it is
in `shared`), and that one which is still somewhere has not run.
`OneWatcherOnce`: where one chassis has the namespace and one server runs, every
command takes effect at most once.
`TypeCorrect` of the same module: labels and volumes name claims of attempts that a
task was allowed to make. It needs `Attempts`: a queued task has an attempt left, and
one that is at work has begun one and has an image.

`BootOnceProofs!TypeCorrect`: the types. A patch takes each field from the VM it meets
or from what was asked for (`PatchTyped`), so both have to be VMs; that what the
watcher asks for is one needs `WatchKnows`: it goes on only with a VM that has a saved
configuration. `OnceIsRestorable`, `OnceLeavesNothing`, `OnceKeepsBackup`:
`Restorable`, `NothingLeft` and `DiskAsBackup` for a single boot update (`Request =
{r}`), any number of disks, instances, media changes, faults and restarts. `OnceInv`:
the VM is `Clean` until the update's last patch and `Pending` from then until the
restore; what the update and the watcher have read stays true of the hard disks
(`SeenClean`, `WatchedPending`), because in between only media come and go; and a
CD-ROM that the saved order does not know has no place (`NoPlaceBeyond`), so the
restore never leaves it the only one. With two updates `Restorable` is false
(`boot_once_lost`).

`DeferredWaits` and `LabelsWait` of `MediaImportProofs`: the action properties
`DeferredAfterImport` and `LabelGoesWithItsImport`, for any number of ejections,
power commands, failing calls, restarts and objects, under `Once`: there is one
insertion and it is attempted once. That is what `media_import` checks, and it is
needed: with a second attempt or a second insertion the watcher's two calls
straddle two imports (`media_label_race`), and a command may run while the newer
import is open. `OnceInv` follows the one insertion to its end: a label is
there only once the insertion is `Over` (`VMOnce`), and from then on no volume is
attached whose import could begin; as long as a command is deferred, the label is
still there or the attached import is not open (`Settled`, `PowerOnce`), because an
ejection takes the volume off before the label (`EjectOnce`) and the watchers go to
the label only with an import that has ended (`ImportOnce`).

`PowerStateProofs` and `BackgroundProofs!PowerCommandsAreRespected`: `CommandsRespected`
for any number of commands, attempts and faults. The inductive invariant judges
each command by what it has done so far (`Progress`) and says that some command was
the last to set the strategy the VM has (`SomebodySetIt`): a restart that has
halted the machine answers for it until it has started it again or reports that
it failed.

`CircuitBreakerProofs` and `BackgroundProofs!BreakerKeeps`: `BreakerConsistent` for any
number of calls and any threshold. With the types it is inductive: the running
operation's call holds the mutex, so nobody changes the state under it.

`BackgroundProofs`, with inductive invariants that the models state next to the
properties:

* `WatchersFollow`, `RequestsAreDrained` from `LifecycleInv`. Until two goroutines are
  at the watchers at once (`history.overlap`), the fields belong to the one that is:
  what it has read of them is what they hold (`WatchInv`), and outside of its steps
  exactly one watcher is alive, with the context that the cancel function cancels, or
  none before the start and after the end (`Settled`). `DrainInv` says that main gets
  past `Shutdown` only when no handler is left or its time is up.
* `DownComponentsAreNoticed` from `CheckerInv`: a run that found its component up has
  looked before it went down (`AnswersAged`), so it is at most a timeout older than
  the component's failure; a healthy result, or a healthy status a check was added
  with, is replaced after an interval and a tick by a run that takes at most a timeout
  (`ResultsAged`). The sum of these is the bound `Late`, which counts from when the
  component went down or the check was added.
* `OverlapsAreSlow` from `SchedulerInv`: a tick ages all executions under way; between
  two ticks the loop collects due jobs once, as a set, and no young execution is
  of a job that is still to be started (`YoungApart`). What `NextRun` says plays no
  part in it.

`ServicesProofs`, one invariant per service:

* `QueueIsInOrder`: the swapping pass carries the new job past those it beats and
  leaves the rest in order (`PassCarries`, `PushPlaces`), so a sorted queue stays
  sorted (`PushKeepsOrder`); with `QueueInv`, which says that ages are those pushed.
* `CacheStaleness` from `CacheInv`: versions only grow; an answer waiting to be stored is
  as new as the moment its handler read at; an entry is as new as everything older than
  the handling time when it was stored.
* `InvalidationMissesOnlyTheCarried` from `TiersInv`: an entry is known under one key
  (`OneKey`), and one that is doomed and still there was carried or lies in a tier
  that the sweep has still to come to (`StillToSweep`).
* `PoolsStayConsistent` and `AnswersIntactUnlessOverlapped` from `PoolsInv`: which objects a
  call holds follows from its place (`HeldByPlace`); a step moves one object between a
  call, the pool and what is still to be counted, which the balance of the counter and
  the holders follows (`DoesMove`, `AccountsAre`); before any overlap one call at
  most is under way, and the only encoder writes to the only buffer (`Paired`).
* `ClientsAreAccountedFor` from `ClientsInv`: each goroutine owes the statistics at most
  one deed (`OneOwesAnother`), and every step of the channel is matched by a deed that is
  owed or by a user who has the client.
* `LimiterReportsTheTruth` from `LimiterInv`, which says that a request has a bucket to go
  on with, refilled in the past: the requests counted and not yet decided are those under
  way (`UnderWayCounted`), as long as no `Reset` has cleared the count of one of them.
* `RetriesAreBounded` from `RetryInv`: where a call is tells how many attempts have failed
  (`FailuresCounted`), and the delays of all strategies are within their bounds where no
  product overflows (`DelaysInBounds`). The powers and the Fibonacci numbers are
  recursive functions; that they are positive is proved by the least
  counterexample in a set of numbers (`SetInduction`, from the well-foundedness of
  `<` on `Nat`), because the induction theorems with an operator parameter cannot
  be used.
* `DeadlocksHaveSuspects`: any number of goroutines running the services' methods.
  `LockOrderProofs!SuspectsInEveryDeadlock` is the general fact, for any mutexes and
  operations that nest in order: were all busy goroutines blocked, one that wants a
  mutex of the lowest level would wait for somebody who wants a lower one
  (`WaitsForLower`). `MethodsNest` shows the premise for the methods as they are
  written: each is put together of sections around sections, and nesting in order
  carries over from the parts (`NestedSection`, `NestedJoin`) by comparing levels.

All these invariants hold in TLC's instances, too, where they were checked before
they were proved; no run lists them, since the theorems say more.

Only model-checked:

* Liveness (`TaskEnds`, `StopReturns`, `CallsReturn`, `JobRuns`, `BreakersHeal`,
  `ReportSettles`, `ShutdownEnds`, `ImportEnds`, `DeferredRuns`, `OnceEnds`): it
  follows from fairness, and the prover does not reason about `ENABLED`.
* `Restorable`, `NothingLeft` and `DiskAsBackup` with a second boot-once over the same
  instance: the theorems are about one update.

What a violation run shows is not a theorem either; where a theorem has a
hypothesis, it names the run that refutes the property without it.

## 5. Not modelled

Listed per component in `PROJECT.json`. `SetVMPowerState` is one step of `MediaImport`
and has its requests in `PowerState`, those that `pauseVMI` and `unpauseVMI` repeat
after a lost answer among them. Several servers at a time: their watchers act as those
of further chassis do, but each has a task queue of its own. Several VMs or devices:
the code keeps no state across VMs except the task manager. A change of the watched
namespaces while imports run. A server that dies between the two patches of a restart:
the VM stays halted, and nothing in the code would resume it. The messages and
processing times of tasks. Routing, conversion to Redfish JSON, validation of the
configuration, logging and error types have no state that another part reads; the maps
of the enhanced authentication are written and decide nothing. The memory monitor only
measures. The mock client is a test aid.

## 6. Plan

Done: the models of section 2, the runs of section 3 and the theorems of section 4.
Every invariant and action property of a passing run is stated by a theorem, some
under the hypothesis of a single request that section 4 explains.

Left, in this order:

1. `Restorable` for several updates over one instance, with the second as calm as
   `SecondIsCalm` makes it.
2. An abstract closed/open/half-open machine that `CircuitBreaker` implements as
   long as it has not locked itself out, with the refinement proved.
3. `ServerLifecycle` composed with `TaskManager`, to say what becomes of requests
   that create tasks during a shutdown.
