------------------------- MODULE MediaImportProofs -------------------------
(***************************************************************************)
(* A power command takes effect at most once, for any number of power      *)
(* requests, insertions, ejections, watchers, failing calls and restarts,   *)
(* unless two watchers were about to release it at once; and the types of   *)
(* MediaImport.                                                            *)
(*                                                                         *)
(* A command is in one place only: with the handler that received it, on   *)
(* the VM's power label, or with a VM watcher.  It may be on the label     *)
(* and read by a watcher at once, but a watcher runs it only after it      *)
(* took it off the label, and no handler puts it back.                     *)
(***************************************************************************)
EXTENDS MediaImport, TLAPS

PowerTypeOK ==
  /\ powerAfter \in Power \cup {None}
  /\ powering \in [Power -> {"idle", "defer", "execute", "deferred", "ended", "lost"}]
  /\ ran \in [Power -> Nat] /\ shared \subseteq Power
  /\ vmWatch \in [Watcher -> Watching({"release", "run"}, Power)]

\* A command its handler still has is nowhere else.
WithHandler(r) == powering[r] \in {"idle", "defer", "execute"}

OnePlace ==
  \A r \in Power, w \in Watcher :
    /\ WithHandler(r) => vmWatch[w].of # r
    /\ vmWatch[w] = At("run", r) => powerAfter # r

\* A command that is still somewhere has not run, and one watcher has it.
NotYetRun ==
  \A r \in Power \ shared :
    /\ WithHandler(r) \/ powerAfter = r => ran[r] = 0
    /\ \A w \in Watcher :
         vmWatch[w].of = r => ran[r] = 0 /\ \A v \in Watcher : vmWatch[v].of = r => v = w

\* The label is put on the VM by the handler, which is done with it then.
LabelPut == \A r \in Power : WithHandler(r) => powerAfter # r

PowerInv == PowerTypeOK /\ LabelPut /\ OnePlace /\ NotYetRun /\ AtMostOnce

LEMMA NoneIsNoPower == None \notin Power
BY MediaImportAssumption

LEMMA WatchForms ==
  /\ Idle \in Watching({"release", "run"}, Power)
  /\ \A r \in Power, place \in {"release", "run"} :
       /\ At(place, r) \in Watching({"release", "run"}, Power)
       /\ At(place, r).at = place /\ At(place, r).of = r
  /\ \A s \in Watching({"release", "run"}, Power) :
       \/ s = Idle
       \/ \E r \in Power : s = At("release", r) \/ s = At("run", r)
  /\ Idle.at = "idle" /\ Idle.of = None
BY DEF Watching, Idle, At

LEMMA PowerInit == Init => PowerInv
<1> SUFFICES ASSUME Init PROVE PowerInv
  OBVIOUS
<1>1. /\ powerAfter = None /\ powering = [r \in Power |-> "idle"] /\ ran = [r \in Power |-> 0]
      /\ shared = {} /\ vmWatch = [w \in Watcher |-> Idle]
  BY DEF Init, AllIdle
<1>2. \A w \in Watcher : vmWatch[w] = Idle
  BY <1>1
<1>3. PowerTypeOK
  BY <1>1, WatchForms DEF PowerTypeOK
<1>4. LabelPut /\ OnePlace
  BY <1>1, <1>2, NoneIsNoPower, WatchForms DEF LabelPut, OnePlace, Idle, At
<1>5. NotYetRun /\ AtMostOnce
  BY <1>1, <1>2, NoneIsNoPower, WatchForms DEF NotYetRun, AtMostOnce
<1> QED
  BY <1>3, <1>4, <1>5 DEF PowerInv

\* The steps of the power handlers and of the VM watchers, one by one.
LEMMA PowerHandlers ==
  ASSUME PowerInv, NEW r \in Power,
         PowerCheck(r) \/ \E o \in Outcome : PowerDefer(r, o) \/ PowerExecute(r, o)
  PROVE  PowerInv'
<1> USE DEF PowerInv
<1>1. CASE PowerCheck(r)
  BY <1>1 DEF PowerCheck, PowerTo, PowerTypeOK, LabelPut, OnePlace, NotYetRun, AtMostOnce,
              WithHandler, vmVars, watchVars
<1>2. ASSUME NEW o \in Outcome, PowerDefer(r, o)
      PROVE  PowerInv'
  <2>1. /\ powerAfter' = powerAfter \/ powerAfter' = r
        /\ powering' \in [Power -> {"idle", "defer", "execute", "deferred", "ended", "lost"}]
        /\ powering'[r] \in {"deferred", "ended"} /\ powering[r] = "defer"
        /\ \A q \in Power : q # r => powering'[q] = powering[q]
        /\ UNCHANGED <<ran, shared, vmWatch>>
    BY <1>2 DEF PowerDefer, SetPowerAfterImportLabel, PowerTo, If, PowerTypeOK, watchVars
  <2>2. PowerTypeOK' /\ LabelPut' /\ AtMostOnce'
    BY <2>1 DEF PowerTypeOK, LabelPut, AtMostOnce, WithHandler
  <2>3. \A w \in Watcher : vmWatch[w].of # r
    BY <2>1 DEF OnePlace, WithHandler
  <2>4. OnePlace'
    BY <2>1, <2>3, WatchForms DEF OnePlace, WithHandler
  <2>5. NotYetRun'
    BY <2>1 DEF NotYetRun, WithHandler
  <2> QED
    BY <2>2, <2>4, <2>5
<1>3. ASSUME NEW o \in Outcome, PowerExecute(r, o)
      PROVE  PowerInv'
  <2>1. /\ ran' = ran \/ ran' = [ran EXCEPT ![r] = @ + 1]
        /\ powering' = [powering EXCEPT ![r] = "ended"]
        /\ WithHandler(r)
        /\ UNCHANGED <<powerAfter, shared, vmWatch>>
    BY <1>3 DEF PowerExecute, SetVMPowerState, If, PowerTo, WithHandler, vmVars, watchVars
  <2> QED
    BY <2>1 DEF PowerTypeOK, LabelPut, OnePlace, NotYetRun, AtMostOnce, WithHandler
<1> QED
  BY <1>1, <1>2, <1>3

LEMMA PowerWatcher ==
  ASSUME PowerInv, NEW w \in Watcher, VMWatcher(w)
  PROVE  PowerInv'
<1> USE DEF PowerInv
<1>0. vmWatch[w] \in Watching({"release", "run"}, Power)
  BY DEF PowerTypeOK
<1>1. CASE WatchVM(w)
  <2>1. /\ powerAfter \in Power /\ vmWatch' = [vmWatch EXCEPT ![w] = At("release", powerAfter)]
        /\ UNCHANGED <<powerAfter, powering, ran>>
        /\ shared' = IF \E v \in Watcher \ {w} : vmWatch[v] = At("release", powerAfter)
                     THEN shared \cup {powerAfter} ELSE shared
    BY <1>1 DEF WatchVM, ReadBy, PowerTypeOK, vmVars
  <2>2. /\ At("release", powerAfter) \in Watching({"release", "run"}, Power)
        /\ At("release", powerAfter).of = powerAfter
        /\ \A r \in Power : At("release", powerAfter) # At("run", r)
    BY <2>1, WatchForms
  <2>3. /\ vmWatch'[w] = At("release", powerAfter)
        /\ \A v \in Watcher : v # w => vmWatch'[v] = vmWatch[v]
        /\ vmWatch' \in [Watcher -> Watching({"release", "run"}, Power)]
    BY <2>1, <2>2 DEF PowerTypeOK
  <2>4. PowerTypeOK' /\ LabelPut' /\ AtMostOnce'
    BY <2>1, <2>3 DEF PowerTypeOK, LabelPut, AtMostOnce, WithHandler
  <2>5. ~WithHandler(powerAfter)
    BY <2>1 DEF LabelPut
  <2>6. OnePlace'
    BY <2>1, <2>2, <2>3, <2>5 DEF OnePlace, WithHandler
  <2>7. ASSUME NEW v \in Watcher, v # w, vmWatch[v].of = powerAfter
        PROVE  powerAfter \in shared'
    <3>1. vmWatch[v] = At("release", powerAfter) \/ vmWatch[v] = At("run", powerAfter)
      BY <2>1, <2>7, NoneIsNoPower, WatchForms DEF PowerTypeOK
    <3>2. vmWatch[v] # At("run", powerAfter)
      BY <2>1 DEF OnePlace
    <3> QED
      BY <2>1, <2>7, <3>1, <3>2
  <2>8. NotYetRun'
    BY <2>1, <2>2, <2>3, <2>7 DEF NotYetRun, WithHandler
  <2> QED
    BY <2>4, <2>6, <2>8
<1>2. ASSUME NEW o \in Outcome, ReleaseCommand(w, o)
      PROVE  PowerInv'
  <2>1. PICK r \in Power : vmWatch[w] = At("release", r) /\ vmWatch[w].of = r
    BY <1>0, <1>2, WatchForms DEF ReleaseCommand
  <2>2. /\ UNCHANGED <<powering, ran, shared>>
        /\ powerAfter' \in {powerAfter, None}
        /\ o = "ok" => powerAfter' = None
        /\ vmWatch' = [vmWatch EXCEPT ![w] = IF o = "ok" THEN At("run", r) ELSE Idle]
    BY <1>2, <2>1 DEF ReleaseCommand, powerVars, If, Applied
  <2>3. /\ vmWatch' \in [Watcher -> Watching({"release", "run"}, Power)]
        /\ vmWatch'[w].of \in {r, None}
        /\ vmWatch'[w] = Idle \/ o = "ok"
        /\ \A v \in Watcher : v # w => vmWatch'[v] = vmWatch[v]
    BY <2>2, WatchForms DEF PowerTypeOK
  <2>4. PowerTypeOK' /\ LabelPut' /\ AtMostOnce'
    BY <2>2, <2>3, NoneIsNoPower DEF PowerTypeOK, LabelPut, AtMostOnce, WithHandler
  <2>5. \A q \in Power : Idle # At("run", q)
    BY WatchForms
  <2>6. OnePlace'
    BY <2>1, <2>2, <2>3, <2>5, NoneIsNoPower DEF OnePlace, WithHandler
  <2>7. NotYetRun'
    BY <2>1, <2>2, <2>3, NoneIsNoPower DEF NotYetRun, WithHandler
  <2> QED
    BY <2>4, <2>6, <2>7
<1>3. ASSUME NEW o \in Outcome, RunCommand(w, o)
      PROVE  PowerInv'
  <2>1. PICK r \in Power : vmWatch[w] = At("run", r) /\ vmWatch[w].of = r
    BY <1>0, <1>3, WatchForms DEF RunCommand
  <2>2. /\ UNCHANGED <<powering, powerAfter, shared>>
        /\ ran' = ran \/ ran' = [ran EXCEPT ![r] = @ + 1]
        /\ vmWatch' = [vmWatch EXCEPT ![w] = Idle]
    BY <1>3, <2>1 DEF RunCommand, SetVMPowerState, If, vmVars
  <2>3. /\ vmWatch' \in [Watcher -> Watching({"release", "run"}, Power)]
        /\ vmWatch'[w] = Idle /\ vmWatch'[w].of = None
        /\ \A v \in Watcher : v # w => vmWatch'[v] = vmWatch[v]
    BY <2>2, WatchForms DEF PowerTypeOK
  <2>4. powerAfter # r /\ ~WithHandler(r)
    BY <2>1 DEF OnePlace
  <2>5. r \notin shared => ran[r] = 0 /\ \A v \in Watcher : vmWatch[v].of = r => v = w
    BY <2>1 DEF NotYetRun
  <2>6. /\ \A q \in Power : q # r => ran'[q] = ran[q]
        /\ ran'[r] \in {ran[r], ran[r] + 1} /\ ran' \in [Power -> Nat]
    BY <2>2 DEF PowerTypeOK
  <2>7. PowerTypeOK' /\ LabelPut'
    BY <2>2, <2>3, <2>6 DEF PowerTypeOK, LabelPut, WithHandler
  <2>8. AtMostOnce'
    BY <2>2, <2>5, <2>6 DEF AtMostOnce
  <2>9. \A q \in Power : Idle # At("run", q)
    BY WatchForms
  <2>10. OnePlace'
    BY <2>2, <2>3, <2>9, NoneIsNoPower DEF OnePlace, WithHandler
  <2>11. NotYetRun'
    BY <2>2, <2>3, <2>4, <2>5, <2>6, NoneIsNoPower DEF NotYetRun, WithHandler
  <2> QED
    BY <2>7, <2>8, <2>10, <2>11
<1> QED
  BY <1>1, <1>2, <1>3 DEF VMWatcher

\* A restart forgets what the handlers and the watchers had in hand.
LEMMA PowerRestart ==
  ASSUME PowerInv, Restart
  PROVE  PowerInv'
<1>1. /\ powering' = [r \in Power |-> IF powering[r] \in {"defer", "execute"} THEN "lost"
                                      ELSE powering[r]]
      /\ vmWatch' = [w \in Watcher |-> Idle]
      /\ UNCHANGED <<powerAfter, ran, shared>>
  BY DEF Restart, AllIdle, vmVars
<1>2. \A w \in Watcher : vmWatch'[w] = Idle /\ vmWatch'[w].of = None
  BY <1>1, WatchForms
<1>3. \A r \in Power : WithHandler(r)' => WithHandler(r)
  BY <1>1 DEF WithHandler
<1>4. PowerTypeOK'
  BY <1>1, WatchForms DEF PowerInv, PowerTypeOK
<1>5. \A r \in Power : Idle # At("run", r)
  BY WatchForms
<1> QED
  BY <1>1, <1>2, <1>3, <1>4, <1>5, NoneIsNoPower
  DEF PowerInv, LabelPut, OnePlace, NotYetRun, AtMostOnce

\* Nobody else touches what the invariant is about.
LEMMA PowerUntouched ==
  ASSUME PowerInv, UNCHANGED <<powerAfter, powering, ran, shared, vmWatch>>
  PROVE  PowerInv'
BY DEF PowerInv, PowerTypeOK, LabelPut, OnePlace, NotYetRun, AtMostOnce, WithHandler

\* The steps together.
LEMMA PowerStepKept == PowerInv /\ [Next]_vars => PowerInv'
<1> SUFFICES ASSUME PowerInv, [Next]_vars PROVE PowerInv'
  OBVIOUS
<1>1. CASE \E t \in Insert : InsertStep(t) \/ \E u \in Url : RequestInsert(t, u)
  <2>1. UNCHANGED <<powerAfter, powering, ran, shared, vmWatch>>
    BY <1>1 DEF InsertStep, RequestInsert, InsertRead, InsertMount, InsertPatch, InsertClean,
                InsertClaim, InsertPod, InsertLabel, vmVars, powerVars, watchVars
  <2> QED
    BY <2>1, PowerUntouched
<1>2. CASE \E e \in Eject : EjectRead(e) \/ EjectStep(e)
  <2>1. UNCHANGED <<powerAfter, powering, ran, shared, vmWatch>>
    BY <1>2 DEF EjectStep, EjectRead, EjectPatch, EjectPod, EjectLabel, EjectClaim,
                vmVars, powerVars, watchVars
  <2> QED
    BY <2>1, PowerUntouched
<1>3. CASE \E w \in Watcher : PodWatcher(w) \/ ClaimWatcher(w)
  <2>1. UNCHANGED <<powerAfter, powering, ran, shared, vmWatch>>
    BY <1>3 DEF PodWatcher, WatchPod, DeletePod, CheckPod, ClearForPod, ClaimWatcher,
                WatchClaim, CheckClaim, ClearForClaim, vmVars, powerVars
  <2> QED
    BY <2>1, PowerUntouched
<1>4. CASE Cluster \/ UNCHANGED vars
  <2>1. UNCHANGED <<powerAfter, powering, ran, shared, vmWatch>>
    BY <1>4 DEF Cluster, ClaimProgress, PodEnds, vars, vmVars, powerVars, watchVars
  <2> QED
    BY <2>1, PowerUntouched
<1> QED
  BY <1>1, <1>2, <1>3, <1>4, PowerHandlers, PowerWatcher, PowerRestart
  DEF Next, PowerStep

\* "Remove the power-after-import label first to avoid re-triggering": a
\* command runs once at most (handlePowerAfterImport), for any number of
\* watchers, unless two of them were about to release it at once.
THEOREM PowerAtMostOnce == Spec => []AtMostOnce
<1>1. PowerInv => AtMostOnce
  BY DEF PowerInv
<1> QED
  BY <1>1, PowerInit, PowerStepKept, PTL DEF Spec

\* One chassis entry at most is over the VM's namespace.
OneEntry == \A v, w \in Watcher : v = w
NoneTwice == \A r \in Power : ran[r] =< 1

\* With one chassis entry over the VM's namespace nothing is exempted: no
\* command takes effect twice (handlePowerAfterImport).
THEOREM OneWatcherOnce ==
  ASSUME OneEntry
  PROVE  Spec => []NoneTwice
<1>1. Init => shared = {}
  BY DEF Init
<1>2. shared = {} /\ [Next]_vars => (shared = {})'
  <2>1. ASSUME shared = {}, NEW w \in Watcher, WatchVM(w) PROVE shared' = {}
    BY <2>1 DEF WatchVM, ReadBy, OneEntry
  <2> QED
    BY <2>1 DEF Next, InsertStep, RequestInsert, InsertRead, InsertMount, InsertPatch, InsertClean,
       InsertClaim, InsertPod, InsertLabel, EjectStep, EjectRead, EjectPatch, EjectPod, EjectLabel,
       EjectClaim, PowerCheck, PowerStep, PowerDefer, PowerExecute, VMWatcher, ReleaseCommand,
       RunCommand, PodWatcher, WatchPod, DeletePod, CheckPod, ClearForPod, ClaimWatcher, WatchClaim,
       CheckClaim, ClearForClaim, Cluster, ClaimProgress, PodEnds, Restart, vars, powerVars
<1>3. PowerInv /\ shared = {} => NoneTwice
  BY DEF PowerInv, AtMostOnce, NoneTwice
<1> QED
  BY <1>1, <1>2, <1>3, PowerInit, PowerStepKept, PTL DEF Spec

-----------------------------------------------------------------------------
(* The types.  That no claim is asked for under a number beyond the last     *)
(* attempt needs Attempts: a task that is queued has an attempt left, and   *)
(* one that is at work has begun one.                                       *)

Working == {"patch", "clean", "claim", "mount", "pod", "label"}
InsertPlaces == {"idle", "queued", "ended", "failed", "lost"} \cup Working

VMTyped ==
  /\ volume \in Claim \cup {None} /\ disk \in BOOLEAN /\ mediaUrl \in Url \cup {None}
  /\ importing \in Claim \cup {None} /\ powerAfter \in Power \cup {None}
ObjTyped ==
  /\ claim \in [Claim -> {"absent", "pending", "primed", "bound"}]
  /\ pod \in [Claim -> {"none", "waiting", "running", "succeeded", "failed"}]
  /\ import \in [Claim -> {"open", "done", "failed"}]
InsertTyped ==
  /\ url \in [Insert -> Url \cup {None}] /\ inserting \in [Insert -> InsertPlaces]
  /\ attempt \in [Insert -> 0..MaxAttempts] /\ seen \in [Insert -> Seen]
EjectTyped ==
  /\ ejecting \in [Eject -> {"idle", "patch", "pod", "label", "claim", "ended", "lost"}]
  /\ ejectSeen \in [Eject -> Seen]
PowerTyped ==
  /\ powering \in [Power -> {"idle", "defer", "execute", "deferred", "ended", "lost"}]
  /\ ran \in [Power -> Nat] /\ shared \subseteq Power
WatchTyped ==
  /\ vmWatch \in [Watcher -> Watching({"release", "run"}, Power)]
  /\ podWatch \in [Watcher -> Watching({"delete", "check", "clear"}, Claim)]
  /\ claimWatch \in [Watcher -> Watching({"check", "check prime", "clear"}, Claim)]
TroubleTyped == faults \in Nat /\ crashes \in Nat /\ faults + crashes =< MaxTroubles

Attempts ==
  \A t \in Insert :
    /\ inserting[t] = "idle" => attempt[t] = 0
    /\ inserting[t] = "queued" => attempt[t] < MaxAttempts
    /\ inserting[t] \in Working => attempt[t] > 0
    /\ inserting[t] \in Working \cup {"queued"} => url[t] \in Url
    /\ inserting[t] = "clean" => seen[t].volume # None

MediaInv == VMTyped /\ ObjTyped /\ InsertTyped /\ EjectTyped /\ PowerTyped /\ WatchTyped
            /\ TroubleTyped /\ Attempts

LEMMA MediaInvTypes == MediaInv => TypeOK
BY DEF MediaInv, TypeOK, VMTyped, ObjTyped, InsertTyped, EjectTyped, PowerTyped, WatchTyped,
       TroubleTyped, InsertPlaces, Working

LEMMA VMSeenTyped ==
  ASSUME VMTyped
  PROVE  VMSeen \in Seen
BY DEF VMTyped, VMSeen, Seen

\* A call costs at most one trouble.
LEMMA ApiTyped ==
  ASSUME TroubleTyped, NEW o, Api(o)
  PROVE  TroubleTyped'
BY MediaImportAssumption DEF TroubleTyped, Api

\* The claim of the attempt under way.
LEMMA CurrentIsClaim ==
  ASSUME MediaInv, NEW t \in Insert, inserting[t] \in Working
  PROVE  Current(t) \in Claim
BY DEF MediaInv, InsertTyped, Attempts, Current, Claim

LEMMA MediaInit == Init => MediaInv
<1> SUFFICES ASSUME Init PROVE MediaInv
  OBVIOUS
<1>1. NotSeen \in Seen
  BY DEF NotSeen, Seen
<1>2. VMTyped
  BY DEF Init, VMTyped
<1>3. ObjTyped
  BY DEF Init, ObjTyped
<1>4. EjectTyped /\ PowerTyped
  BY <1>1 DEF Init, EjectTyped, PowerTyped
<1>5. TroubleTyped
  BY MediaImportAssumption DEF Init, TroubleTyped
<1>6. InsertTyped /\ Attempts
  BY <1>1, MediaImportAssumption DEF Init, InsertTyped, Attempts, InsertPlaces, Working
<1>7. WatchTyped
  BY DEF Init, AllIdle, WatchTyped, Watching
<1> QED
  BY <1>2, <1>3, <1>4, <1>5, <1>6, <1>7 DEF MediaInv

-----------------------------------------------------------------------------
\* An insertion that goes on or is to be retried keeps its records.
LEMMA ProceedTyped ==
  ASSUME MediaInv, NEW t \in Insert, NEW o, NEW next \in Working \cup {"ended"},
         inserting[t] \in Working, Proceed(t, o, next),
         next = "clean" => seen[t].volume # None,
         UNCHANGED <<url, attempt, seen>>
  PROVE  (InsertTyped /\ Attempts)'
<1>1. \A u \in Insert : inserting'[u] = IF u # t THEN inserting[u]
                        ELSE IF o = "ok" THEN next
                        ELSE IF attempt[t] < MaxAttempts THEN "queued" ELSE "failed"
  BY DEF MediaInv, InsertTyped, Proceed
<1>2. inserting' \in [Insert -> InsertPlaces]
  BY <1>1 DEF MediaInv, InsertTyped, Proceed, InsertPlaces
<1>3. InsertTyped'
  BY <1>2 DEF MediaInv, InsertTyped
<1>4. Attempts'
  BY <1>1 DEF MediaInv, Attempts, Working
<1> QED
  BY <1>3, <1>4

LEMMA RequestInsertTyped ==
  ASSUME MediaInv, NEW t \in Insert, NEW u \in Url, RequestInsert(t, u)
  PROVE  MediaInv'
<1>1. InsertTyped' /\ Attempts'
  BY MediaImportAssumption DEF MediaInv, InsertTyped, Attempts, InsertPlaces, Working, RequestInsert
<1> QED
  BY <1>1 DEF MediaInv, RequestInsert, vmVars, objVars, ejectVars, powerVars, watchVars,
              VMTyped, ObjTyped, EjectTyped, PowerTyped, WatchTyped, TroubleTyped

LEMMA InsertReadTyped ==
  ASSUME MediaInv, NEW t \in Insert, NEW o, InsertRead(t, o)
  PROVE  MediaInv'
<1>1. VMSeen \in Seen
  BY VMSeenTyped DEF MediaInv
<1>2. attempt[t] < MaxAttempts /\ attempt[t] \in Nat /\ MaxAttempts \in Nat
  BY MediaImportAssumption DEF MediaInv, InsertTyped, Attempts, InsertRead
<1>3. /\ attempt' \in [Insert -> 0..MaxAttempts] /\ attempt'[t] = attempt[t] + 1
      /\ \A u \in Insert : u # t => attempt'[u] = attempt[u]
  BY <1>2 DEF MediaInv, InsertTyped, InsertRead
<1>4. /\ inserting' \in [Insert -> InsertPlaces]
      /\ inserting'[t] = IF o = "ok" THEN "patch"
                         ELSE IF attempt'[t] < MaxAttempts THEN "queued" ELSE "failed"
      /\ \A u \in Insert : u # t => inserting'[u] = inserting[u]
  BY DEF MediaInv, InsertTyped, InsertRead, InsertPlaces, Working
<1>5. /\ seen' \in [Insert -> Seen] /\ url' = url
      /\ \A u \in Insert : u # t => seen'[u] = seen[u]
  BY <1>1 DEF MediaInv, InsertTyped, InsertRead
<1>6. InsertTyped'
  BY <1>3, <1>4, <1>5 DEF MediaInv, InsertTyped
<1>7. Attempts'
  BY <1>2, <1>3, <1>4, <1>5 DEF MediaInv, Attempts, Working, InsertRead
<1>8. TroubleTyped'
  BY ApiTyped DEF MediaInv, InsertRead
<1> QED
  BY <1>6, <1>7, <1>8 DEF MediaInv, InsertRead, vmVars, objVars, ejectVars, powerVars, watchVars,
              VMTyped, ObjTyped, EjectTyped, PowerTyped, WatchTyped

LEMMA InsertPatchTyped ==
  ASSUME MediaInv, NEW t \in Insert, NEW o, InsertPatch(t, o)
  PROVE  MediaInv'
<1>1. inserting[t] \in Working
  BY DEF InsertPatch, Working
<1>2. InsertTyped' /\ Attempts'
  BY <1>1, ProceedTyped DEF InsertPatch, Working
<1>3. VMTyped'
  <2>1. Current(t) \in Claim
    BY <1>1, CurrentIsClaim
  <2>2. url[t] \in Url /\ seen[t].disk \in BOOLEAN
    BY <1>1 DEF MediaInv, InsertTyped, Attempts, Seen
  <2>3. volume' \in {volume, Current(t)} /\ disk' \in BOOLEAN /\ mediaUrl' \in {mediaUrl, url[t]}
    BY <2>2 DEF MediaInv, VMTyped, InsertPatch, If
  <2> QED
    BY <2>1, <2>2, <2>3 DEF MediaInv, VMTyped, InsertPatch
<1>4. TroubleTyped'
  BY ApiTyped DEF MediaInv, InsertPatch
<1> QED
  BY <1>2, <1>3, <1>4 DEF MediaInv, InsertPatch, objVars, ejectVars, powerVars, watchVars,
              ObjTyped, EjectTyped, PowerTyped, WatchTyped

LEMMA InsertCleanTyped ==
  ASSUME MediaInv, NEW t \in Insert, NEW o, InsertClean(t, o)
  PROVE  MediaInv'
<1>1. /\ inserting' \in [Insert -> InsertPlaces] /\ inserting'[t] = "claim"
      /\ \A u \in Insert : u # t => inserting'[u] = inserting[u]
  BY DEF MediaInv, InsertTyped, InsertClean, InsertPlaces, Working
<1>2. InsertTyped' /\ Attempts'
  BY <1>1 DEF MediaInv, InsertTyped, Attempts, InsertClean, Working
<1>3. ObjTyped'
  BY DEF MediaInv, ObjTyped, InsertClean, If
<1>4. TroubleTyped'
  BY ApiTyped DEF MediaInv, InsertClean
<1> QED
  BY <1>2, <1>3, <1>4 DEF MediaInv, InsertClean, vmVars, ejectVars, powerVars, watchVars,
              VMTyped, EjectTyped, PowerTyped, WatchTyped

\* The calls after the patch, which only deal with claim and pod.
LEMMA InsertObjectsTyped ==
  ASSUME MediaInv, NEW t \in Insert, NEW o,
         InsertClaim(t, o) \/ InsertMount(t, o) \/ InsertPod(t, o)
  PROVE  MediaInv'
<1>1. inserting[t] \in Working
  BY DEF InsertClaim, InsertMount, InsertPod, Working
<1>2. InsertTyped' /\ Attempts'
  <2>1. \E p : Proceed(t, p, "mount") \/ Proceed(t, p, "pod") \/ Proceed(t, p, "label")
    <3>1. CASE InsertClaim(t, o)
      <4>1. CASE url[t] \in PodUrl
        BY <3>1, <4>1 DEF InsertClaim
      <4>2. CASE url[t] \notin PodUrl
        BY <3>1, <4>2 DEF InsertClaim
      <4> QED
        BY <4>1, <4>2
    <3>2. CASE InsertMount(t, o)
      BY <3>2, Zenon DEF InsertMount
    <3>3. CASE InsertPod(t, o)
      BY <3>3 DEF InsertPod
    <3> QED
      BY <3>1, <3>2, <3>3
  <2>2. UNCHANGED <<url, attempt, seen>>
    BY DEF InsertClaim, InsertMount, InsertPod
  <2>3. "mount" \in Working /\ "pod" \in Working /\ "label" \in Working
    BY DEF Working
  <2> QED
    BY <1>1, <2>1, <2>2, <2>3, ProceedTyped
<1>3. ObjTyped'
  BY DEF MediaInv, ObjTyped, objVars, InsertClaim, InsertMount, InsertPod, If
<1>4. TroubleTyped'
  BY ApiTyped DEF MediaInv, InsertClaim, InsertMount, InsertPod
<1>5. UNCHANGED <<vmVars, ejectVars, powerVars, watchVars>>
  BY DEF InsertClaim, InsertMount, InsertPod
<1> QED
  BY <1>2, <1>3, <1>4, <1>5 DEF MediaInv, vmVars, ejectVars, powerVars, watchVars,
              VMTyped, EjectTyped, PowerTyped, WatchTyped

LEMMA InsertLabelTyped ==
  ASSUME MediaInv, NEW t \in Insert, NEW o, InsertLabel(t, o)
  PROVE  MediaInv'
<1>1. inserting[t] \in Working
  BY DEF InsertLabel, Working
<1>2. InsertTyped' /\ Attempts'
  BY <1>1, ProceedTyped DEF InsertLabel
<1>3. VMTyped'
  BY <1>1, CurrentIsClaim DEF MediaInv, VMTyped, InsertLabel, SetImportingLabel, If
<1>4. TroubleTyped'
  BY ApiTyped DEF MediaInv, InsertLabel
<1> QED
  BY <1>2, <1>3, <1>4 DEF MediaInv, InsertLabel, objVars, ejectVars, powerVars, watchVars,
              ObjTyped, EjectTyped, PowerTyped, WatchTyped

-----------------------------------------------------------------------------
\* What an ejection changes: the VM, the objects and itself.
LEMMA EjectsTyped ==
  ASSUME MediaInv, NEW e \in Eject, EjectRead(e) \/ EjectStep(e)
  PROVE  MediaInv'
<1>1. VMSeen \in Seen
  BY VMSeenTyped DEF MediaInv
<1>2. CASE EjectRead(e)
  <2>1. EjectTyped'
    BY <1>1, <1>2 DEF MediaInv, EjectTyped, EjectRead, EjectTo
  <2> QED
    BY <1>2, <2>1 DEF MediaInv, EjectRead, vmVars, objVars, insertVars, powerVars, watchVars,
       VMTyped, ObjTyped, InsertTyped, PowerTyped, WatchTyped, TroubleTyped, Attempts
<1>3. CASE EjectStep(e)
  <2>1. PICK o \in Outcome : EjectPatch(e, o) \/ EjectPod(e, o) \/ EjectLabel(e, o) \/ EjectClaim(e, o)
    BY <1>3 DEF EjectStep
  <2>2. EjectTyped'
    BY <2>1 DEF MediaInv, EjectTyped, EjectPatch, EjectPod, EjectLabel, EjectClaim, EjectTo
  <2>3. VMTyped'
    <3>1. disk' \in BOOLEAN /\ powerAfter' = powerAfter /\ volume' \in {volume, None}
          /\ mediaUrl' \in {mediaUrl, None} /\ importing' \in {importing, None}
      BY <2>1 DEF MediaInv, VMTyped, vmVars, EjectTyped, Seen, EjectPatch, EjectPod, EjectLabel,
                  EjectClaim, RemoveImportingLabel, If
    <3> QED
      BY <3>1 DEF MediaInv, VMTyped
  <2>4. ObjTyped'
    BY <2>1 DEF MediaInv, ObjTyped, objVars, EjectPatch, EjectPod, EjectLabel, EjectClaim, If
  <2>5. TroubleTyped'
    BY <2>1, ApiTyped DEF MediaInv, EjectPatch, EjectPod, EjectLabel, EjectClaim
  <2>6. UNCHANGED <<insertVars, powerVars, watchVars>>
    BY <2>1 DEF EjectPatch, EjectPod, EjectLabel, EjectClaim
  <2> QED
    BY <2>2, <2>3, <2>4, <2>5, <2>6 DEF MediaInv, insertVars, powerVars, watchVars,
       InsertTyped, PowerTyped, WatchTyped, Attempts
<1> QED
  BY <1>2, <1>3

-----------------------------------------------------------------------------
\* The power handlers and the VM watcher; their types are those of PowerInv.
LEMMA PowersTyped ==
  ASSUME MediaInv, PowerTypeOK',
         \/ \E r \in Power : PowerCheck(r) \/ PowerStep(r)
         \/ \E w \in Watcher : VMWatcher(w)
  PROVE  MediaInv'
<1>1. /\ UNCHANGED <<volume, disk, mediaUrl, importing, objVars, insertVars, ejectVars,
                     podWatch, claimWatch>>
      /\ TroubleTyped' \/ UNCHANGED <<faults, crashes>>
  <2>1. CASE \E r \in Power : PowerCheck(r)
    BY <2>1 DEF PowerCheck, vmVars, watchVars
  <2>2. CASE \E r \in Power : PowerStep(r)
    BY <2>2, ApiTyped DEF MediaInv, PowerStep, PowerDefer, PowerExecute, vmVars, watchVars
  <2>3. CASE \E w \in Watcher : VMWatcher(w)
    BY <2>3, ApiTyped DEF MediaInv, VMWatcher, WatchVM, ReleaseCommand, RunCommand, vmVars
  <2> QED
    BY <2>1, <2>2, <2>3
<1> QED
  BY <1>1 DEF MediaInv, PowerTypeOK, objVars, insertVars, ejectVars, VMTyped, ObjTyped,
     InsertTyped, EjectTyped, PowerTyped, WatchTyped, TroubleTyped, Attempts

\* The watchers of imports take off a label or a pod.
LEMMA ImportWatchersTyped ==
  ASSUME MediaInv, NEW w \in Watcher, PodWatcher(w) \/ ClaimWatcher(w)
  PROVE  MediaInv'
<1> DEFINE PodPlaces == Watching({"delete", "check", "clear"}, Claim)
           ClaimPlaces == Watching({"check", "check prime", "clear"}, Claim)
<1>1. \A p \in Claim, place \in {"delete", "check", "clear"} : At(place, p) \in PodPlaces
  BY DEF At, Watching
<1>2. \A p \in Claim, place \in {"check", "check prime", "clear"} : At(place, p) \in ClaimPlaces
  BY DEF At, Watching
<1>3. Idle \in PodPlaces /\ Idle \in ClaimPlaces
  BY DEF Watching
<1>4. /\ podWatch[w].at # "idle" => podWatch[w].of \in Claim
      /\ claimWatch[w].at # "idle" => claimWatch[w].of \in Claim
  <2>1. Idle.at = "idle"
    BY DEF Idle
  <2>2. podWatch[w] \in PodPlaces /\ claimWatch[w] \in ClaimPlaces
    BY DEF MediaInv, WatchTyped
  <2> QED
    BY <2>1, <2>2 DEF Watching
<1>5. CASE PodWatcher(w)
  <2>1. podWatch' \in [Watcher -> PodPlaces]
    <3>1. \E s \in PodPlaces : podWatch' = [podWatch EXCEPT ![w] = s]
      BY <1>1, <1>3, <1>4, <1>5 DEF PodWatcher, WatchPod, DeletePod, CheckPod, ClearForPod
    <3> QED
      BY <3>1 DEF MediaInv, WatchTyped
  <2>2. importing' \in {importing, None} /\ UNCHANGED <<volume, disk, mediaUrl, powerAfter>>
    BY <1>5 DEF PodWatcher, WatchPod, DeletePod, CheckPod, ClearForPod, vmVars,
                RemoveImportingLabel, If
  <2>3. ObjTyped'
    BY <1>5 DEF MediaInv, ObjTyped, objVars, PodWatcher, WatchPod, DeletePod, CheckPod,
                ClearForPod, If
  <2>4. TroubleTyped'
    <3>1. (\E o : Api(o)) \/ UNCHANGED <<faults, crashes>>
      BY <1>5 DEF PodWatcher, WatchPod, DeletePod, CheckPod, ClearForPod
    <3> QED
      BY <3>1, ApiTyped DEF MediaInv, TroubleTyped
  <2>5. UNCHANGED <<insertVars, ejectVars, powerVars, vmWatch, claimWatch>>
    BY <1>5 DEF PodWatcher, WatchPod, DeletePod, CheckPod, ClearForPod
  <2> QED
    BY <2>1, <2>2, <2>3, <2>4, <2>5 DEF MediaInv, insertVars, ejectVars, powerVars, VMTyped,
       InsertTyped, EjectTyped, PowerTyped, WatchTyped, Attempts
<1>6. CASE ClaimWatcher(w)
  <2>1. claimWatch' \in [Watcher -> ClaimPlaces]
    <3>1. \E s \in ClaimPlaces : claimWatch' = [claimWatch EXCEPT ![w] = s]
      BY <1>2, <1>3, <1>4, <1>6 DEF ClaimWatcher, WatchClaim, CheckClaim, ClearForClaim
    <3> QED
      BY <3>1 DEF MediaInv, WatchTyped
  <2>2. importing' \in {importing, None} /\ UNCHANGED <<volume, disk, mediaUrl, powerAfter, objVars>>
    BY <1>6 DEF ClaimWatcher, WatchClaim, CheckClaim, ClearForClaim, vmVars,
                RemoveImportingLabel, If
  <2>3. TroubleTyped'
    <3>1. (\E o : Api(o)) \/ UNCHANGED <<faults, crashes>>
      BY <1>6 DEF ClaimWatcher, WatchClaim, CheckClaim, ClearForClaim
    <3> QED
      BY <3>1, ApiTyped DEF MediaInv, TroubleTyped
  <2>4. UNCHANGED <<insertVars, ejectVars, powerVars, vmWatch, podWatch>>
    BY <1>6 DEF ClaimWatcher, WatchClaim, CheckClaim, ClearForClaim
  <2> QED
    BY <2>1, <2>2, <2>3, <2>4 DEF MediaInv, objVars, insertVars, ejectVars, powerVars, VMTyped,
       ObjTyped, InsertTyped, EjectTyped, PowerTyped, WatchTyped, Attempts
<1> QED
  BY <1>5, <1>6

\* The cluster changes claims, pods and imports only.
LEMMA ClusterTyped ==
  ASSUME MediaInv, Cluster
  PROVE  MediaInv'
<1>1. ObjTyped'
  BY DEF MediaInv, ObjTyped, Cluster, ClaimProgress, PodEnds
<1>2. UNCHANGED <<vmVars, insertVars, ejectVars, powerVars, watchVars, faults, crashes>>
  BY DEF Cluster, ClaimProgress, PodEnds
<1> QED
  BY <1>1, <1>2 DEF MediaInv, vmVars, insertVars, ejectVars, powerVars, watchVars, VMTyped,
     InsertTyped, EjectTyped, PowerTyped, WatchTyped, TroubleTyped, Attempts

LEMMA RestartTyped ==
  ASSUME MediaInv, Restart
  PROVE  MediaInv'
<1>1. InsertTyped' /\ Attempts'
  BY DEF MediaInv, InsertTyped, Attempts, InsertPlaces, Working, Restart
<1>2. EjectTyped' /\ PowerTyped'
  BY DEF MediaInv, EjectTyped, PowerTyped, Restart
<1>3. WatchTyped'
  BY DEF WatchTyped, Watching, AllIdle, Restart
<1>4. TroubleTyped'
  BY MediaImportAssumption DEF MediaInv, TroubleTyped, Restart
<1> QED
  BY <1>1, <1>2, <1>3, <1>4 DEF MediaInv, Restart, vmVars, objVars, VMTyped, ObjTyped

-----------------------------------------------------------------------------
\* Every step keeps the types.
LEMMA MediaStep ==
  ASSUME PowerInv, MediaInv, [Next]_vars
  PROVE  MediaInv'
<1>1. CASE \E t \in Insert : InsertStep(t)
  BY <1>1, InsertReadTyped, InsertPatchTyped, InsertCleanTyped, InsertObjectsTyped,
     InsertLabelTyped DEF InsertStep
<1>2. CASE \E t \in Insert, u \in Url : RequestInsert(t, u)
  BY <1>2, RequestInsertTyped
<1>3. CASE \E e \in Eject : EjectRead(e) \/ EjectStep(e)
  BY <1>3, EjectsTyped
<1>4. CASE (\E r \in Power : PowerCheck(r) \/ PowerStep(r)) \/ \E w \in Watcher : VMWatcher(w)
  <2>1. PowerInv'
    BY <1>4, PowerHandlers, PowerWatcher DEF PowerStep
  <2> QED
    BY <1>4, <2>1, PowersTyped DEF PowerInv
<1>5. CASE (\E w \in Watcher : PodWatcher(w) \/ ClaimWatcher(w)) \/ Cluster \/ Restart
  BY <1>5, ImportWatchersTyped, ClusterTyped, RestartTyped
<1>6. CASE UNCHANGED vars
  BY <1>6 DEF MediaInv, vars, vmVars, objVars, insertVars, ejectVars, powerVars, watchVars,
     VMTyped, ObjTyped, InsertTyped, EjectTyped, PowerTyped, WatchTyped, TroubleTyped, Attempts
<1> QED
  BY <1>1, <1>2, <1>3, <1>4, <1>5, <1>6 DEF Next

\* Every variable keeps its type: however insertions, ejections, imports,
\* retries and restarts interleave, labels and volumes name claims of attempts
\* that a task was allowed to make.
THEOREM TypeCorrect == Spec => []TypeOK
BY MediaStep, PowerInit, MediaInit, MediaInvTypes, PowerStepKept, PTL DEF Spec

-----------------------------------------------------------------------------
(* One insertion, one attempt.  Then there is one claim, and its label is   *)
(* put on the VM by the last call of the attempt.  With a second attempt    *)
(* the watchers may clear the label of the first while the second imports.  *)

Once == (\A t, u \in Insert : t = u) /\ MaxAttempts = 1

\* The attempt has come to its end, and not by a restart.
Over == \A t \in Insert : inserting[t] \in {"ended", "failed"}

\* A command may be deferred, and once it is, the label goes only when it may run.
Settled == importing # None \/ Attached # "open"

VMOnce ==
  /\ importing # None => Over
  /\ volume # None => \A t \in Insert : inserting[t] \notin {"idle", "queued", "patch"}

\* An ejection that saw the label takes the volume off before the label.
EjectOnce ==
  \A e \in Eject :
    /\ ejecting[e] = "patch" /\ ejectSeen[e].label # None
         => Over /\ (ejectSeen[e].volume # None \/ volume = None)
    /\ ejecting[e] \in {"pod", "label"} => Over /\ volume = None

PowerOnce ==
  /\ \A r \in Power : powering[r] = "defer" => Over /\ Settled
  /\ powerAfter # None => Over /\ Settled
  /\ \A w \in Watcher : vmWatch[w].at # "idle" => Over /\ Attached # "open"

\* What the watchers of imports have found at its end is at its end.
ImportOnce ==
  /\ \A p \in Claim :
       /\ pod[p] \in {"succeeded", "failed"} => import[p] # "open"
       /\ claim[p] # "absent" => inserting[p[1]] # "idle"
       /\ claim[p] = "bound" /\ ByCDI(p) => import[p] # "open"
  /\ \A w \in Watcher :
       /\ podWatch[w].at # "idle" => import[podWatch[w].of] # "open"
       /\ claimWatch[w].at \in {"check", "clear"} => import[claimWatch[w].of] # "open"

OnceInv == MediaInv /\ VMOnce /\ EjectOnce /\ PowerOnce /\ ImportOnce

LEMMA OneClaim ==
  ASSUME Once
  PROVE  /\ \A p, q \in Claim : p = q
         /\ \A p \in Claim : p[1] \in Insert
         /\ None \notin Claim /\ None \notin Power
<1>1. Claim = Insert \X (1..1)
  BY DEF Claim, Once
<1> QED
  BY <1>1, MediaImportAssumption DEF Once, Claim

\* Where the watchers are, with what.
LEMMA WatchersAt ==
  ASSUME MediaInv
  PROVE  /\ \A w \in Watcher : /\ podWatch[w].at # "idle" => podWatch[w].of \in Claim
                               /\ claimWatch[w].at # "idle" => claimWatch[w].of \in Claim
         /\ Idle.at = "idle"
         /\ \A place, x : At(place, x).at = place /\ At(place, x).of = x
<1>1. Idle.at = "idle"
  BY DEF Idle
<1> QED
  BY <1>1 DEF MediaInv, WatchTyped, Watching, At

LEMMA OnceInit ==
  ASSUME Once, Init
  PROVE  OnceInv
<1>1. Idle.at = "idle"
  BY DEF Idle
<1>2. MediaInv
  BY MediaInit
<1>3. VMOnce /\ EjectOnce /\ PowerOnce
  BY <1>1 DEF Init, AllIdle, VMOnce, EjectOnce, PowerOnce
<1>4. ImportOnce
  BY <1>1 DEF Init, AllIdle, ImportOnce
<1> QED
  BY <1>2, <1>3, <1>4 DEF OnceInv

\* The attempt changes nothing that the others rely on before it is over.
LEMMA OnceInsert ==
  ASSUME Once, OnceInv, MediaInv', NEW t \in Insert,
         InsertStep(t) \/ \E u \in Url : RequestInsert(t, u)
  PROVE  OnceInv'
<1>1. \A u \in Insert : u = t
  BY DEF Once
<1>2. ~Over /\ inserting[t] \in {"idle", "queued"} \cup Working
  BY DEF Over, InsertStep, RequestInsert, InsertRead, InsertMount, InsertPatch, InsertClean,
         InsertClaim, InsertPod, InsertLabel, Working
<1>3. importing = None /\ powerAfter = None /\ (\A w \in Watcher : vmWatch[w].at = "idle")
      /\ \A r \in Power : powering[r] # "defer"
  BY <1>2 DEF OnceInv, VMOnce, PowerOnce
<1>4. \A e \in Eject : /\ ejecting[e] = "patch" => ejectSeen[e].label = None
                       /\ ejecting[e] \notin {"pod", "label"}
  BY <1>2 DEF OnceInv, EjectOnce
<1>5. UNCHANGED <<powerAfter, powering, vmWatch, podWatch, claimWatch, ejecting, ejectSeen, import>>
  BY DEF InsertStep, RequestInsert, InsertRead, InsertMount, InsertPatch, InsertClean,
         InsertClaim, InsertPod, InsertLabel, vmVars, objVars, ejectVars, powerVars, watchVars
<1>6. EjectOnce' /\ PowerOnce'
  BY <1>3, <1>4, <1>5 DEF EjectOnce, PowerOnce
<1>7. /\ inserting'[t] # "idle"
      /\ inserting[t] # "idle" => inserting'[t] \notin {"idle", "queued"} /\ url' = url
      /\ inserting[t] \notin {"idle", "queued"} => inserting'[t] # "patch"
  <2>1. MaxAttempts = 1 /\ attempt[t] \in Nat /\ inserting \in [Insert -> InsertPlaces]
    BY DEF Once, OnceInv, MediaInv, InsertTyped
  <2>2. ASSUME NEW o, NEW next \in Working \cup {"ended"}, Proceed(t, o, next),
               inserting[t] \in Working, next # "patch"
        PROVE  inserting'[t] \notin {"idle", "queued", "patch"}
    <3>1. attempt[t] > 0
      BY <2>2 DEF OnceInv, MediaInv, Attempts
    <3> QED
      BY <2>1, <2>2, <3>1 DEF Proceed, Working
  <2>3. ASSUME NEW o, InsertRead(t, o) PROVE inserting'[t] \in {"patch", "failed"} /\ url' = url
    <3>1. attempt'[t] = attempt[t] + 1
      BY <2>3 DEF InsertRead, OnceInv, MediaInv, InsertTyped
    <3> QED
      BY <2>1, <2>3, <3>1 DEF InsertRead
  <2>4. CASE \E u \in Url : RequestInsert(t, u)
    BY <2>1, <2>4 DEF RequestInsert
  <2>5. CASE \E o \in Outcome : InsertPatch(t, o)
    BY <2>2, <2>5 DEF InsertPatch, Working
  <2>6. CASE \E o \in Outcome : InsertClean(t, o)
    BY <2>1, <2>6 DEF InsertClean
  <2>7. CASE \E o \in Outcome : InsertClaim(t, o)
    BY <2>2, <2>7 DEF InsertClaim, Working
  <2>8. CASE \E o \in ReadOutcome : InsertMount(t, o)
    BY <2>2, <2>8 DEF InsertMount, Working
  <2>9. CASE \E o \in Outcome : InsertPod(t, o)
    BY <2>2, <2>9 DEF InsertPod, Working
  <2>10. CASE \E o \in Outcome : InsertLabel(t, o)
    BY <2>2, <2>10 DEF InsertLabel, Working
  <2>11. CASE \E o \in ReadOutcome : InsertRead(t, o)
    BY <2>3, <2>11 DEF InsertRead
  <2> QED
    BY <2>4, <2>5, <2>6, <2>7, <2>8, <2>9, <2>10, <2>11 DEF InsertStep
<1>8. VMOnce'
  <2>1. importing' # None => Over'
    <3>1. importing' # None => \E o \in Outcome : InsertLabel(t, o) /\ Applied(o)
      BY <1>3 DEF InsertStep, RequestInsert, InsertRead, InsertMount, InsertPatch, InsertClean,
                  InsertClaim, InsertPod, InsertLabel, SetImportingLabel, If, vmVars
    <3>2. ASSUME NEW o \in Outcome, InsertLabel(t, o) PROVE inserting'[t] \in {"ended", "failed"}
      <4>1. MaxAttempts = 1 /\ attempt[t] \in Nat /\ attempt[t] > 0 /\ inserting \in [Insert -> InsertPlaces]
        BY <3>2 DEF Once, OnceInv, MediaInv, InsertTyped, Attempts, InsertLabel, Working
      <4> QED
        BY <3>2, <4>1 DEF InsertLabel, Proceed
    <3> QED
      BY <1>1, <3>1, <3>2 DEF Over
  <2>2. volume' # None => inserting'[t] \notin {"idle", "queued", "patch"}
    <3>1. volume' = volume \/ inserting[t] = "patch"
      BY DEF InsertStep, RequestInsert, InsertRead, InsertMount, InsertPatch, InsertClean,
             InsertClaim, InsertPod, InsertLabel, vmVars
    <3>2. volume # None => inserting[t] \notin {"idle", "queued", "patch"}
      BY DEF OnceInv, VMOnce
    <3> QED
      BY <1>7, <3>1, <3>2
  <2> QED
    BY <1>1, <2>1, <2>2 DEF VMOnce
<1>9. ImportOnce'
  <2>1. ASSUME NEW p \in Claim
        PROVE  /\ pod'[p] \in {"succeeded", "failed"} => import'[p] # "open"
               /\ claim'[p] # "absent" => inserting'[p[1]] # "idle"
               /\ claim'[p] = "bound" /\ ByCDI(p)' => import'[p] # "open"
    <3>1. p[1] = t
      BY <1>1, OneClaim
    <3>2. pod'[p] = pod[p] \/ pod'[p] \in {"waiting", "running"}
      BY DEF InsertStep, RequestInsert, InsertRead, InsertMount, InsertPatch, InsertClean,
             InsertClaim, InsertPod, InsertLabel, objVars, If, OnceInv, MediaInv, ObjTyped
    <3>3. claim'[p] = claim[p] \/ claim'[p] \in {"absent", "pending"}
      BY DEF InsertStep, RequestInsert, InsertRead, InsertMount, InsertPatch, InsertClean,
             InsertClaim, InsertPod, InsertLabel, objVars, If, OnceInv, MediaInv, ObjTyped
    <3>4. claim'[p] = "bound" /\ ByCDI(p)' => ByCDI(p)
      BY <1>7, <3>1, <3>3 DEF OnceInv, ImportOnce, ByCDI
    <3> QED
      BY <1>5, <1>7, <3>1, <3>2, <3>3, <3>4 DEF OnceInv, ImportOnce
  <2> QED
    BY <1>5, <2>1 DEF OnceInv, ImportOnce
<1> QED
  BY <1>6, <1>8, <1>9 DEF OnceInv

\* What has to be over stays over, and what the label waits for stays at its
\* end: a step that changes no insertion and reopens no import.
LEMMA SettledStays ==
  ASSUME Once, OnceInv, MediaInv', Over, Settled, inserting' = inserting,
         volume' \in {volume, None}, \A p \in Claim : import[p] # "open" => import'[p] # "open",
         \/ importing' = importing
         \/ volume = None
         \/ \E p \in Claim : import[p] # "open"
  PROVE  Over' /\ Settled' /\ (Attached # "open" => Attached' # "open")
<1>1. volume \in Claim \cup {None} /\ \A p, q \in Claim : p = q
  BY OneClaim DEF OnceInv, MediaInv, VMTyped
<1>2. Attached # "open" => Attached' # "open"
  BY <1>1 DEF Attached
<1>3. (volume = None \/ \E p \in Claim : import[p] # "open") => Attached # "open"
  BY <1>1 DEF Attached
<1> QED
  BY <1>2, <1>3 DEF Over, Settled

LEMMA OnceEject ==
  ASSUME Once, OnceInv, MediaInv', NEW e \in Eject, EjectRead(e) \/ EjectStep(e)
  PROVE  OnceInv'
<1>1. UNCHANGED <<powerAfter, insertVars, powerVars, watchVars, import>>
  BY DEF EjectRead, EjectStep, EjectPatch, EjectPod, EjectLabel, EjectClaim, vmVars, objVars
<1>2. /\ volume' \in {volume, None} /\ importing' \in {importing, None}
      /\ \A p \in Claim : pod'[p] \in {pod[p], "none"} /\ claim'[p] \in {claim[p], "absent"}
      /\ importing' # importing => ejecting[e] = "label"
  BY DEF EjectRead, EjectStep, EjectPatch, EjectPod, EjectLabel, EjectClaim, vmVars, objVars, If,
         RemoveImportingLabel, OnceInv, MediaInv, ObjTyped
<1>3. ejecting[e] = "label" => Over /\ volume = None
  BY DEF OnceInv, EjectOnce
<1>4. Over => Over'
  BY <1>1 DEF Over, insertVars
<1>5. VMOnce'
  BY <1>1, <1>2, <1>4 DEF OnceInv, VMOnce, insertVars
<1>6. PowerOnce'
  <2>1. ASSUME Over, Settled PROVE Over' /\ Settled' /\ (Attached # "open" => Attached' # "open")
    BY <1>1, <1>2, <1>3, <2>1, SettledStays DEF insertVars
  <2>2. Attached # "open" => Settled
    BY DEF Settled
  <2>3. UNCHANGED <<powering, powerAfter, vmWatch>>
    BY <1>1 DEF powerVars, watchVars
  <2> QED
    BY <2>1, <2>2, <2>3 DEF OnceInv, PowerOnce
<1>7. ImportOnce'
  <2>1. UNCHANGED <<import, inserting, url, podWatch, claimWatch>>
    BY <1>1 DEF insertVars, watchVars
  <2>2. ASSUME NEW p \in Claim
        PROVE  /\ pod'[p] \in {"succeeded", "failed"} => import'[p] # "open"
               /\ claim'[p] # "absent" => inserting'[p[1]] # "idle"
               /\ claim'[p] = "bound" /\ ByCDI(p)' => import'[p] # "open"
    BY <1>2, <2>1 DEF OnceInv, ImportOnce, ByCDI
  <2> QED
    BY <2>1, <2>2 DEF OnceInv, ImportOnce
<1>8. EjectOnce'
  <2>1. ASSUME NEW d \in Eject, d # e PROVE ejecting'[d] = ejecting[d] /\ ejectSeen'[d] = ejectSeen[d]
    BY <2>1 DEF EjectRead, EjectStep, EjectPatch, EjectPod, EjectLabel, EjectClaim, EjectTo,
               OnceInv, MediaInv, EjectTyped
  <2>2. CASE EjectRead(e)
    <3>1. ejecting'[e] = "patch" /\ ejectSeen'[e] = VMSeen /\ UNCHANGED <<volume, importing>>
      BY <2>2 DEF EjectRead, EjectTo, vmVars, OnceInv, MediaInv, EjectTyped
    <3>2. VMSeen.label = importing /\ VMSeen.volume = volume
      BY DEF VMSeen
    <3> QED
      BY <1>4, <2>1, <3>1, <3>2 DEF OnceInv, EjectOnce, VMOnce
  <2>3. ASSUME NEW o \in Outcome, EjectPatch(e, o) PROVE EjectOnce'
    <3>1. /\ ejecting'[e] \in {"ended", "pod", "claim"}
          /\ ejecting'[e] = "pod" => ejectSeen[e].label # None /\ (ejectSeen[e].volume # None => volume' = None)
      BY <2>3 DEF EjectPatch, EjectTo, If, Applied, OnceInv, MediaInv, EjectTyped
    <3>2. ejecting'[e] = "pod" => Over' /\ volume' = None
      BY <1>2, <1>4, <2>3, <3>1 DEF EjectPatch, OnceInv, EjectOnce
    <3> QED
      BY <1>2, <1>4, <2>1, <3>1, <3>2 DEF OnceInv, EjectOnce
  <2>4. CASE \E o \in Outcome : EjectPod(e, o) \/ EjectLabel(e, o) \/ EjectClaim(e, o)
    <3>1. ejecting'[e] \in {"label", "claim", "ended"} /\ (ejecting'[e] = "label" => ejecting[e] = "pod")
      BY <2>4 DEF EjectPod, EjectLabel, EjectClaim, EjectTo, OnceInv, MediaInv, EjectTyped
    <3> QED
      BY <1>2, <1>4, <2>1, <3>1 DEF OnceInv, EjectOnce
  <2> QED
    BY <2>2, <2>3, <2>4 DEF EjectStep
<1> QED
  BY <1>5, <1>6, <1>7, <1>8 DEF OnceInv

\* A command is deferred, and put on the VM, while the label is there; and
\* it is taken off to run when the label is gone.
LEMMA OncePower ==
  ASSUME Once, OnceInv, MediaInv',
         (\E r \in Power : PowerCheck(r) \/ PowerStep(r)) \/ \E w \in Watcher : VMWatcher(w)
  PROVE  OnceInv'
<1>1. UNCHANGED <<volume, importing, objVars, insertVars, ejectVars, podWatch, claimWatch>>
  BY DEF PowerCheck, PowerStep, PowerDefer, PowerExecute, VMWatcher, WatchVM, ReleaseCommand,
         RunCommand, vmVars, watchVars
<1>2. (Over <=> Over') /\ (Settled <=> Settled') /\ Attached' = Attached
  BY <1>1 DEF Over, Settled, Attached, insertVars, objVars
<1>3. VMOnce' /\ EjectOnce' /\ ImportOnce'
  BY <1>1, <1>2 DEF OnceInv, VMOnce, EjectOnce, ImportOnce, ByCDI, insertVars, objVars, ejectVars
<1>4. PowerOnce'
  <2>1. CASE \E r \in Power : PowerCheck(r)
    <3>1. PICK r \in Power : PowerCheck(r)
      BY <2>1
    <3>2. UNCHANGED <<powerAfter, vmWatch>> /\ \A q \in Power : q # r => powering'[q] = powering[q]
      BY <3>1 DEF PowerCheck, PowerTo, vmVars, watchVars, OnceInv, MediaInv, PowerTyped
    <3>3. powering'[r] = "defer" => importing # None
      BY <3>1 DEF PowerCheck, PowerTo, IsImportInProgress, OnceInv, MediaInv, PowerTyped
    <3>4. powering'[r] = "defer" => Over /\ Settled
      BY <3>3 DEF OnceInv, VMOnce, Settled
    <3> QED
      BY <1>2, <3>2, <3>4 DEF OnceInv, PowerOnce
  <2>2. CASE \E r \in Power : PowerStep(r)
    <3>1. PICK r \in Power, o \in Outcome : PowerDefer(r, o) \/ PowerExecute(r, o)
      BY <2>2 DEF PowerStep
    <3>2. vmWatch' = vmWatch /\ \A q \in Power : powering'[q] = "defer" => powering[q] = "defer"
      BY <3>1 DEF PowerDefer, PowerExecute, PowerTo, vmVars, watchVars, OnceInv, MediaInv, PowerTyped
    <3>3. powerAfter' = powerAfter \/ powering[r] = "defer"
      BY <3>1 DEF PowerDefer, PowerExecute, vmVars
    <3> QED
      BY <1>2, <3>2, <3>3 DEF OnceInv, PowerOnce
  <2>3. ASSUME NEW w \in Watcher, VMWatcher(w) PROVE PowerOnce'
    <3>1. powering' = powering /\ powerAfter' \in {powerAfter, None}
      BY <2>3 DEF VMWatcher, WatchVM, ReleaseCommand, RunCommand, If, vmVars, powerVars
    <3>2. \A v \in Watcher : v # w => vmWatch'[v] = vmWatch[v]
      BY <2>3 DEF VMWatcher, WatchVM, ReleaseCommand, RunCommand, OnceInv, MediaInv, WatchTyped
    <3>3. vmWatch[w].at # "idle" \/ (powerAfter # None /\ importing = None)
      BY <2>3 DEF VMWatcher, WatchVM, ReleaseCommand, RunCommand, IsImportInProgress
    <3>4. Over /\ Attached # "open"
      BY <3>3 DEF OnceInv, PowerOnce, Settled
    <3> QED
      BY <1>2, <3>1, <3>2, <3>4 DEF OnceInv, PowerOnce
  <2> QED
    BY <2>1, <2>2, <2>3
<1> QED
  BY <1>3, <1>4 DEF OnceInv

\* The watchers of imports clear the label of an import that is at its end.
LEMMA OnceWatch ==
  ASSUME Once, OnceInv, MediaInv', NEW w \in Watcher, PodWatcher(w) \/ ClaimWatcher(w)
  PROVE  OnceInv'
<1>1. /\ UNCHANGED <<volume, powerAfter, insertVars, ejectVars, powerVars, vmWatch, claim, import>>
      /\ importing' \in {importing, None}
      /\ \A p \in Claim : pod'[p] \in {pod[p], "none"}
  BY DEF PodWatcher, WatchPod, DeletePod, CheckPod, ClearForPod, ClaimWatcher, WatchClaim,
         CheckClaim, ClearForClaim, vmVars, objVars, watchVars, If, RemoveImportingLabel,
         OnceInv, MediaInv, ObjTyped
<1>2. importing' # importing => \E p \in Claim : import[p] # "open"
  <2>1. importing' # importing => podWatch[w].at = "clear" \/ claimWatch[w].at = "clear"
    BY DEF PodWatcher, WatchPod, DeletePod, CheckPod, ClearForPod, ClaimWatcher, WatchClaim,
           CheckClaim, ClearForClaim, vmVars
  <2> QED
    BY <2>1, WatchersAt DEF OnceInv, ImportOnce
<1>3. Over => Over'
  BY <1>1 DEF Over, insertVars
<1>4. VMOnce' /\ EjectOnce'
  BY <1>1, <1>3 DEF OnceInv, VMOnce, EjectOnce, insertVars, ejectVars
<1>5. PowerOnce'
  <2>1. ASSUME Over, Settled PROVE Over' /\ Settled' /\ (Attached # "open" => Attached' # "open")
    BY <1>1, <1>2, <2>1, SettledStays DEF insertVars
  <2>2. Attached # "open" => Settled
    BY DEF Settled
  <2>3. UNCHANGED <<powering, powerAfter, vmWatch>>
    BY <1>1 DEF powerVars
  <2> QED
    BY <2>1, <2>2, <2>3 DEF OnceInv, PowerOnce
<1>6. ImportOnce'
  <2>1. \A v \in Watcher :
          /\ podWatch'[v].at # "idle" => import[podWatch'[v].of] # "open"
          /\ claimWatch'[v].at \in {"check", "clear"} => import[claimWatch'[v].of] # "open"
    <3>1. CASE PodWatcher(w)
      <4>1. /\ claimWatch' = claimWatch
            /\ \A v \in Watcher : v # w => podWatch'[v] = podWatch[v]
            /\ podWatch'[w].at # "idle" =>
                 \/ podWatch'[w].of \in Claim /\ pod[podWatch'[w].of] \in {"succeeded", "failed"}
                 \/ podWatch[w].at # "idle" /\ podWatch'[w].of = podWatch[w].of
        <5>1. \/ \E p \in Claim : podWatch' = [podWatch EXCEPT ![w] = At("delete", p)]
                               /\ pod[p] \in {"succeeded", "failed"}
              \/ \E place : podWatch' = [podWatch EXCEPT ![w] = At(place, podWatch[w].of)]
                         /\ podWatch[w].at # "idle"
              \/ podWatch' = [podWatch EXCEPT ![w] = Idle]
          BY <3>1 DEF PodWatcher, WatchPod, DeletePod, CheckPod, ClearForPod
        <5>2. claimWatch' = claimWatch
          BY <3>1 DEF PodWatcher, WatchPod, DeletePod, CheckPod, ClearForPod
        <5>3. DOMAIN podWatch = Watcher
          BY DEF OnceInv, MediaInv, WatchTyped
        <5> QED
          BY <5>1, <5>2, <5>3, WatchersAt DEF OnceInv
      <4> QED
        BY <4>1 DEF OnceInv, ImportOnce
    <3>2. CASE ClaimWatcher(w)
      <4>1. /\ podWatch' = podWatch
            /\ \A v \in Watcher : v # w => claimWatch'[v] = claimWatch[v]
        BY <3>2 DEF OnceInv, MediaInv, WatchTyped, ClaimWatcher, WatchClaim, CheckClaim, ClearForClaim
      <4>2. claimWatch'[w].at \in {"check", "clear"} =>
              LET p == claimWatch'[w].of
              IN  \/ p \in Claim /\ claim[p] = "bound" /\ ByCDI(p)
                  \/ claimWatch[w].at = "check" /\ p = claimWatch[w].of
        <5>1. ASSUME NEW q \in Claim, WatchClaim(w, q, TRUE)
              PROVE  claimWatch'[w].at = "check prime"
          BY <5>1, WatchersAt DEF OnceInv, MediaInv, WatchTyped, WatchClaim
        <5>2. ASSUME NEW q \in Claim, WatchClaim(w, q, FALSE)
              PROVE  claimWatch'[w].of = q /\ claim[q] = "bound" /\ ByCDI(q)
          BY <5>2, WatchersAt DEF OnceInv, MediaInv, WatchTyped, WatchClaim
        <5>3. ASSUME NEW o, CheckClaim(w, o) \/ ClearForClaim(w, o)
              PROVE  claimWatch'[w].at # "idle"
                       => claimWatch[w].at = "check" /\ claimWatch'[w].of = claimWatch[w].of
          <6>1. \/ claimWatch'[w] = Idle
                \/ claimWatch'[w] = At("clear", claimWatch[w].of) /\ claimWatch[w].at = "check"
            BY <5>3 DEF CheckClaim, ClearForClaim, OnceInv, MediaInv, WatchTyped
          <6>2. Idle.at = "idle" /\ At("clear", claimWatch[w].of).of = claimWatch[w].of
            BY WatchersAt DEF OnceInv
          <6> QED
            BY <6>1, <6>2
        <5> QED
          BY <3>2, <5>1, <5>2, <5>3 DEF ClaimWatcher
      <4> QED
        BY <4>1, <4>2 DEF OnceInv, ImportOnce
    <3> QED
      BY <3>1, <3>2
  <2> QED
    BY <1>1, <2>1 DEF OnceInv, ImportOnce, ByCDI, insertVars
<1> QED
  BY <1>4, <1>5, <1>6 DEF OnceInv

\* The cluster brings imports to their ends.
LEMMA OnceCluster ==
  ASSUME Once, OnceInv, MediaInv', Cluster
  PROVE  OnceInv'
<1>1. UNCHANGED <<vmVars, insertVars, ejectVars, powerVars, watchVars>>
  BY DEF Cluster, ClaimProgress, PodEnds
<1>2. \A p \in Claim : /\ import[p] # "open" => import'[p] # "open"
                       /\ pod'[p] = pod[p] \/ import'[p] # "open"
                       /\ claim'[p] # "absent" => claim[p] # "absent"
                       /\ claim'[p] = "bound" /\ ByCDI(p) => claim[p] = "bound" \/ import'[p] # "open"
  BY DEF Cluster, ClaimProgress, PodEnds, OnceInv, MediaInv, ObjTyped
<1>3. UNCHANGED <<volume, importing, powerAfter, url, inserting, ejecting, ejectSeen, powering,
                  vmWatch, podWatch, claimWatch>>
  BY <1>1 DEF vmVars, insertVars, ejectVars, powerVars, watchVars
<1>4. VMOnce' /\ EjectOnce'
  BY <1>3 DEF OnceInv, VMOnce, EjectOnce, Over
<1>5. PowerOnce'
  <2>1. ASSUME Over, Settled PROVE Over' /\ Settled' /\ (Attached # "open" => Attached' # "open")
    BY <1>2, <1>3, <2>1, SettledStays
  <2>2. Attached # "open" => Settled
    BY DEF Settled
  <2> QED
    BY <1>3, <2>1, <2>2 DEF OnceInv, PowerOnce
<1>6. ImportOnce'
  <2>1. ASSUME NEW p \in Claim
        PROVE  /\ pod'[p] \in {"succeeded", "failed"} => import'[p] # "open"
               /\ claim'[p] # "absent" => inserting'[p[1]] # "idle"
               /\ claim'[p] = "bound" /\ ByCDI(p)' => import'[p] # "open"
    BY <1>2, <1>3 DEF OnceInv, ImportOnce, ByCDI
  <2>2. \A w \in Watcher : /\ podWatch[w].at # "idle" => podWatch[w].of \in Claim
                           /\ claimWatch[w].at \in {"check", "clear"} => claimWatch[w].of \in Claim
    BY WatchersAt DEF OnceInv
  <2> QED
    BY <1>2, <1>3, <2>1, <2>2 DEF OnceInv, ImportOnce
<1> QED
  BY <1>4, <1>5, <1>6 DEF OnceInv

LEMMA OnceRestart ==
  ASSUME Once, OnceInv, MediaInv', Restart
  PROVE  OnceInv'
<1>1. /\ UNCHANGED <<volume, importing, powerAfter, pod, claim, import, url, ejectSeen>>
      /\ \A t \in Insert : /\ inserting[t] \in {"idle", "ended", "failed"} => inserting'[t] = inserting[t]
                           /\ inserting[t] \notin {"idle", "ended", "failed"} => inserting'[t] = "lost"
      /\ \A e \in Eject : ejecting'[e] \notin {"patch", "pod", "label"}
      /\ \A r \in Power : powering'[r] # "defer"
      /\ \A w \in Watcher : vmWatch'[w].at = "idle" /\ podWatch'[w].at = "idle" /\ claimWatch'[w].at = "idle"
  BY WatchersAt DEF OnceInv, Restart, AllIdle, vmVars, objVars
<1>2. Over => Over'
  BY <1>1 DEF Over
<1>3. Settled' = Settled
  BY <1>1 DEF Settled, Attached
<1>4. VMOnce' /\ EjectOnce' /\ PowerOnce'
  BY <1>1, <1>2, <1>3 DEF OnceInv, VMOnce, EjectOnce, PowerOnce
<1>5. ImportOnce'
  <2>1. \A p \in Claim : inserting[p[1]] # "idle" => inserting'[p[1]] # "idle"
    BY <1>1, OneClaim
  <2> QED
    BY <1>1, <2>1 DEF OnceInv, ImportOnce, ByCDI
<1> QED
  BY <1>4, <1>5 DEF OnceInv

\* Every step of one attempt keeps what it says of the label and the import.
LEMMA OnceStep ==
  ASSUME Once, PowerInv, OnceInv, [Next]_vars
  PROVE  OnceInv'
<1>1. MediaInv'
  BY MediaStep DEF OnceInv
<1>2. CASE \E t \in Insert : InsertStep(t) \/ \E u \in Url : RequestInsert(t, u)
  BY <1>1, <1>2, OnceInsert
<1>3. CASE \E e \in Eject : EjectRead(e) \/ EjectStep(e)
  BY <1>1, <1>3, OnceEject
<1>4. CASE (\E r \in Power : PowerCheck(r) \/ PowerStep(r)) \/ \E w \in Watcher : VMWatcher(w)
  BY <1>1, <1>4, OncePower
<1>5. CASE (\E w \in Watcher : PodWatcher(w) \/ ClaimWatcher(w)) \/ Cluster \/ Restart
  BY <1>1, <1>5, OnceWatch, OnceCluster, OnceRestart
<1>6. CASE UNCHANGED vars
  <2>1. UNCHANGED <<volume, importing, powerAfter, pod, claim, import, url, inserting, ejecting,
                    ejectSeen, powering, vmWatch, podWatch, claimWatch>>
    BY <1>6 DEF vars, vmVars, objVars, insertVars, ejectVars, powerVars, watchVars
  <2>2. VMOnce' /\ EjectOnce'
    BY <2>1 DEF OnceInv, VMOnce, EjectOnce, Over
  <2>3. PowerOnce'
    BY <2>1 DEF OnceInv, PowerOnce, Over, Settled, Attached
  <2>4. ImportOnce'
    BY <2>1 DEF OnceInv, ImportOnce, ByCDI
  <2> QED
    BY <1>1, <2>2, <2>3, <2>4 DEF OnceInv
<1> QED
  BY <1>2, <1>3, <1>4, <1>5, <1>6 DEF Next

\* "Power action deferred until ISO import completes": with one attempt of one
\* insertion, a command that was deferred takes effect only when the import
\* into the attached claim is over, whatever else is ejected, switched, lost
\* and restarted (handlePowerAfterImport).
THEOREM DeferredWaits ==
  ASSUME Once
  PROVE  Spec => DeferredAfterImport
<1>1. ASSUME PowerInv, OnceInv, [Next]_vars
      PROVE  [\A r \in Power : powering[r] = "deferred" /\ ran'[r] # ran[r] => Attached # "open"]_vars
  <2> SUFFICES ASSUME Next, NEW r \in Power, powering[r] = "deferred", ran'[r] # ran[r]
               PROVE  Attached # "open"
    BY <1>1
  <2>1. ASSUME NEW q \in Power, NEW o \in Outcome, PowerExecute(q, o) PROVE FALSE
    <3>1. q # r
      BY <2>1 DEF PowerExecute
    <3> QED
      BY <1>1, <2>1, <3>1 DEF PowerExecute, SetVMPowerState, If, OnceInv, MediaInv, PowerTyped
  <2>2. (\E w \in Watcher, o \in Outcome : RunCommand(w, o)) \/ \E q \in Power, o \in Outcome : PowerExecute(q, o)
    BY DEF Next, InsertStep, RequestInsert, InsertRead, InsertMount, InsertPatch, InsertClean, InsertClaim,
       InsertPod, InsertLabel, EjectStep, EjectRead, EjectPatch, EjectPod, EjectLabel, EjectClaim,
       PowerCheck, PowerStep, PowerDefer, VMWatcher, WatchVM, ReleaseCommand, PodWatcher, WatchPod,
       DeletePod, CheckPod, ClearForPod, ClaimWatcher, WatchClaim, CheckClaim, ClearForClaim,
       Cluster, ClaimProgress, PodEnds, Restart, powerVars
  <2>3. \E w \in Watcher : vmWatch[w].at # "idle"
    BY <2>1, <2>2 DEF RunCommand
  <2> QED
    BY <1>1, <2>3 DEF OnceInv, PowerOnce
<1>2. Once
  OBVIOUS
<1>3. Init => OnceInv
  BY <1>2, OnceInit
<1>4. PowerInv /\ OnceInv /\ [Next]_vars => OnceInv'
  BY <1>2, OnceStep
<1> QED
  BY <1>1, <1>3, <1>4, PowerInit, PowerStepKept, PTL DEF Spec, DeferredAfterImport

\* "A stale pod from a previous insert cycle must not clear the label that now
\* tracks the newer import": with one attempt of one insertion, the importing
\* label goes away only when the import it names is over or ejected, however
\* the three watchers and the ejections overlap (handleImportPodCompleted,
\* handleCDIPVCBound).
THEOREM LabelsWait ==
  ASSUME Once
  PROVE  Spec => LabelGoesWithItsImport
<1>1. ASSUME OnceInv, [Next]_vars
      PROVE  [importing # None /\ importing' = None
                => import[importing] # "open" \/ \E e \in Eject : ejecting[e] = "label"]_vars
  <2> SUFFICES ASSUME Next, importing # None, importing' = None, \A e \in Eject : ejecting[e] # "label"
               PROVE  import[importing] # "open"
    BY <1>1
  <2>1. \E w \in Watcher : podWatch[w].at = "clear" \/ claimWatch[w].at = "clear"
    <3>1. CASE \E t \in Insert : InsertStep(t) \/ \E u \in Url : RequestInsert(t, u)
      <4>1. PICK t \in Insert : InsertStep(t) \/ \E u \in Url : RequestInsert(t, u)
        BY <3>1
      <4>2. inserting[t] \notin {"ended", "failed"}
        BY <4>1 DEF InsertStep, RequestInsert, InsertRead, InsertMount, InsertPatch, InsertClean,
           InsertClaim, InsertPod, InsertLabel
      <4> QED
        BY <1>1, <4>2 DEF OnceInv, VMOnce, Over
    <3>2. CASE \E e \in Eject : EjectRead(e) \/ EjectStep(e)
      BY <3>2 DEF EjectStep, EjectRead, EjectPatch, EjectPod, EjectLabel, EjectClaim, vmVars
    <3>3. CASE \/ \E r \in Power : PowerCheck(r) \/ PowerStep(r)
               \/ \E w \in Watcher : VMWatcher(w)
               \/ Cluster \/ Restart
      BY <3>3 DEF PowerCheck, PowerStep, PowerDefer, PowerExecute, VMWatcher, WatchVM, ReleaseCommand,
         RunCommand, Cluster, ClaimProgress, PodEnds, Restart, vmVars
    <3>4. CASE \E w \in Watcher : PodWatcher(w) \/ ClaimWatcher(w)
      BY <3>4 DEF PodWatcher, WatchPod, DeletePod, CheckPod, ClearForPod, ClaimWatcher, WatchClaim,
         CheckClaim, ClearForClaim, vmVars
    <3> QED
      BY <3>1, <3>2, <3>3, <3>4 DEF Next
  <2>2. \E p \in Claim : import[p] # "open"
    BY <1>1, <2>1, WatchersAt DEF OnceInv, ImportOnce
  <2>3. importing \in Claim
    BY <1>1 DEF OnceInv, MediaInv, VMTyped
  <2> QED
    BY <2>2, <2>3, OneClaim
<1>2. Once
  OBVIOUS
<1>3. Init => OnceInv
  BY <1>2, OnceInit
<1>4. PowerInv /\ OnceInv /\ [Next]_vars => OnceInv'
  BY <1>2, OnceStep
<1> QED
  BY <1>1, <1>3, <1>4, PowerInit, PowerStepKept, PTL DEF Spec, LabelGoesWithItsImport
=============================================================================
