---------------------------- MODULE MediaImport ----------------------------
(***************************************************************************)
(* pkg/kubevirt/client.go and the virtual-media and power handlers of      *)
(* pkg/server/server.go: insertion and ejection of the CD-ROM of one VM,   *)
(* the import of the image by a helper pod or by CDI, and the power        *)
(* commands that are deferred while an import is in progress.              *)
(*                                                                         *)
(* Everything the server knows of an import it keeps on the VM object in   *)
(* the cluster: labels and annotations it reads, and changes with merge    *)
(* patches that carry no resourceVersion.  Each API call is a step; the    *)
(* goroutines between whose calls others run are the workers that insert,  *)
(* the handlers that eject and switch power, and the three kinds of        *)
(* watchers (VMs, import pods, CDI claims).  startWatchers starts one of   *)
(* each kind per chassis entry, so a VM has as many as there are entries   *)
(* over its namespace.  A watcher is told by events and by a sweep every   *)
(* minute; both lead to the same handler, so an event may be lost.         *)
(***************************************************************************)
EXTENDS Naturals

CONSTANTS Insert,       \* insertion tasks the clients create
          Eject,        \* eject requests
          Power,        \* power requests; each stands for its command
          Watcher,      \* chassis entries over the VM's namespace
          Url,          \* image URLs
          PodUrl,       \* those imported by a helper pod, the others by CDI
          MaxAttempts,  \* 1 + MaxRetries of the task's job
          MaxTroubles,  \* bound on failing API calls and restarts, together
          None

ASSUME MediaImportAssumption ==
  /\ PodUrl \subseteq Url
  /\ MaxAttempts \in Nat \ {0}
  /\ MaxTroubles \in Nat
  /\ None \notin (Insert \X (1..MaxAttempts)) \cup Url \cup Power

\* generateUniquePVCName: every attempt has a claim of its own, after which
\* its helper pod, its VolumeImportSource and its importing label are named.
Claim == Insert \X (1..MaxAttempts)

VARIABLES
  volume,      \* VM: the claim of volume cdrom0
  disk,        \* VM: there is a disk cdrom0
  mediaUrl,    \* VM: annotation virtual-media.redfish/cdrom0
  importing,   \* VM: label importing.redfish/cdrom0, as the claim it names
  powerAfter,  \* VM: label power-after-import.redfish
  claim,       \* the claims: absent, pending, primed, bound
  pod,         \* the helper pods: none, waiting, running, succeeded, failed
  import,      \* the imports: open, done (the claim holds the image), failed
  url,         \* Image of each insertion request
  inserting,   \* where each insertion is
  attempt,     \* how many attempts it has started
  seen,        \* the VM as the attempt read it
  ejecting,    \* where each ejection is
  ejectSeen,   \* the VM as it read it
  powering,    \* where each power request is
  ran,         \* how many times its SetVMPowerState took effect
  shared,      \* commands two watchers were about to release at once
  vmWatch,     \* what each VM watcher is doing, with which command
  podWatch,    \* what each import pod watcher is doing, with which pod
  claimWatch,  \* what each CDI claim watcher is doing, with which claim
  faults,      \* API calls that have failed
  crashes      \* restarts so far

vmVars     == <<volume, disk, mediaUrl, importing, powerAfter>>
objVars    == <<claim, pod, import>>
insertVars == <<url, inserting, attempt, seen>>
ejectVars  == <<ejecting, ejectSeen>>
powerVars  == <<powering, ran, shared>>
watchVars  == <<vmWatch, podWatch, claimWatch>>
vars == <<vmVars, objVars, insertVars, ejectVars, powerVars, watchVars, faults, crashes>>

-----------------------------------------------------------------------------
(* API calls: one may fail without effect, or have its effect while the    *)
(* caller gets an error (the context's deadline passes first).             *)

Outcome == {"ok", "refused", "unheard"}
ReadOutcome == {"ok", "refused"}

Applied(o) == o # "refused"

Api(o) ==
  /\ o = "ok" \/ faults + crashes < MaxTroubles
  /\ faults' = IF o = "ok" THEN faults ELSE faults + 1
  /\ UNCHANGED crashes

If(o, new, old) == IF Applied(o) THEN new ELSE old

Idle == [at |-> "idle", of |-> None]
At(place, x) == [at |-> place, of |-> x]
AllIdle == [w \in Watcher |-> Idle]

\* What a GetVM returns of the CD-ROM.
VMSeen == [volume |-> volume, disk |-> disk, url |-> mediaUrl, label |-> importing]
NotSeen == [volume |-> None, disk |-> FALSE, url |-> None, label |-> None]

-----------------------------------------------------------------------------
Init ==
  /\ volume = None /\ disk = FALSE /\ mediaUrl = None
  /\ importing = None /\ powerAfter = None
  /\ claim = [p \in Claim |-> "absent"]
  /\ pod = [p \in Claim |-> "none"]
  /\ import = [p \in Claim |-> "open"]
  /\ url = [t \in Insert |-> None]
  /\ inserting = [t \in Insert |-> "idle"]
  /\ attempt = [t \in Insert |-> 0]
  /\ seen = [t \in Insert |-> NotSeen]
  /\ ejecting = [e \in Eject |-> "idle"]
  /\ ejectSeen = [e \in Eject |-> NotSeen]
  /\ powering = [r \in Power |-> "idle"]
  /\ ran = [r \in Power |-> 0] /\ shared = {}
  /\ vmWatch = AllIdle /\ podWatch = AllIdle /\ claimWatch = AllIdle
  /\ faults = 0 /\ crashes = 0

-----------------------------------------------------------------------------
(* The labels *)

SetImportingLabel(p, o) == importing' = If(o, p, importing)
RemoveImportingLabel(o) == importing' = If(o, None, importing)
IsImportInProgress == importing # None
SetPowerAfterImportLabel(r, o) == powerAfter' = If(o, r, powerAfter)

-----------------------------------------------------------------------------
(* Insertion *)

\* CheckInsertedMedia: what the VM object says of an image.
CheckInsertedMedia(u) ==
  CASE volume = None                      -> "None"
    [] volume # None /\ mediaUrl # u      -> "Conflict"
    [] volume # None /\ mediaUrl = u /\ importing # None -> "Importing"
    [] OTHER                              -> "Ready"

\* handleInsertVirtualMedia: only with no media inserted is a task created;
\* the other answers change nothing.
RequestInsert(t, u) ==
  /\ inserting[t] = "idle"
  /\ CheckInsertedMedia(u) = "None"
  /\ url' = [url EXCEPT ![t] = u]
  /\ inserting' = [inserting EXCEPT ![t] = "queued"]
  /\ UNCHANGED <<vmVars, objVars, attempt, seen, ejectVars, powerVars, watchVars, faults, crashes>>

Current(t) == <<t, attempt[t]>>

\* Mutant: one attempt too many.
Proceed_OneMore(t, o, next) ==
  inserting' = [inserting EXCEPT ![t] =
                  IF o = "ok" THEN next
                  ELSE IF attempt[t] =< MaxAttempts THEN "queued" ELSE "failed"]

\* The attempt goes on at next, or ends in an error: the task manager retries
\* it from the start as long as attempts are left.
Proceed(t, o, next) ==
  inserting' = [inserting EXCEPT ![t] =
                  IF o = "ok" THEN next
                  ELSE IF attempt[t] < MaxAttempts THEN "queued" ELSE "failed"]

\* An attempt begins: a new claim name, and GetVM.
InsertRead(t, o) ==
  /\ inserting[t] = "queued"
  /\ Api(o)
  /\ attempt' = [attempt EXCEPT ![t] = @ + 1]
  /\ seen' = [seen EXCEPT ![t] = VMSeen]
  /\ inserting' = [inserting EXCEPT ![t] =
                     IF o = "ok" THEN "patch"
                     ELSE IF attempt'[t] < MaxAttempts THEN "queued" ELSE "failed"]
  /\ UNCHANGED <<vmVars, objVars, url, ejectVars, powerVars, watchVars>>

\* The merge patch against the VM that was read: the volume always changes;
\* the disk and the annotation are in the patch only if the VM that was read
\* lacked them.  Nothing in the patch detects a change in between.
InsertPatch(t, o) ==
  /\ inserting[t] = "patch"
  /\ Api(o)
  /\ volume' = If(o, Current(t), volume)
  /\ disk' = If(o, disk \/ ~seen[t].disk, disk)
  /\ mediaUrl' = If(o, IF seen[t].url # url[t] THEN url[t] ELSE mediaUrl, mediaUrl)
  /\ Proceed(t, o, IF seen[t].volume = None THEN "claim" ELSE "clean")
  /\ UNCHANGED <<importing, powerAfter, objVars, url, attempt, seen, ejectVars, powerVars, watchVars>>

\* The claim that was attached is deleted (with its VolumeImportSource); a
\* failure is only logged.
InsertClean(t, o) ==
  /\ inserting[t] = "clean"
  /\ Api(o)
  /\ claim' = If(o, [claim EXCEPT ![seen[t].volume] = "absent"], claim)
  /\ inserting' = [inserting EXCEPT ![t] = "claim"]
  /\ UNCHANGED <<vmVars, pod, import, url, attempt, seen, ejectVars, powerVars, watchVars>>

\* ensurePVC, for CDI after the VolumeImportSource it refers to.
InsertClaim(t, o) ==
  /\ inserting[t] = "claim"
  /\ Api(o)
  /\ claim' = If(o, [claim EXCEPT ![Current(t)] = "pending"], claim)
  /\ Proceed(t, o, IF url[t] \in PodUrl THEN "mount" ELSE "label")
  /\ UNCHANGED <<vmVars, pod, import, url, attempt, seen, ejectVars, powerVars, watchVars>>

\* copyISOToPVC reads the claim back: it may have been deleted.
InsertMount(t, o) ==
  /\ inserting[t] = "mount"
  /\ Api(o)
  /\ Proceed(t, IF claim[Current(t)] = "absent" THEN "refused" ELSE o, "pod")
  /\ UNCHANGED <<vmVars, objVars, url, attempt, seen, ejectVars, powerVars, watchVars>>

\* The helper pod is created; without its claim it waits for good.
InsertPod(t, o) ==
  /\ inserting[t] = "pod"
  /\ Api(o)
  /\ pod' = If(o, [pod EXCEPT ![Current(t)] =
                     IF claim[Current(t)] = "absent" THEN "waiting" ELSE "running"], pod)
  /\ Proceed(t, o, "label")
  /\ UNCHANGED <<vmVars, claim, import, url, attempt, seen, ejectVars, powerVars, watchVars>>

\* setImportingLabel, the last call of an attempt.
InsertLabel(t, o) ==
  /\ inserting[t] = "label"
  /\ Api(o)
  /\ SetImportingLabel(Current(t), o)
  /\ Proceed(t, o, "ended")
  /\ UNCHANGED <<volume, disk, mediaUrl, powerAfter, objVars, url, attempt, seen, ejectVars,
                 powerVars, watchVars>>

-----------------------------------------------------------------------------
(* Ejection *)

EjectTo(e, next) == ejecting' = [ejecting EXCEPT ![e] = next]

EjectRead(e) ==
  /\ ejecting[e] = "idle"
  /\ ejectSeen' = [ejectSeen EXCEPT ![e] = VMSeen]
  /\ EjectTo(e, "patch")
  /\ UNCHANGED <<vmVars, objVars, insertVars, powerVars, watchVars, faults, crashes>>

\* The merge patch takes away what the VM that was read had.  Only its
\* failure ends the ejection with an error.
EjectPatch(e, o) ==
  /\ ejecting[e] = "patch"
  /\ Api(o)
  /\ LET s == ejectSeen[e]
     IN  /\ volume' = If(o, IF s.volume # None THEN None ELSE volume, volume)
         /\ disk' = If(o, disk /\ ~s.disk, disk)
         /\ mediaUrl' = If(o, IF s.url # None THEN None ELSE mediaUrl, mediaUrl)
         /\ EjectTo(e, IF o # "ok" THEN "ended" ELSE IF s.label # None THEN "pod" ELSE "claim")
  /\ UNCHANGED <<importing, powerAfter, objVars, insertVars, ejectSeen, powerVars, watchVars>>

\* The pod the label named is killed.  There is none of the name a CDI
\* import's label has.
EjectPod(e, o) ==
  /\ ejecting[e] = "pod"
  /\ Api(o)
  /\ pod' = If(o, [pod EXCEPT ![ejectSeen[e].label] = "none"], pod)
  /\ EjectTo(e, "label")
  /\ UNCHANGED <<vmVars, claim, import, insertVars, ejectSeen, powerVars, watchVars>>

EjectLabel(e, o) ==
  /\ ejecting[e] = "label"
  /\ Api(o)
  /\ RemoveImportingLabel(o)
  /\ EjectTo(e, "claim")
  /\ UNCHANGED <<volume, disk, mediaUrl, powerAfter, objVars, insertVars, ejectSeen, powerVars,
                 watchVars>>

\* The claim of the ejected volume is deleted; with none seen, a fallback
\* name is tried that no attempt uses.
EjectClaim(e, o) ==
  /\ ejecting[e] = "claim"
  /\ Api(o)
  /\ claim' = If(o, [p \in Claim |-> IF p = ejectSeen[e].volume THEN "absent" ELSE claim[p]], claim)
  /\ EjectTo(e, "ended")
  /\ UNCHANGED <<vmVars, pod, import, insertVars, ejectSeen, powerVars, watchVars>>

-----------------------------------------------------------------------------
(* Power requests: handlePowerAction *)

PowerTo(r, next) == powering' = [powering EXCEPT ![r] = next]

\* IsImportInProgress.
PowerCheck(r) ==
  /\ powering[r] = "idle"
  /\ PowerTo(r, IF IsImportInProgress THEN "defer" ELSE "execute")
  /\ UNCHANGED <<vmVars, objVars, insertVars, ejectVars, ran, shared, watchVars, faults, crashes>>

\* SetPowerAfterImportLabel: the label keeps the last command, and the client
\* is told that its command is deferred.
PowerDefer(r, o) ==
  /\ powering[r] = "defer"
  /\ Api(o)
  /\ SetPowerAfterImportLabel(r, o)
  /\ PowerTo(r, IF o = "ok" THEN "deferred" ELSE "ended")
  /\ UNCHANGED <<volume, disk, mediaUrl, importing, objVars, insertVars, ejectVars, ran, shared,
                 watchVars>>

\* SetVMPowerState.
SetVMPowerState(r, o) == ran' = If(o, [ran EXCEPT ![r] = @ + 1], ran)

PowerExecute(r, o) ==
  /\ powering[r] = "execute"
  /\ Api(o)
  /\ SetVMPowerState(r, o)
  /\ PowerTo(r, "ended")
  /\ UNCHANGED <<vmVars, objVars, insertVars, ejectVars, shared, watchVars>>

-----------------------------------------------------------------------------
(* The VM watchers: handleVMUpdate and handlePowerAfterImport *)

\* History: the command on the VM is read while another watcher, which has
\* read it too, has yet to take its label off.
ReadBy(w) ==
  shared' = IF \E v \in Watcher \ {w} : vmWatch[v] = At("release", powerAfter)
            THEN shared \cup {powerAfter} ELSE shared

\* Mutant: the importing labels are not looked at.
WatchVM_Hasty(w) ==
  /\ vmWatch[w].at = "idle"
  /\ powerAfter # None
  /\ vmWatch' = [vmWatch EXCEPT ![w] = At("release", powerAfter)]
  /\ ReadBy(w)
  /\ UNCHANGED <<vmVars, objVars, insertVars, ejectVars, powering, ran, podWatch, claimWatch,
                 faults, crashes>>

\* The VM is read afresh: it has a deferred command and no import is left.
WatchVM(w) ==
  /\ vmWatch[w].at = "idle"
  /\ powerAfter # None
  /\ ~IsImportInProgress
  /\ vmWatch' = [vmWatch EXCEPT ![w] = At("release", powerAfter)]
  /\ ReadBy(w)
  /\ UNCHANGED <<vmVars, objVars, insertVars, ejectVars, powering, ran, podWatch, claimWatch,
                 faults, crashes>>

\* Mutant: the error of the patch is logged and the command runs.
ReleaseCommand_Anyway(w, o) ==
  /\ vmWatch[w].at = "release"
  /\ Api(o)
  /\ powerAfter' = If(o, None, powerAfter)
  /\ vmWatch' = [vmWatch EXCEPT ![w] = At("run", vmWatch[w].of)]
  /\ UNCHANGED <<volume, disk, mediaUrl, importing, objVars, insertVars, ejectVars, powerVars,
                 podWatch, claimWatch>>

\* Mutant: the command is read back after its label is gone.
ReleaseCommand_ReadsLate(w, o) ==
  /\ vmWatch[w].at = "release"
  /\ Api(o)
  /\ powerAfter' = If(o, None, powerAfter)
  /\ vmWatch' = [vmWatch EXCEPT ![w] = Idle]
  /\ UNCHANGED <<volume, disk, mediaUrl, importing, objVars, insertVars, ejectVars, powerVars,
                 podWatch, claimWatch>>

\* The power label is removed first; on an error the command stays deferred.
\* That somebody else has removed it is no error.
ReleaseCommand(w, o) ==
  /\ vmWatch[w].at = "release"
  /\ Api(o)
  /\ powerAfter' = If(o, None, powerAfter)
  /\ vmWatch' = [vmWatch EXCEPT ![w] = IF o = "ok" THEN At("run", vmWatch[w].of) ELSE Idle]
  /\ UNCHANGED <<volume, disk, mediaUrl, importing, objVars, insertVars, ejectVars, powerVars,
                 podWatch, claimWatch>>

\* The command that was read runs; a failure is only logged.
RunCommand(w, o) ==
  /\ vmWatch[w].at = "run"
  /\ Api(o)
  /\ SetVMPowerState(vmWatch[w].of, o)
  /\ vmWatch' = [vmWatch EXCEPT ![w] = Idle]
  /\ UNCHANGED <<vmVars, objVars, insertVars, ejectVars, powering, shared, podWatch, claimWatch>>

-----------------------------------------------------------------------------
(* The import pod watchers: handleImportPodCompleted *)

WatchPod(w, p) ==
  /\ podWatch[w].at = "idle"
  /\ pod[p] \in {"succeeded", "failed"}
  /\ podWatch' = [podWatch EXCEPT ![w] = At("delete", p)]
  /\ UNCHANGED <<vmVars, objVars, insertVars, ejectVars, powerVars, vmWatch, claimWatch, faults,
                 crashes>>

\* The pod goes first, to release the volume; a failure (it may be gone) is
\* only logged.
DeletePod(w, o) ==
  /\ podWatch[w].at = "delete"
  /\ Api(o)
  /\ pod' = If(o, [pod EXCEPT ![podWatch[w].of] = "none"], pod)
  /\ podWatch' = [podWatch EXCEPT ![w] = At("check", podWatch[w].of)]
  /\ UNCHANGED <<vmVars, claim, import, insertVars, ejectVars, powerVars, vmWatch, claimWatch>>

\* GetVM: only the pod the label names goes on to clear it.
CheckPod(w, o) ==
  /\ podWatch[w].at = "check"
  /\ Api(o)
  /\ podWatch' = [podWatch EXCEPT ![w] =
                  IF o = "ok" /\ importing = @.of THEN At("clear", @.of) ELSE Idle]
  /\ UNCHANGED <<vmVars, objVars, insertVars, ejectVars, powerVars, vmWatch, claimWatch>>

\* removeImportingLabel.
ClearForPod(w, o) ==
  /\ podWatch[w].at = "clear"
  /\ Api(o)
  /\ RemoveImportingLabel(o)
  /\ podWatch' = [podWatch EXCEPT ![w] = Idle]
  /\ UNCHANGED <<volume, disk, mediaUrl, powerAfter, objVars, insertVars, ejectVars, powerVars,
                 vmWatch, claimWatch>>

-----------------------------------------------------------------------------
(* The CDI claim watchers: handleCDIPVCBound *)

ByCDI(p) == url[p[1]] \notin PodUrl

\* A labelled claim is seen Bound: CDI's prime copy of p, or p itself.
WatchClaim(w, p, prime) ==
  /\ claimWatch[w].at = "idle"
  /\ ByCDI(p)
  /\ claim[p] = IF prime THEN "primed" ELSE "bound"
  /\ claimWatch' = [claimWatch EXCEPT ![w] = At(IF prime THEN "check prime" ELSE "check", p)]
  /\ UNCHANGED <<vmVars, objVars, insertVars, ejectVars, powerVars, vmWatch, podWatch, faults,
                 crashes>>

\* Mutant: a prime claim passes for the original.
CheckClaim_Prime(w, o) ==
  /\ claimWatch[w].at \in {"check", "check prime"}
  /\ Api(o)
  /\ claimWatch' = [claimWatch EXCEPT ![w] =
                    IF o = "ok" /\ importing = @.of THEN At("clear", @.of) ELSE Idle]
  /\ UNCHANGED <<vmVars, objVars, insertVars, ejectVars, powerVars, vmWatch, podWatch>>

\* Mutant: the claim's name is compared with the label, "cdi-" and all.
CheckClaim_WholeLabel(w, o) ==
  /\ claimWatch[w].at \in {"check", "check prime"}
  /\ Api(o)
  /\ claimWatch' = [claimWatch EXCEPT ![w] = Idle]
  /\ UNCHANGED <<vmVars, objVars, insertVars, ejectVars, powerVars, vmWatch, podWatch>>

\* GetVM: the label has to name this very claim.
CheckClaim(w, o) ==
  /\ claimWatch[w].at \in {"check", "check prime"}
  /\ Api(o)
  /\ claimWatch' = [claimWatch EXCEPT ![w] =
                    IF o = "ok" /\ @.at = "check" /\ importing = @.of
                    THEN At("clear", @.of) ELSE Idle]
  /\ UNCHANGED <<vmVars, objVars, insertVars, ejectVars, powerVars, vmWatch, podWatch>>

ClearForClaim(w, o) ==
  /\ claimWatch[w].at = "clear"
  /\ Api(o)
  /\ RemoveImportingLabel(o)
  /\ claimWatch' = [claimWatch EXCEPT ![w] = Idle]
  /\ UNCHANGED <<volume, disk, mediaUrl, powerAfter, objVars, insertVars, ejectVars, powerVars,
                 vmWatch, podWatch>>

-----------------------------------------------------------------------------
(* The cluster *)

\* The helper pod's curl ends, with the whole image on the claim or not; it
\* is bounded by --max-time and never restarted.
PodEnds(p, result) ==
  /\ pod[p] = "running"
  /\ pod' = [pod EXCEPT ![p] = result]
  /\ import' = [import EXCEPT ![p] = IF result = "succeeded" THEN "done" ELSE "failed"]
  /\ UNCHANGED <<vmVars, claim, insertVars, ejectVars, powerVars, watchVars, faults, crashes>>

\* A helper pod's claim binds whenever the provisioner likes.  CDI binds a
\* prime copy first, fills it, and then rebinds it to the claim.
ClaimProgress(p) ==
  /\ claim[p] \in {"pending", "primed"}
  /\ claim' = [claim EXCEPT ![p] =
                 IF claim[p] = "pending" /\ ByCDI(p) THEN "primed" ELSE "bound"]
  /\ import' = IF claim[p] = "primed" THEN [import EXCEPT ![p] = "done"] ELSE import
  /\ UNCHANGED <<vmVars, pod, insertVars, ejectVars, powerVars, watchVars, faults, crashes>>

\* The server dies and a new one starts: what was in memory is lost.
Restart ==
  /\ faults + crashes < MaxTroubles
  /\ crashes' = crashes + 1
  /\ inserting' = [t \in Insert |-> IF inserting[t] \in {"idle", "ended", "failed"}
                                    THEN inserting[t] ELSE "lost"]
  /\ ejecting' = [e \in Eject |-> IF ejecting[e] \in {"idle", "ended"} THEN ejecting[e] ELSE "lost"]
  /\ powering' = [r \in Power |-> IF powering[r] \in {"defer", "execute"} THEN "lost"
                                  ELSE powering[r]]
  /\ vmWatch' = AllIdle /\ podWatch' = AllIdle /\ claimWatch' = AllIdle
  /\ UNCHANGED <<vmVars, objVars, url, attempt, seen, ejectSeen, ran, shared, faults>>

-----------------------------------------------------------------------------
InsertStep(t) ==
  \/ \E o \in ReadOutcome : InsertRead(t, o) \/ InsertMount(t, o)
  \/ \E o \in Outcome : \/ InsertPatch(t, o) \/ InsertClean(t, o) \/ InsertClaim(t, o)
                        \/ InsertPod(t, o) \/ InsertLabel(t, o)

EjectStep(e) ==
  \E o \in Outcome : EjectPatch(e, o) \/ EjectPod(e, o) \/ EjectLabel(e, o) \/ EjectClaim(e, o)

PowerStep(r) == \E o \in Outcome : PowerDefer(r, o) \/ PowerExecute(r, o)

VMWatcher(w) == WatchVM(w) \/ \E o \in Outcome : ReleaseCommand(w, o) \/ RunCommand(w, o)

PodWatcher(w) ==
  \/ \E p \in Claim : WatchPod(w, p)
  \/ \E o \in Outcome : DeletePod(w, o) \/ ClearForPod(w, o)
  \/ \E o \in ReadOutcome : CheckPod(w, o)

ClaimWatcher(w) ==
  \/ \E p \in Claim, prime \in BOOLEAN : WatchClaim(w, p, prime)
  \/ \E o \in ReadOutcome : CheckClaim(w, o)
  \/ \E o \in Outcome : ClearForClaim(w, o)

Cluster ==
  \E p \in Claim : ClaimProgress(p) \/ \E result \in {"succeeded", "failed"} : PodEnds(p, result)

Next ==
  \/ \E t \in Insert : InsertStep(t) \/ \E u \in Url : RequestInsert(t, u)
  \/ \E e \in Eject : EjectRead(e) \/ EjectStep(e)
  \/ \E r \in Power : PowerCheck(r) \/ PowerStep(r)
  \/ \E w \in Watcher : VMWatcher(w) \/ PodWatcher(w) \/ ClaimWatcher(w)
  \/ Cluster
  \/ Restart

Spec == Init /\ [][Next]_vars

\* Every goroutine that can go on does; a watcher's sweep comes to every
\* object that waits for it; pods are bounded by curl's --max-time, and CDI is
\* taken to finish its imports.  Clients and restarts are not obliged.
Fairness ==
  /\ \A t \in Insert : WF_vars(InsertStep(t))
  /\ \A e \in Eject : WF_vars(EjectStep(e))
  /\ \A r \in Power : WF_vars(PowerStep(r))
  /\ \A w \in Watcher : WF_vars(VMWatcher(w)) /\ WF_vars(PodWatcher(w)) /\ WF_vars(ClaimWatcher(w))
  /\ \A p \in Claim :
       /\ SF_vars(\E w \in Watcher : WatchPod(w, p))
       /\ SF_vars(\E w \in Watcher : WatchClaim(w, p, FALSE))
       /\ WF_vars(ClaimProgress(p))
       /\ WF_vars(\E result \in {"succeeded", "failed"} : PodEnds(p, result))

FairSpec == Spec /\ Fairness

-----------------------------------------------------------------------------
(* Properties *)

Watching(places, S) == {Idle} \cup [at : places, of : S]

Seen == [volume : Claim \cup {None}, disk : BOOLEAN, url : Url \cup {None},
         label : Claim \cup {None}]

TypeOK ==
  /\ volume \in Claim \cup {None} /\ disk \in BOOLEAN /\ mediaUrl \in Url \cup {None}
  /\ importing \in Claim \cup {None} /\ powerAfter \in Power \cup {None}
  /\ claim \in [Claim -> {"absent", "pending", "primed", "bound"}]
  /\ pod \in [Claim -> {"none", "waiting", "running", "succeeded", "failed"}]
  /\ import \in [Claim -> {"open", "done", "failed"}]
  /\ url \in [Insert -> Url \cup {None}]
  /\ inserting \in [Insert -> {"idle", "queued", "patch", "clean", "claim", "mount", "pod",
                               "label", "ended", "failed", "lost"}]
  /\ attempt \in [Insert -> 0..MaxAttempts]
  /\ seen \in [Insert -> Seen]
  /\ ejecting \in [Eject -> {"idle", "patch", "pod", "label", "claim", "ended", "lost"}]
  /\ ejectSeen \in [Eject -> Seen]
  /\ powering \in [Power -> {"idle", "defer", "execute", "deferred", "ended", "lost"}]
  /\ ran \in [Power -> Nat] /\ shared \subseteq Power
  /\ vmWatch \in [Watcher -> Watching({"release", "run"}, Power)]
  /\ podWatch \in [Watcher -> Watching({"delete", "check", "clear"}, Claim)]
  /\ claimWatch \in [Watcher -> Watching({"check", "check prime", "clear"}, Claim)]
  /\ faults \in Nat /\ crashes \in Nat /\ faults + crashes =< MaxTroubles

\* "Remove the power-after-import label first to avoid re-triggering": no power
\* command, deferred or not, takes effect twice, whatever events are repeated,
\* calls fail or servers restart - unless two chassis entries select the VM's
\* namespace and the watcher of each reads the command before either takes its
\* label off: both removals succeed, and both run it (handlePowerAfterImport).
AtMostOnce == \A r \in Power : ran[r] =< 1 \/ r \in shared

Attached == IF volume = None THEN "none" ELSE import[volume]

\* "Power action deferred until ISO import completes": when a deferred command
\* takes effect, the import into the attached claim is over.
DeferredAfterImport ==
  [][\A r \in Power :
       powering[r] = "deferred" /\ ran'[r] # ran[r] => Attached # "open"]_vars

\* "A stale pod from a previous insert cycle must not clear the label that now
\* tracks the newer import", and neither may a prime claim: the importing label
\* goes away only when the import it names is over (or ejected).
LabelGoesWithItsImport ==
  [][importing # None /\ importing' = None
       => import[importing] # "open" \/ \E e \in Eject : ejecting[e] = "label"]_vars

\* The importing label set for an import is eventually removed, or replaced by
\* the label of a later one: "the import pod watcher handles completion
\* detection, VM label cleanup, and pod deletion", "the PVC watcher removes
\* this label later".
ImportEnds == \A p \in Claim : importing = p ~> importing # p

\* A command whose client was told that it is deferred takes effect, if no
\* API call failed and the server did not restart.
DeferredRuns ==
  \A r \in Power : powering[r] = "deferred" ~> (ran[r] > 0 \/ faults > 0 \/ crashes > 0)

\* "a periodic sweep ... to catch any objects that fell through the cracks
\* (e.g. the race between IsImportInProgress and SetPowerAfterImportLabel)":
\* the deferred command that leaves the VM is the one the watcher runs.
NoCommandOvertaken ==
  [][powerAfter # None /\ powerAfter' = None
       => \E w \in Watcher : vmWatch[w] = At("release", powerAfter)]_vars
=============================================================================
