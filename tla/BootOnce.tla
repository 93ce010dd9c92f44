------------------------------ MODULE BootOnce ------------------------------
(***************************************************************************)
(* pkg/kubevirt/client.go and handleBootUpdate of pkg/server/server.go:    *)
(* the boot order of one VM, changed for good or for the next boot only.   *)
(*                                                                         *)
(* "Boot once" rewrites the VM's boot order at once, keeps the order it    *)
(* found and the UID of the instance then running in annotations, and      *)
(* leaves it to the VM watcher to put the order back when it sees another  *)
(* instance.  Every request is a sequence of API calls; a patch carries    *)
(* only what differs from the VM the request read, the list of disks as a  *)
(* whole, and no resourceVersion.                                          *)
(***************************************************************************)
EXTENDS Naturals

CONSTANTS Request,     \* the boot updates clients send
          Enabled,     \* the values of BootSourceOverrideEnabled they use
          HddCount,    \* the VM's hard disks, in the order of its disk list
          Cd, Aux,     \* its CD-ROM, and a disk that is neither (cloud-init)
          MaxBoots,    \* bound on instances of the VM
          MaxFaults,   \* bound on failing API calls
          MaxCrashes,  \* bound on restarts of the server
          None

Hdd == 1..HddCount
Device == Hdd \cup {Cd, Aux}
Target == {"Cd", "Hdd"}

\* The lists of disks, each with its place in the boot order or 0.
Orders == 0..(HddCount + 1)
Config == [Device -> Orders] \cup [Device \ {Cd} -> Orders]

ASSUME BootOnceAssumption ==
  /\ Enabled \subseteq {"Once", "Continuous"}
  /\ HddCount \in Nat \ {0}
  /\ MaxBoots \in Nat /\ MaxFaults \in Nat /\ MaxCrashes \in Nat
  /\ Cd # Aux /\ {Cd, Aux} \cap Hdd = {}
  /\ None \notin Nat /\ None \notin Config

\* An instance's UID; an empty UID stands for no instance.
NoVMI == 0

VARIABLES
  disks,      \* VM: the boot order of each of its disks, 0 if it has none
  cdVolume,   \* VM: there is a volume for the CD-ROM
  label,      \* VM: label redfish.boot.once=enabled
  original,   \* VM: annotation ...original-config
  recorded,   \* VM: annotation ...vmi-uid, None if absent
  override,   \* VM: annotation redfish.boot.source.override.enabled
  vmi,        \* the instance that runs
  boots,      \* instances so far
  request,    \* where each boot update is, and what it asks for
  seen,       \* the VM as the update read it
  seenVMI,    \* the UID it read
  watch,      \* where the VM watcher is
  watched,    \* the VM as the watcher read it
  permanent,  \* history: the boot order of the hard disks outside any boot-once
  faults, crashes

vmVars      == <<disks, cdVolume, label, original, recorded, override>>
instVars    == <<vmi, boots>>
requestVars == <<request, seen, seenVMI>>
watchVars   == <<watch, watched>>
vars == <<vmVars, instVars, requestVars, watchVars, permanent, faults, crashes>>

-----------------------------------------------------------------------------
(* The helpers of the client *)

\* A call may fail without effect, or take effect unheard.
Outcome == {"ok", "refused", "unheard"}
ReadOutcome == {"ok", "refused"}

Api(o) ==
  /\ o = "ok" \/ faults < MaxFaults
  /\ faults' = IF o = "ok" THEN faults ELSE faults + 1
  /\ UNCHANGED crashes

VMSeen == [disks |-> disks, cdVolume |-> cdVolume, label |-> label, original |-> original,
           recorded |-> recorded, override |-> override]

\* computeVMPatch, and the patch applied: a field that was modified gets its
\* new value, every other keeps what it has by now.
Merged(now, read, modified) == IF modified = read THEN now ELSE modified

Patch(read, new) ==
  /\ disks' = Merged(disks, read.disks, new.disks)
  /\ label' = Merged(label, read.label, new.label)
  /\ original' = Merged(original, read.original, new.original)
  /\ recorded' = Merged(recorded, read.recorded, new.recorded)
  /\ override' = Merged(override, read.override, new.override)
  /\ UNCHANGED cdVolume

\* Mutants of modifyVmBootOrder: the hard disks start one place too late;
\* the hard disks get no place behind the CD-ROM.
modifyVmBootOrder_OffByOne(vm, target) ==
  LET cds == IF vm.cdVolume THEN 1 ELSE 0
  IN  [d \in DOMAIN vm.disks |->
         CASE d = Cd /\ vm.cdVolume /\ target = "Cd" -> 1
           [] d \in Hdd /\ target = "Hdd" -> d
           [] d \in Hdd /\ target = "Cd" -> cds + d + 1
           [] OTHER -> 0]
modifyVmBootOrder_NoBackup(vm, target) ==
  [d \in DOMAIN vm.disks |->
     CASE d = Cd /\ vm.cdVolume /\ target = "Cd" -> 1
       [] d \in Hdd /\ target = "Hdd" -> d
       [] OTHER -> 0]

\* modifyVmBootOrder: the target's devices come first, the hard disks behind
\* a CD-ROM, and all others lose their place.
modifyVmBootOrder(vm, target) ==
  LET cds == IF vm.cdVolume THEN 1 ELSE 0
  IN  [d \in DOMAIN vm.disks |->
         CASE d = Cd /\ vm.cdVolume /\ target = "Cd" -> 1
           [] d \in Hdd /\ target = "Hdd" -> d
           [] d \in Hdd /\ target = "Cd" -> cds + d
           [] OTHER -> 0]

\* Mutant: a disk that had no place keeps the one it was given.
restoreBootOrder_SkipsNil(ds, config) ==
  [d \in DOMAIN ds |-> IF d \in DOMAIN config /\ config[d] # 0 THEN config[d] ELSE ds[d]]

\* restoreBootOrder: disks the saved configuration does not know keep theirs.
restoreBootOrder(ds, config) ==
  [d \in DOMAIN ds |-> IF d \in DOMAIN config THEN config[d] ELSE ds[d]]

-----------------------------------------------------------------------------
HddOrder(ds) == [d \in Hdd |-> ds[d]]

Idle == [at |-> "idle", enabled |-> None, target |-> None]

Init ==
  /\ \E plain \in BOOLEAN, cd \in BOOLEAN :
       /\ disks = [d \in IF cd THEN Device ELSE Device \ {Cd} |->
                     IF d \in Hdd /\ ~plain THEN d ELSE 0]
       /\ cdVolume = cd
  /\ label = FALSE /\ original = None /\ recorded = None /\ override = None
  /\ vmi \in {NoVMI, 1} /\ boots = vmi
  /\ request = [r \in Request |-> Idle]
  /\ seen = [r \in Request |-> VMSeen]
  /\ seenVMI = [r \in Request |-> NoVMI]
  /\ watch = "idle" /\ watched = VMSeen
  /\ permanent = HddOrder(disks)
  /\ faults = 0 /\ crashes = 0

-----------------------------------------------------------------------------
(* handleBootUpdate *)

At(r, place) == request' = [request EXCEPT ![r].at = place]

\* The request is parsed.
BootUpdate(r, enabled, target) ==
  /\ request[r].at = "idle"
  /\ request' = [request EXCEPT ![r] = [at |-> "options", enabled |-> enabled, target |-> target]]
  /\ UNCHANGED <<vmVars, instVars, seen, seenVMI, watchVars, permanent, faults, crashes>>

\* RecordVMBootOptionsAsAnnotations: GetVM, then a patch of the override
\* annotations.  An error ends the request.
OptionsRead(r, o) ==
  /\ request[r].at = "options"
  /\ Api(o)
  /\ seen' = [seen EXCEPT ![r] = VMSeen]
  /\ At(r, IF o = "ok" THEN "record" ELSE "ended")
  /\ UNCHANGED <<vmVars, instVars, seenVMI, watchVars, permanent>>

OptionsPatch(r, o) ==
  /\ request[r].at = "record"
  /\ Api(o)
  /\ IF o = "refused" THEN UNCHANGED vmVars
     ELSE Patch(seen[r], [seen[r] EXCEPT !.override = request[r].enabled])
  /\ At(r, IF o = "ok" THEN "read" ELSE "ended")
  /\ UNCHANGED <<instVars, seen, seenVMI, watchVars, permanent>>

\* SetBootOnce and SetBootOrder begin with a GetVM of their own.  From here on
\* an error is only logged.
BootRead(r, o) ==
  /\ request[r].at = "read"
  /\ Api(o)
  /\ seen' = [seen EXCEPT ![r] = VMSeen]
  /\ At(r, IF o # "ok" THEN "ended" ELSE IF request[r].enabled = "Once" THEN "uid" ELSE "order")
  /\ UNCHANGED <<vmVars, instVars, seenVMI, watchVars, permanent>>

\* getVMIUID: no instance and no answer look the same.
GetVMIUID(r, o) ==
  /\ request[r].at = "uid"
  /\ Api(o)
  /\ seenVMI' = [seenVMI EXCEPT ![r] = IF o = "ok" THEN vmi ELSE NoVMI]
  /\ At(r, "once")
  /\ UNCHANGED <<vmVars, instVars, seen, watchVars, permanent>>

\* Mutant: a second boot-once saves the order the first one has set.
OnceConfig_Recaptures(vm, uid) == [config |-> vm.disks, uid |-> uid]

\* What SetBootOnce saves: with a boot-once already pending for the instance
\* that still runs, what is saved; otherwise the order found, the one of a
\* stale boot-once put back first.
OnceConfig(vm, uid) ==
  IF vm.original # None /\ vm.recorded # NoVMI /\ vm.recorded = uid
  THEN [config |-> vm.original, uid |-> vm.recorded]
  ELSE [config |-> IF vm.original = None THEN vm.disks ELSE restoreBootOrder(vm.disks, vm.original),
        uid |-> uid]

\* The VM SetBootOnce asks for.  The order put back before it is captured is
\* overwritten at once.
BootingOnce(vm, uid, target) ==
  [vm EXCEPT !.disks = modifyVmBootOrder(vm, target), !.label = TRUE, !.override = "Once",
             !.original = OnceConfig(vm, uid).config, !.recorded = OnceConfig(vm, uid).uid]

SetBootOnce(r, o) ==
  /\ request[r].at = "once"
  /\ Api(o)
  /\ IF o = "refused" THEN UNCHANGED vmVars
     ELSE Patch(seen[r], BootingOnce(seen[r], seenVMI[r], request[r].target))
  /\ At(r, "ended")
  /\ UNCHANGED <<instVars, seen, seenVMI, watchVars, permanent>>

SetBootOrder(r, o) ==
  /\ request[r].at = "order"
  /\ Api(o)
  /\ IF o = "refused" THEN UNCHANGED <<vmVars, permanent>>
     ELSE /\ Patch(seen[r], [seen[r] EXCEPT !.disks = modifyVmBootOrder(seen[r], request[r].target)])
          /\ permanent' = HddOrder(modifyVmBootOrder(seen[r], request[r].target))
  /\ At(r, "ended")
  /\ UNCHANGED <<instVars, seen, seenVMI, watchVars>>

-----------------------------------------------------------------------------
(* The VM watcher: handleVMUpdate, for an event or a sweep *)

\* The VM is read afresh; it has a boot-once with a saved configuration.
WatchVM ==
  /\ watch = "idle"
  /\ label /\ original # None
  /\ watch' = "uid"
  /\ watched' = VMSeen
  /\ UNCHANGED <<vmVars, instVars, requestVars, permanent, faults, crashes>>

\* With no instance recorded any instance is another one; otherwise there
\* must be one, and a different one.
VMIChanged(was, now) ==
  IF was = NoVMI THEN now # NoVMI ELSE now # NoVMI /\ now # was

WatchVMI(o) ==
  /\ watch = "uid"
  /\ Api(o)
  /\ watch' = IF VMIChanged(watched.recorded, IF o = "ok" THEN vmi ELSE NoVMI)
              THEN "restore" ELSE "idle"
  /\ UNCHANGED <<vmVars, instVars, requestVars, watched, permanent>>

\* Mutant: the annotations stay, so that the label alone tells the end.
Restored_KeepsOriginal(vm) ==
  [vm EXCEPT !.disks = restoreBootOrder(@, vm.original), !.label = FALSE, !.override = None]

\* Mutant: the label is left on the VM.
Restored_KeepsLabel(vm) ==
  [vm EXCEPT !.disks = restoreBootOrder(@, vm.original), !.override = None]

\* The saved order is put back, the label and all annotations go.
Restored(vm) ==
  [vm EXCEPT !.disks = restoreBootOrder(@, vm.original), !.label = FALSE,
             !.original = None, !.recorded = None, !.override = None]

Restore(o) ==
  /\ watch = "restore"
  /\ Api(o)
  /\ IF o = "refused" THEN UNCHANGED vmVars ELSE Patch(watched, Restored(watched))
  /\ watch' = "idle"
  /\ UNCHANGED <<instVars, requestVars, watched, permanent>>

-----------------------------------------------------------------------------
(* The cluster and the other parts of the server *)

\* An instance is created from the VM as it is.
VMStarts ==
  /\ vmi = NoVMI /\ boots < MaxBoots
  /\ boots' = boots + 1 /\ vmi' = boots'
  /\ UNCHANGED <<vmVars, requestVars, watchVars, permanent, faults, crashes>>

VMStops ==
  /\ vmi # NoVMI
  /\ vmi' = NoVMI
  /\ UNCHANGED <<vmVars, boots, requestVars, watchVars, permanent, faults, crashes>>

\* InsertVirtualMedia's and EjectVirtualMedia's changes of the disk list, each
\* taken as one step: the read and the patch that MediaImport tells apart
\* follow each other at once here.
CdInserted ==
  /\ ~cdVolume /\ cdVolume' = TRUE
  /\ disks' = [d \in DOMAIN disks \cup {Cd} |-> IF d \in DOMAIN disks THEN disks[d] ELSE 0]
  /\ UNCHANGED <<label, original, recorded, override, instVars, requestVars, watchVars, permanent,
                 faults, crashes>>

CdEjected ==
  /\ cdVolume /\ cdVolume' = FALSE
  /\ disks' = [d \in DOMAIN disks \ {Cd} |-> disks[d]]
  /\ UNCHANGED <<label, original, recorded, override, instVars, requestVars, watchVars, permanent,
                 faults, crashes>>

\* The server dies and a new one starts.
Restart ==
  /\ crashes < MaxCrashes /\ crashes' = crashes + 1
  /\ request' = [r \in Request |->
                   IF request[r].at \in {"idle", "ended"} THEN request[r]
                   ELSE [request[r] EXCEPT !.at = "ended"]]
  /\ watch' = "idle"
  /\ UNCHANGED <<vmVars, instVars, seen, seenVMI, watched, permanent, faults>>

-----------------------------------------------------------------------------
RequestStep(r) ==
  \/ \E o \in ReadOutcome : OptionsRead(r, o) \/ BootRead(r, o) \/ GetVMIUID(r, o)
  \/ \E o \in Outcome : OptionsPatch(r, o) \/ SetBootOnce(r, o) \/ SetBootOrder(r, o)

Watcher ==
  \/ WatchVM
  \/ \E o \in ReadOutcome : WatchVMI(o)
  \/ \E o \in Outcome : Restore(o)

Next ==
  \/ \E r \in Request : RequestStep(r)
  \/ \E r \in Request, e \in Enabled, t \in Target : BootUpdate(r, e, t)
  \/ Watcher
  \/ VMStarts \/ VMStops \/ CdInserted \/ CdEjected
  \/ Restart

Spec == Init /\ [][Next]_vars

\* Requests and the watcher go on; events or the sweep of every minute bring
\* the watcher back to a VM that has the label.
Fairness ==
  /\ \A r \in Request : WF_vars(RequestStep(r))
  /\ WF_vars(Watcher)

FairSpec == Spec /\ Fairness

-----------------------------------------------------------------------------
(* Properties *)

VM == [disks : Config, cdVolume : BOOLEAN, label : BOOLEAN, original : Config \cup {None},
       recorded : 0..(MaxBoots + 1) \cup {None}, override : {None, "Once", "Continuous"}]

TypeOK ==
  /\ VMSeen \in VM
  /\ vmi \in 0..(MaxBoots + 1) /\ boots \in 0..(MaxBoots + 1)
  /\ request \in [Request -> [at : {"idle", "options", "record", "read", "uid", "once", "order",
                                    "ended"},
                              enabled : Enabled \cup {None}, target : Target \cup {None}]]
  /\ seen \in [Request -> VM] /\ seenVMI \in [Request -> 0..(MaxBoots + 1)]
  /\ watch \in {"idle", "uid", "restore"} /\ watched \in VM
  /\ permanent \in [Hdd -> Orders]
  /\ faults \in 0..MaxFaults /\ crashes \in 0..MaxCrashes

\* "It saves the original boot configuration and VMI UID so it can be restored
\* after reboot": while the hard disks do not have their permanent order, the
\* VM carries the label the watcher looks for and that very order, through
\* second requests, reboots, failing calls and restarts.
Restorable ==
  HddOrder(disks) # permanent =>
    label /\ original # None /\ recorded # None /\ HddOrder(original) = permanent

\* A restored VM keeps nothing that a later boot-once would take for a
\* pending one.
NothingLeft == ~label => original = None /\ recorded = None

\* "keeps disk as the backup device so media ejection is handled": whatever
\* is set, restored or ejected, a hard disk has a place in a boot order that
\* has places at all.
DiskAsBackup ==
  (\E d \in DOMAIN disks : disks[d] > 0) => \E d \in Hdd : disks[d] > 0

\* A boot-once another instance has been started for ends, unless the VM is
\* stopped before the watcher looks.
OnceEnds == label /\ VMIChanged(recorded, vmi) ~> ~label \/ vmi = NoVMI
=============================================================================
