--------------------------- MODULE BootOnceProofs ---------------------------
(***************************************************************************)
(* The types of BootOnce, for any number of boot updates, disks, instances, *)
(* failing calls and restarts: whatever VM a patch was computed from, the   *)
(* VM it meets keeps a list of disks with places a boot order can have.     *)
(* And what a single boot update keeps of the boot order, again for any     *)
(* number of the others.                                                    *)
(***************************************************************************)
EXTENDS BootOnce, TLAPS

Places == {"idle", "options", "record", "read", "uid", "once", "order", "ended"}
RequestRecord == [at : Places, enabled : Enabled \cup {None}, target : Target \cup {None}]
UIDs == 0..(MaxBoots + 1)

\* The VM's part of the type invariant, field by field.
VMTyped ==
  /\ disks \in Config /\ cdVolume \in BOOLEAN /\ label \in BOOLEAN
  /\ original \in Config \cup {None} /\ recorded \in UIDs \cup {None}
  /\ override \in {None, "Once", "Continuous"}

RequestTyped ==
  /\ request \in [Request -> RequestRecord] /\ seen \in [Request -> VM] /\ seenVMI \in [Request -> UIDs]

RestTyped ==
  /\ vmi \in UIDs /\ boots \in UIDs
  /\ watch \in {"idle", "uid", "restore"} /\ watched \in VM /\ permanent \in [Hdd -> Orders]
  /\ faults \in 0..MaxFaults /\ crashes \in 0..MaxCrashes

LEMMA TypeOKParts == TypeOK <=> VMTyped /\ RequestTyped /\ RestTyped
BY DEF TypeOK, VMTyped, RequestTyped, RestTyped, VMSeen, VM, UIDs, RequestRecord, Places

\* A configuration maps the disks, with or without the CD-ROM, to places.
LEMMA ConfigHas ==
  ASSUME NEW f \in Config
  PROVE  /\ DOMAIN f \in {Device, Device \ {Cd}}
         /\ \A d \in DOMAIN f : f[d] \in Orders
         /\ Hdd \subseteq DOMAIN f
         /\ f = [d \in DOMAIN f |-> f[d]]
<1>1. Cd \notin Hdd
  BY BootOnceAssumption DEF Hdd
<1>2. Hdd \subseteq Device /\ Hdd \subseteq Device \ {Cd}
  BY <1>1 DEF Device
<1> QED
  BY <1>2 DEF Config

LEMMA HddOrderTyped ==
  ASSUME NEW f \in Config
  PROVE  HddOrder(f) \in [Hdd -> Orders]
BY ConfigHas DEF HddOrder

\* The places that modifyVmBootOrder gives.
LEMMA ModifyTyped ==
  ASSUME NEW vm \in VM, NEW target
  PROVE  modifyVmBootOrder(vm, target) \in Config
<1>1. vm.disks \in Config /\ vm.cdVolume \in BOOLEAN
  BY DEF VM
<1>2. DOMAIN vm.disks \in {Device, Device \ {Cd}}
  BY <1>1, ConfigHas
<1>3. 0 \in Orders /\ 1 \in Orders /\ \A d \in Hdd : d \in Orders /\ d + 1 \in Orders
  BY BootOnceAssumption DEF Orders, Hdd
<1> DEFINE cds == IF vm.cdVolume THEN 1 ELSE 0
           order(d) == CASE d = Cd /\ vm.cdVolume /\ target = "Cd" -> 1
                         [] d \in Hdd /\ target = "Hdd" -> d
                         [] d \in Hdd /\ target = "Cd" -> cds + d
                         [] OTHER -> 0
<1>4. ASSUME NEW d \in Hdd PROVE cds + d \in Orders
  BY <1>1, <1>3, BootOnceAssumption DEF Hdd
<1>5. Cd \notin Hdd
  BY BootOnceAssumption DEF Hdd
<1> HIDE DEF cds
<1>6. ASSUME NEW d PROVE order(d) \in Orders
  <2>1. CASE d \in Hdd
    BY <1>3, <1>4, <1>5, <2>1
  <2>2. CASE d \notin Hdd
    BY <1>3, <2>2
  <2> QED
    BY <2>1, <2>2
<1>7. modifyVmBootOrder(vm, target) = [d \in DOMAIN vm.disks |-> order(d)]
  BY DEF modifyVmBootOrder, cds
<1> HIDE DEF order
<1> QED
  BY <1>2, <1>6, <1>7 DEF Config

LEMMA RestoreTyped ==
  ASSUME NEW ds \in Config, NEW config \in Config
  PROVE  restoreBootOrder(ds, config) \in Config
<1>1. \A d \in DOMAIN ds : (IF d \in DOMAIN config THEN config[d] ELSE ds[d]) \in Orders
  BY ConfigHas
<1>2. DOMAIN ds \in {Device, Device \ {Cd}}
  BY ConfigHas
<1> QED
  BY <1>1, <1>2 DEF restoreBootOrder, Config

----------------------------------------------------------------------------
\* A patch takes each field from the VM or from what was asked for.
LEMMA PatchTyped ==
  ASSUME VMTyped, NEW read \in VM, NEW new \in VM, Patch(read, new)
  PROVE  VMTyped'
BY DEF VMTyped, VM, Patch, Merged, UIDs

LEMMA SeenTyped ==
  ASSUME VMTyped
  PROVE  VMSeen \in VM
BY DEF VMTyped, VMSeen, VM, UIDs

LEMMA OnceConfigTyped ==
  ASSUME NEW vm \in VM, NEW uid \in UIDs
  PROVE  OnceConfig(vm, uid).config \in Config /\ OnceConfig(vm, uid).uid \in UIDs
<1>1. vm.disks \in Config /\ vm.original \in Config \cup {None} /\ vm.recorded \in UIDs \cup {None}
  BY DEF VM, UIDs
<1>2. CASE vm.original # None /\ vm.recorded # NoVMI /\ vm.recorded = uid
  BY <1>1, <1>2 DEF OnceConfig
<1>3. CASE ~(vm.original # None /\ vm.recorded # NoVMI /\ vm.recorded = uid)
  <2>1. OnceConfig(vm, uid) =
          [config |-> IF vm.original = None THEN vm.disks ELSE restoreBootOrder(vm.disks, vm.original),
           uid |-> uid]
    BY <1>3 DEF OnceConfig
  <2>2. vm.original # None => restoreBootOrder(vm.disks, vm.original) \in Config
    BY <1>1, RestoreTyped
  <2> QED
    BY <1>1, <2>1, <2>2
<1> QED
  BY <1>2, <1>3

LEMMA BootingOnceTyped ==
  ASSUME NEW vm \in VM, NEW uid \in UIDs, NEW target
  PROVE  BootingOnce(vm, uid, target) \in VM
<1>1. modifyVmBootOrder(vm, target) \in Config
  BY ModifyTyped
<1>2. OnceConfig(vm, uid).config \in Config /\ OnceConfig(vm, uid).uid \in UIDs
  BY OnceConfigTyped
<1> QED
  BY <1>1, <1>2 DEF BootingOnce, VM, UIDs

LEMMA RestoredTyped ==
  ASSUME NEW vm \in VM, vm.original # None
  PROVE  Restored(vm) \in VM
<1>1. restoreBootOrder(vm.disks, vm.original) \in Config
  BY RestoreTyped DEF VM
<1> QED
  BY <1>1 DEF Restored, VM

-----------------------------------------------------------------------------
\* The watcher goes on only with a VM that has a saved configuration.
WatchKnows == watch \in {"uid", "restore"} => watched.original # None

IInv == VMTyped /\ RequestTyped /\ RestTyped /\ WatchKnows

\* Where a request is changes, and nothing it asks for.
LEMMA AtTyped ==
  ASSUME RequestTyped, NEW r \in Request, NEW place \in Places, At(r, place)
  PROVE  request' \in [Request -> RequestRecord]
BY DEF RequestTyped, RequestRecord, At

LEMMA ApiTyped ==
  ASSUME RestTyped, NEW o, Api(o)
  PROVE  faults' \in 0..MaxFaults /\ crashes' \in 0..MaxCrashes
BY BootOnceAssumption DEF RestTyped, Api

LEMMA InitTyped == Init => IInv
<1> SUFFICES ASSUME Init PROVE IInv
  OBVIOUS
<1>1. disks \in Config /\ cdVolume \in BOOLEAN
  <2>1. PICK plain \in BOOLEAN, cd \in BOOLEAN :
          /\ disks = [d \in IF cd THEN Device ELSE Device \ {Cd} |->
                        IF d \in Hdd /\ ~plain THEN d ELSE 0]
          /\ cdVolume = cd
    BY DEF Init
  <2>2. \A d : (IF d \in Hdd /\ ~plain THEN d ELSE 0) \in Orders
    BY BootOnceAssumption DEF Hdd, Orders
  <2>3. (IF cd THEN Device ELSE Device \ {Cd}) \in {Device, Device \ {Cd}}
    BY <2>1
  <2> QED
    BY <2>1, <2>2, <2>3 DEF Config
<1>2. VMTyped
  BY <1>1 DEF Init, VMTyped
<1>3. VMSeen \in VM
  BY <1>2, SeenTyped
<1>4. Idle \in RequestRecord
  BY DEF Idle, RequestRecord, Places
<1>5. NoVMI \in UIDs /\ 1 \in UIDs
  BY BootOnceAssumption DEF NoVMI, UIDs
<1>6. RequestTyped
  BY <1>3, <1>4, <1>5 DEF Init, RequestTyped
<1>7. RestTyped
  <2>1. permanent \in [Hdd -> Orders]
    BY <1>1, HddOrderTyped DEF Init
  <2> QED
    BY <1>3, <1>5, <2>1, BootOnceAssumption DEF Init, RestTyped
<1>8. WatchKnows
  BY DEF Init, WatchKnows
<1> QED
  BY <1>2, <1>6, <1>7, <1>8 DEF IInv

-----------------------------------------------------------------------------
(* A boot update *)

LEMMA BootUpdateTyped ==
  ASSUME IInv, NEW r \in Request, NEW e \in Enabled, NEW t \in Target, BootUpdate(r, e, t)
  PROVE  IInv'
<1>1. request' \in [Request -> RequestRecord]
  BY DEF IInv, RequestTyped, RequestRecord, Places, BootUpdate
<1> QED
  BY <1>1 DEF IInv, BootUpdate, vmVars, instVars, watchVars, VMTyped, RequestTyped, RestTyped, WatchKnows

\* The steps that only read: OptionsRead, BootRead and GetVMIUID.
LEMMA ReadsTyped ==
  ASSUME IInv, NEW r \in Request, NEW o \in ReadOutcome,
         OptionsRead(r, o) \/ BootRead(r, o) \/ GetVMIUID(r, o)
  PROVE  IInv'
<1>1. VMSeen \in VM
  BY SeenTyped DEF IInv
<1>2. seen' \in [Request -> VM]
  BY <1>1 DEF IInv, RequestTyped, OptionsRead, BootRead, GetVMIUID
<1>3. seenVMI' \in [Request -> UIDs]
  BY BootOnceAssumption DEF IInv, RequestTyped, RestTyped, UIDs, NoVMI, OptionsRead, BootRead, GetVMIUID
<1>4. \E place \in Places : At(r, place)
  BY DEF Places, OptionsRead, BootRead, GetVMIUID
<1>5. request' \in [Request -> RequestRecord]
  BY <1>4, AtTyped DEF IInv
<1>6. Api(o)
  BY DEF OptionsRead, BootRead, GetVMIUID
<1>7. faults' \in 0..MaxFaults /\ crashes' \in 0..MaxCrashes
  BY <1>6, ApiTyped DEF IInv
<1>8. UNCHANGED <<vmVars, instVars, watchVars, permanent>>
  BY DEF OptionsRead, BootRead, GetVMIUID
<1> QED
  BY <1>2, <1>3, <1>5, <1>7, <1>8
     DEF IInv, vmVars, instVars, watchVars, VMTyped, RequestTyped, RestTyped, WatchKnows

\* The patches of a request, given that they keep the VM and the history typed.
LEMMA PatchesTyped ==
  ASSUME IInv, NEW r \in Request, NEW o, NEW place \in Places, Api(o), At(r, place),
         VMTyped', permanent' \in [Hdd -> Orders], UNCHANGED <<instVars, seen, seenVMI, watchVars>>
  PROVE  IInv'
<1>1. request' \in [Request -> RequestRecord]
  BY AtTyped DEF IInv
<1>2. faults' \in 0..MaxFaults /\ crashes' \in 0..MaxCrashes
  BY ApiTyped DEF IInv
<1> QED
  BY <1>1, <1>2 DEF IInv, instVars, watchVars, RequestTyped, RestTyped, WatchKnows

LEMMA VMKept ==
  ASSUME VMTyped, UNCHANGED vmVars
  PROVE  VMTyped'
BY DEF VMTyped, vmVars

LEMMA OptionsPatchTyped ==
  ASSUME IInv, NEW r \in Request, NEW o \in Outcome, OptionsPatch(r, o)
  PROVE  IInv'
<1> DEFINE new == [seen[r] EXCEPT !.override = request[r].enabled]
<1>1. seen[r] \in VM /\ new \in VM
  BY BootOnceAssumption DEF IInv, RequestTyped, RequestRecord, VM
<1>2. VMTyped'
  <2>1. CASE o = "refused"
    BY <2>1, VMKept DEF IInv, OptionsPatch
  <2>2. CASE o # "refused"
    <3>1. Patch(seen[r], new)
      BY <2>2 DEF OptionsPatch
    <3> QED
      BY <1>1, <3>1, PatchTyped DEF IInv
  <2> QED
    BY <2>1, <2>2
<1>3. \E place \in Places : At(r, place)
  BY DEF OptionsPatch, Places
<1>4. permanent' \in [Hdd -> Orders] /\ Api(o) /\ UNCHANGED <<instVars, seen, seenVMI, watchVars>>
  BY DEF IInv, RestTyped, OptionsPatch
<1> QED
  BY <1>2, <1>3, <1>4, PatchesTyped

LEMMA SetBootOnceTyped ==
  ASSUME IInv, NEW r \in Request, NEW o \in Outcome, SetBootOnce(r, o)
  PROVE  IInv'
<1> DEFINE new == BootingOnce(seen[r], seenVMI[r], request[r].target)
<1>1. seen[r] \in VM /\ new \in VM
  BY BootingOnceTyped DEF IInv, RequestTyped
<1>2. VMTyped'
  <2>1. CASE o = "refused"
    BY <2>1, VMKept DEF IInv, SetBootOnce
  <2>2. CASE o # "refused"
    <3>1. Patch(seen[r], new)
      BY <2>2 DEF SetBootOnce
    <3> QED
      BY <1>1, <3>1, PatchTyped DEF IInv
  <2> QED
    BY <2>1, <2>2
<1>3. \E place \in Places : At(r, place)
  BY DEF SetBootOnce, Places
<1>4. permanent' \in [Hdd -> Orders] /\ Api(o) /\ UNCHANGED <<instVars, seen, seenVMI, watchVars>>
  BY DEF IInv, RestTyped, SetBootOnce
<1> QED
  BY <1>2, <1>3, <1>4, PatchesTyped

LEMMA SetBootOrderTyped ==
  ASSUME IInv, NEW r \in Request, NEW o \in Outcome, SetBootOrder(r, o)
  PROVE  IInv'
<1> DEFINE order == modifyVmBootOrder(seen[r], request[r].target)
           new == [seen[r] EXCEPT !.disks = order]
<1>1. seen[r] \in VM
  BY DEF IInv, RequestTyped
<1>2. order \in Config
  BY <1>1, ModifyTyped
<1>3. new \in VM
  BY <1>1, <1>2 DEF VM
<1>4. VMTyped' /\ permanent' \in [Hdd -> Orders]
  <2>1. CASE o = "refused"
    BY <2>1, VMKept DEF IInv, RestTyped, SetBootOrder
  <2>2. CASE o # "refused"
    <3>1. Patch(seen[r], new) /\ permanent' = HddOrder(order)
      BY <2>2 DEF SetBootOrder
    <3> HIDE DEF order, new
    <3> QED
      BY <1>1, <1>2, <1>3, <3>1, PatchTyped, HddOrderTyped DEF IInv
  <2> QED
    BY <2>1, <2>2
<1>5. \E place \in Places : At(r, place)
  BY DEF SetBootOrder, Places
<1>6. Api(o) /\ UNCHANGED <<instVars, seen, seenVMI, watchVars>>
  BY DEF SetBootOrder
<1> QED
  BY <1>4, <1>5, <1>6, PatchesTyped

-----------------------------------------------------------------------------
(* The watcher *)

LEMMA WatchVMTyped ==
  ASSUME IInv, WatchVM
  PROVE  IInv'
<1>1. VMSeen \in VM /\ VMSeen.original = original
  BY SeenTyped DEF IInv, VMSeen
<1> QED
  BY <1>1 DEF IInv, WatchVM, vmVars, instVars, requestVars, VMTyped, RequestTyped, RestTyped, WatchKnows

LEMMA WatchVMITyped ==
  ASSUME IInv, NEW o \in ReadOutcome, WatchVMI(o)
  PROVE  IInv'
<1>1. faults' \in 0..MaxFaults /\ crashes' \in 0..MaxCrashes
  BY ApiTyped DEF IInv, WatchVMI
<1> QED
  BY <1>1 DEF IInv, WatchVMI, vmVars, instVars, requestVars, VMTyped, RequestTyped, RestTyped, WatchKnows

LEMMA RestoresTyped ==
  ASSUME IInv, NEW o \in Outcome, Restore(o)
  PROVE  IInv'
<1>1. watched \in VM /\ watched.original # None
  BY DEF IInv, RestTyped, WatchKnows, Restore
<1>2. Restored(watched) \in VM
  BY <1>1, RestoredTyped
<1>3. VMTyped'
  <2>1. CASE o = "refused"
    BY <2>1, VMKept DEF IInv, Restore
  <2>2. CASE o # "refused"
    BY <1>1, <1>2, <2>2, PatchTyped DEF IInv, Restore
  <2> QED
    BY <2>1, <2>2
<1>4. faults' \in 0..MaxFaults /\ crashes' \in 0..MaxCrashes
  BY ApiTyped DEF IInv, Restore
<1> QED
  BY <1>3, <1>4 DEF IInv, Restore, instVars, requestVars, RequestTyped, RestTyped, WatchKnows

-----------------------------------------------------------------------------
(* The cluster and the server *)

LEMMA InstancesTyped ==
  ASSUME IInv, VMStarts \/ VMStops
  PROVE  IInv'
<1>1. vmi' \in UIDs /\ boots' \in UIDs
  BY BootOnceAssumption DEF IInv, RestTyped, UIDs, NoVMI, VMStarts, VMStops
<1> QED
  BY <1>1 DEF IInv, VMStarts, VMStops, vmVars, requestVars, watchVars,
              VMTyped, RequestTyped, RestTyped, WatchKnows

LEMMA MediaTyped ==
  ASSUME IInv, CdInserted \/ CdEjected
  PROVE  IInv'
<1>1. /\ DOMAIN disks \in {Device, Device \ {Cd}}
      /\ \A d \in DOMAIN disks : disks[d] \in Orders
  BY ConfigHas DEF IInv, VMTyped
<1>2. 0 \in Orders /\ Cd \in Device
  BY BootOnceAssumption DEF Orders, Device
<1>3. disks' \in Config
  <2>1. CASE CdInserted
    <3>1. DOMAIN disks \cup {Cd} = Device
      BY <1>1, <1>2
    <3>2. disks' = [d \in Device |-> IF d \in DOMAIN disks THEN disks[d] ELSE 0]
      BY <2>1, <3>1 DEF CdInserted
    <3> QED
      BY <1>1, <1>2, <3>2 DEF Config
  <2>2. CASE CdEjected
    <3>1. DOMAIN disks \ {Cd} = Device \ {Cd}
      BY <1>1
    <3>2. disks' = [d \in Device \ {Cd} |-> disks[d]]
      BY <2>2, <3>1 DEF CdEjected
    <3> QED
      BY <1>1, <3>1, <3>2 DEF Config
  <2> QED
    BY <2>1, <2>2
<1>4. cdVolume' \in BOOLEAN
  BY DEF CdInserted, CdEjected
<1> QED
  BY <1>3, <1>4 DEF IInv, CdInserted, CdEjected, instVars, requestVars, watchVars,
                    VMTyped, RequestTyped, RestTyped, WatchKnows

LEMMA RestartTyped ==
  ASSUME IInv, Restart
  PROVE  IInv'
<1>1. request' \in [Request -> RequestRecord]
  BY DEF IInv, RequestTyped, RequestRecord, Places, Restart
<1>2. crashes' \in 0..MaxCrashes
  BY BootOnceAssumption DEF IInv, RestTyped, Restart
<1> QED
  BY <1>1, <1>2 DEF IInv, Restart, vmVars, instVars, VMTyped, RequestTyped, RestTyped, WatchKnows

-----------------------------------------------------------------------------
\* Each of the steps keeps the types.
LEMMA StepTyped == IInv /\ [Next]_vars => IInv'
<1> SUFFICES ASSUME IInv, [Next]_vars PROVE IInv'
  OBVIOUS
<1>1. CASE \E r \in Request : RequestStep(r)
  BY <1>1, ReadsTyped, OptionsPatchTyped, SetBootOnceTyped, SetBootOrderTyped DEF RequestStep
<1>2. CASE \E r \in Request, e \in Enabled, t \in Target : BootUpdate(r, e, t)
  BY <1>2, BootUpdateTyped
<1>3. CASE Watcher
  BY <1>3, WatchVMTyped, WatchVMITyped, RestoresTyped DEF Watcher
<1>4. CASE VMStarts \/ VMStops
  BY <1>4, InstancesTyped
<1>5. CASE CdInserted \/ CdEjected
  BY <1>5, MediaTyped
<1>6. CASE Restart
  BY <1>6, RestartTyped
<1>7. CASE UNCHANGED vars
  BY <1>7 DEF IInv, vars, vmVars, instVars, requestVars, watchVars,
              VMTyped, RequestTyped, RestTyped, WatchKnows
<1> QED
  BY <1>1, <1>2, <1>3, <1>4, <1>5, <1>6, <1>7 DEF Next

\* Every state has the types that BootOnce states: a VM patched by several
\* requests and the watcher, each from a VM it read earlier, always has its
\* hard disks and places for its boot order, and the watcher restores only
\* from a configuration that was saved.
THEOREM TypeCorrect == Spec => []TypeOK
<1>1. IInv => TypeOK
  BY TypeOKParts DEF IInv
<1> QED
  BY <1>1, InitTyped, StepTyped, PTL DEF Spec

-----------------------------------------------------------------------------
(* A single boot update.  The VM carries no trace of a boot-once until the  *)
(* update patches it, then all of it until the watcher has restored it; the *)
(* update's view of the VM and the watcher's stay true of its hard disks,   *)
(* whatever media come and go.  (Two updates break this.)                   *)

Clean == ~label /\ original = None /\ recorded = None /\ HddOrder(disks) = permanent
Pending == label /\ original # None /\ recorded # None /\ HddOrder(original) = permanent

HasBackup(ds) == (\E d \in DOMAIN ds : ds[d] > 0) => \E d \in Hdd : ds[d] > 0

\* A CD-ROM the list knows has no place, unless the other one knows it, too.
NoPlaceBeyond(ds, config) == Cd \in DOMAIN ds \ DOMAIN config => ds[Cd] = 0
CdHasNoPlace(ds) == Cd \in DOMAIN ds => ds[Cd] = 0

DisksBacked ==
  /\ HasBackup(disks)
  /\ Pending => HasBackup(original) /\ NoPlaceBeyond(disks, original)

NotYetChanged(r) == request[r].at # "ended" => Clean /\ watch = "idle" /\ CdHasNoPlace(disks)

SeenClean(r) ==
  request[r].at \in {"record", "read", "uid", "once", "order"} =>
    /\ ~seen[r].label /\ seen[r].original = None /\ seen[r].recorded = None
    /\ HddOrder(seen[r].disks) = HddOrder(disks) /\ HasBackup(seen[r].disks)

WatchedPending ==
  watch # "idle" =>
    /\ Pending /\ watched.label /\ watched.original = original /\ watched.recorded = recorded
    /\ HddOrder(watched.disks) = HddOrder(disks)
    /\ NoPlaceBeyond(watched.disks, original)

OnceInv(r) ==
  /\ IInv /\ (Clean \/ Pending) /\ DisksBacked
  /\ NotYetChanged(r) /\ SeenClean(r) /\ WatchedPending

LEMMA NoneIsNothing == None \notin Config /\ None \notin UIDs
BY BootOnceAssumption DEF UIDs

\* Every order that modifyVmBootOrder makes has a place for a hard disk, or none at all.
LEMMA ModifyBacked ==
  ASSUME NEW vm \in VM, NEW target
  PROVE  HasBackup(modifyVmBootOrder(vm, target))
<1> DEFINE order == modifyVmBootOrder(vm, target)
<1>1. vm.disks \in Config /\ vm.cdVolume \in BOOLEAN
  BY DEF VM
<1>2. 1 \in Hdd /\ Hdd \subseteq DOMAIN vm.disks /\ Cd \notin Hdd
  BY <1>1, ConfigHas, BootOnceAssumption DEF Hdd
<1>3. CASE target = "Hdd"
  <2>1. order[1] = 1
    BY <1>2, <1>3 DEF modifyVmBootOrder
  <2> QED
    BY <1>2, <2>1 DEF HasBackup
<1>4. CASE target = "Cd"
  <2>1. order[1] = (IF vm.cdVolume THEN 1 ELSE 0) + 1
    BY <1>2, <1>4 DEF modifyVmBootOrder
  <2>2. order[1] > 0
    BY <1>1, <2>1
  <2> QED
    BY <1>2, <2>2 DEF HasBackup
<1>5. CASE target \notin Target
  <2>1. \A d \in DOMAIN order : order[d] = 0
    BY <1>5 DEF modifyVmBootOrder, Target
  <2> QED
    BY <2>1 DEF HasBackup
<1> QED
  BY <1>3, <1>4, <1>5 DEF Target

LEMMA ModifyDomain ==
  ASSUME NEW vm, NEW target
  PROVE  DOMAIN modifyVmBootOrder(vm, target) = DOMAIN vm.disks
BY DEF modifyVmBootOrder

\* The saved order comes back on the hard disks, with its place for one.
LEMMA RestoreBacked ==
  ASSUME NEW ds \in Config, NEW config \in Config
  PROVE  /\ HddOrder(restoreBootOrder(ds, config)) = HddOrder(config)
         /\ HasBackup(config) /\ NoPlaceBeyond(ds, config) => HasBackup(restoreBootOrder(ds, config))
<1> DEFINE new == restoreBootOrder(ds, config)
<1>1. Hdd \subseteq DOMAIN ds /\ Hdd \subseteq DOMAIN config
  BY ConfigHas
<1>2. \A d \in Hdd : new[d] = config[d]
  BY <1>1 DEF restoreBootOrder
<1>3. DOMAIN new = DOMAIN ds
  BY DEF restoreBootOrder
<1>4. \A d \in DOMAIN ds \ DOMAIN config : d = Cd
  BY ConfigHas
<1>5. ASSUME HasBackup(config), NoPlaceBeyond(ds, config), NEW d \in DOMAIN new, new[d] > 0
      PROVE  \E h \in Hdd : new[h] > 0
  <2>1. d \in DOMAIN config /\ config[d] > 0
    <3>1. CASE d \in DOMAIN config
      BY <1>3, <1>5, <3>1 DEF restoreBootOrder
    <3>2. CASE d \notin DOMAIN config
      <4>1. d = Cd /\ new[d] = ds[d] /\ ds[d] = 0
        BY <1>3, <1>4, <1>5, <3>2 DEF restoreBootOrder, NoPlaceBeyond
      <4> QED
        BY <1>5, <4>1
    <3> QED
      BY <3>1, <3>2
  <2>2. PICK h \in Hdd : config[h] > 0
    BY <1>5, <2>1 DEF HasBackup
  <2> QED
    BY <1>2, <2>2
<1> QED
  BY <1>2, <1>5 DEF HddOrder, HasBackup

\* Media that come and go leave the hard disks alone.
LEMMA MediaKeepHdd ==
  ASSUME IInv, CdInserted \/ CdEjected
  PROVE  /\ HddOrder(disks') = HddOrder(disks)
         /\ HasBackup(disks) => HasBackup(disks')
         /\ CdHasNoPlace(disks) => CdHasNoPlace(disks')
         /\ \A config : NoPlaceBeyond(disks, config) => NoPlaceBeyond(disks', config)
<1>1. Hdd \subseteq DOMAIN disks /\ Cd \notin Hdd
  BY ConfigHas, BootOnceAssumption DEF IInv, VMTyped, Hdd
<1>2. CASE CdInserted
  <2>1. disks' = [d \in DOMAIN disks \cup {Cd} |-> IF d \in DOMAIN disks THEN disks[d] ELSE 0]
    BY <1>2 DEF CdInserted
  <2> QED
    BY <1>1, <2>1 DEF HddOrder, HasBackup, CdHasNoPlace, NoPlaceBeyond
<1>3. CASE CdEjected
  <2>1. disks' = [d \in DOMAIN disks \ {Cd} |-> disks[d]]
    BY <1>3 DEF CdEjected
  <2> QED
    BY <1>1, <2>1 DEF HddOrder, HasBackup, CdHasNoPlace, NoPlaceBeyond
<1> QED
  BY <1>2, <1>3

LEMMA OnceInit ==
  ASSUME NEW r \in Request, Init
  PROVE  OnceInv(r)
<1>1. IInv
  BY InitTyped
<1>2. \A d \in DOMAIN disks : d \in Hdd \/ disks[d] = 0
  BY DEF Init
<1>3. HasBackup(disks) /\ CdHasNoPlace(disks)
  BY <1>2, BootOnceAssumption DEF HasBackup, CdHasNoPlace, Hdd
<1>4. Clean /\ ~Pending
  BY DEF Init, Clean, Pending
<1>5. request[r].at = "idle" /\ watch = "idle"
  BY DEF Init, Idle
<1> QED
  BY <1>1, <1>3, <1>4, <1>5 DEF OnceInv, DisksBacked, NotYetChanged, SeenClean, WatchedPending

\* The update up to its last patch: what it reads is the VM as it is, and the
\* only field it changes is the override.
LEMMA OnceUpdates ==
  ASSUME NEW r \in Request, Request = {r}, OnceInv(r), IInv', NEW o,
         \/ \E e \in Enabled, t \in Target : BootUpdate(r, e, t)
         \/ OptionsRead(r, o) \/ OptionsPatch(r, o) \/ BootRead(r, o) \/ GetVMIUID(r, o)
  PROVE  OnceInv(r)'
<1>1. seen \in [Request -> VM] /\ request \in [Request -> RequestRecord]
  BY DEF OnceInv, IInv, RequestTyped
<1>2. UNCHANGED <<disks, label, original, recorded, permanent, watch, watched>>
  <2>1. CASE OptionsPatch(r, o) /\ o # "refused"
    <3>1. Patch(seen[r], [seen[r] EXCEPT !.override = request[r].enabled])
      BY <2>1 DEF OptionsPatch
    <3> QED
      BY <1>1, <2>1, <3>1 DEF OptionsPatch, Patch, Merged, VM, watchVars
  <2>2. CASE ~(OptionsPatch(r, o) /\ o # "refused")
    BY <2>2 DEF BootUpdate, OptionsRead, OptionsPatch, BootRead, GetVMIUID, vmVars, watchVars
  <2> QED
    BY <2>1, <2>2
<1>3. request[r].at # "ended"
  BY DEF BootUpdate, OptionsRead, OptionsPatch, BootRead, GetVMIUID
<1>4. Clean /\ watch = "idle" /\ CdHasNoPlace(disks)
  BY <1>3 DEF OnceInv, NotYetChanged
<1>5. Clean' /\ ~Pending'
  BY <1>2, <1>4 DEF Clean, Pending
<1>6. SeenClean(r)'
  <2>1. CASE OptionsRead(r, o) \/ BootRead(r, o)
    <3>1. seen'[r] = VMSeen
      BY <1>1, <2>1 DEF OptionsRead, BootRead
    <3>2. VMSeen.label = label /\ VMSeen.original = original /\ VMSeen.recorded = recorded
          /\ VMSeen.disks = disks
      BY DEF VMSeen
    <3>3. HasBackup(disks)
      BY DEF OnceInv, DisksBacked
    <3> QED
      BY <1>2, <1>4, <3>1, <3>2, <3>3 DEF SeenClean, Clean
  <2>2. CASE OptionsPatch(r, o) \/ GetVMIUID(r, o)
    <3>1. seen' = seen /\ request[r].at \in {"record", "uid"}
      BY <2>2 DEF OptionsPatch, GetVMIUID
    <3> QED
      BY <1>2, <3>1 DEF OnceInv, SeenClean
  <2>3. CASE \E e \in Enabled, t \in Target : BootUpdate(r, e, t)
    <3>1. request'[r].at = "options"
      BY <1>1, <2>3 DEF BootUpdate
    <3> QED
      BY <3>1 DEF SeenClean
  <2> QED
    BY <2>1, <2>2, <2>3
<1> QED
  BY <1>2, <1>4, <1>5, <1>6
     DEF OnceInv, DisksBacked, NotYetChanged, WatchedPending

\* SetBootOnce takes effect: from clean to pending.
LEMMA OnceSets ==
  ASSUME NEW r \in Request, Request = {r}, OnceInv(r), IInv', NEW o \in Outcome, SetBootOnce(r, o)
  PROVE  OnceInv(r)'
<1>1. seen[r] \in VM /\ seenVMI[r] \in UIDs /\ request \in [Request -> RequestRecord]
  BY DEF OnceInv, IInv, RequestTyped
<1>2. Clean /\ watch = "idle" /\ CdHasNoPlace(disks) /\ HasBackup(disks)
  BY DEF OnceInv, NotYetChanged, DisksBacked, SetBootOnce
<1>3. /\ ~seen[r].label /\ seen[r].original = None /\ seen[r].recorded = None
      /\ HddOrder(seen[r].disks) = HddOrder(disks) /\ HasBackup(seen[r].disks)
  BY DEF OnceInv, SeenClean, SetBootOnce
<1>4. request'[r].at = "ended" /\ UNCHANGED <<permanent, watch, watched>>
  BY <1>1 DEF SetBootOnce, At, watchVars
<1>5. CASE o = "refused"
  <2>1. UNCHANGED vmVars
    BY <1>5 DEF SetBootOnce
  <2>2. Clean' /\ ~Pending' /\ HasBackup(disks')
    BY <1>2, <1>4, <2>1 DEF Clean, Pending, vmVars
  <2> QED
    BY <1>2, <1>4, <2>2 DEF OnceInv, DisksBacked, NotYetChanged, SeenClean, WatchedPending
<1>6. CASE o # "refused"
  <2> DEFINE order == modifyVmBootOrder(seen[r], request[r].target)
             new == BootingOnce(seen[r], seenVMI[r], request[r].target)
  <2>1. /\ OnceConfig(seen[r], seenVMI[r]) = [config |-> seen[r].disks, uid |-> seenVMI[r]]
    BY <1>3 DEF OnceConfig
  <2>2. /\ new.disks = order /\ new.label = TRUE
        /\ new.original = seen[r].disks /\ new.recorded = seenVMI[r]
    BY <1>1, <2>1 DEF BootingOnce, VM
  <2>3. Patch(seen[r], new)
    BY <1>6 DEF SetBootOnce
  <2>4. seen[r].disks \in Config /\ seen[r].disks # None /\ seenVMI[r] # None
    BY <1>1, NoneIsNothing DEF VM
  <2> HIDE DEF new, order
  <2>5. /\ label' /\ original' = seen[r].disks /\ recorded' = seenVMI[r]
        /\ disks' = IF order = seen[r].disks THEN disks ELSE order
    BY <1>3, <2>2, <2>3, <2>4 DEF Patch, Merged
  <2>6. Pending' /\ ~Clean'
    BY <1>2, <1>3, <1>4, <2>4, <2>5 DEF Pending, Clean
  <2>7. HasBackup(order) /\ DOMAIN order = DOMAIN seen[r].disks
    BY <1>1, ModifyBacked, ModifyDomain DEF order
  <2>8. HasBackup(disks') /\ HasBackup(original') /\ NoPlaceBeyond(disks', original')
    BY <1>2, <1>3, <2>5, <2>7 DEF NoPlaceBeyond, CdHasNoPlace
  <2> QED
    BY <1>2, <1>4, <2>6, <2>8 DEF OnceInv, DisksBacked, NotYetChanged, SeenClean, WatchedPending
<1> QED
  BY <1>5, <1>6

\* SetBootOrder changes the permanent order with the disks.
LEMMA OnceOrders ==
  ASSUME NEW r \in Request, Request = {r}, OnceInv(r), IInv', NEW o \in Outcome, SetBootOrder(r, o)
  PROVE  OnceInv(r)'
<1>1. seen[r] \in VM /\ request \in [Request -> RequestRecord]
  BY DEF OnceInv, IInv, RequestTyped
<1>2. Clean /\ watch = "idle" /\ HasBackup(disks)
  BY DEF OnceInv, NotYetChanged, DisksBacked, SetBootOrder
<1>3. HddOrder(seen[r].disks) = HddOrder(disks)
  BY DEF OnceInv, SeenClean, SetBootOrder
<1>4. request'[r].at = "ended" /\ UNCHANGED <<watch, watched>>
  BY <1>1 DEF SetBootOrder, At, watchVars
<1>5. Clean' /\ ~Pending' /\ HasBackup(disks')
  <2>1. CASE o = "refused"
    BY <1>2, <2>1 DEF SetBootOrder, Clean, Pending, vmVars
  <2>2. CASE o # "refused"
    <3> DEFINE order == modifyVmBootOrder(seen[r], request[r].target)
               new == [seen[r] EXCEPT !.disks = order]
    <3>1. Patch(seen[r], new) /\ permanent' = HddOrder(order)
      BY <2>2 DEF SetBootOrder
    <3>2. /\ new.disks = order /\ new.label = seen[r].label /\ new.original = seen[r].original
          /\ new.recorded = seen[r].recorded
      BY <1>1 DEF VM
    <3>3. HasBackup(order)
      BY <1>1, ModifyBacked
    <3> HIDE DEF order, new
    <3>4. /\ UNCHANGED <<label, original, recorded>>
          /\ disks' = IF order = seen[r].disks THEN disks ELSE order
      BY <3>1, <3>2 DEF Patch, Merged
    <3>5. HddOrder(disks') = permanent'
      BY <1>3, <3>1, <3>4
    <3> QED
      BY <1>2, <3>3, <3>4, <3>5 DEF Clean, Pending
  <2> QED
    BY <2>1, <2>2
<1> QED
  BY <1>2, <1>4, <1>5 DEF OnceInv, DisksBacked, NotYetChanged, SeenClean, WatchedPending

-----------------------------------------------------------------------------
\* The watcher finds a pending boot-once, and puts back what is saved.
LEMMA OnceWatches ==
  ASSUME NEW r \in Request, Request = {r}, OnceInv(r), IInv', Watcher
  PROVE  OnceInv(r)'
<1>1. UNCHANGED requestVars /\ permanent' = permanent
  BY DEF Watcher, WatchVM, WatchVMI, Restore
<1>2. Pending /\ ~Clean /\ request[r].at = "ended"
  <2>1. CASE WatchVM
    BY <2>1 DEF OnceInv, NotYetChanged, Clean, WatchVM
  <2>2. CASE watch # "idle"
    BY <2>2 DEF OnceInv, NotYetChanged, WatchedPending, Clean, Pending
  <2>3. WatchVM \/ watch # "idle"
    BY DEF Watcher, WatchVMI, Restore
  <2> QED
    BY <2>1, <2>2, <2>3
<1>3. NotYetChanged(r)' /\ SeenClean(r)'
  BY <1>1, <1>2 DEF requestVars, NotYetChanged, SeenClean
<1>4. CASE WatchVM
  <2>1. UNCHANGED vmVars /\ watched' = VMSeen
    BY <1>4 DEF WatchVM
  <2>2. /\ VMSeen.label = label /\ VMSeen.original = original /\ VMSeen.recorded = recorded
        /\ VMSeen.disks = disks
    BY DEF VMSeen
  <2>3. Pending' /\ DisksBacked'
    BY <1>1, <1>2, <2>1 DEF OnceInv, DisksBacked, Pending, vmVars
  <2>4. WatchedPending'
    BY <1>2, <2>1, <2>2, <2>3 DEF OnceInv, WatchedPending, DisksBacked, Pending, vmVars
  <2> QED
    BY <1>3, <2>3, <2>4 DEF OnceInv
<1>5. ASSUME NEW o \in ReadOutcome, WatchVMI(o)
      PROVE  OnceInv(r)'
  <2>1. UNCHANGED <<vmVars, watched>> /\ watch # "idle"
    BY <1>5 DEF WatchVMI
  <2>2. Pending' /\ DisksBacked' /\ WatchedPending'
    BY <1>1, <1>2, <2>1 DEF OnceInv, DisksBacked, WatchedPending, Pending, vmVars
  <2> QED
    BY <1>3, <2>2 DEF OnceInv
<1>6. ASSUME NEW o \in Outcome, Restore(o)
      PROVE  OnceInv(r)'
  <2>1. watch' = "idle"
    BY <1>6 DEF Restore
  <2>2. CASE o = "refused"
    <3>1. UNCHANGED vmVars
      BY <1>6, <2>2 DEF Restore
    <3>2. Pending' /\ DisksBacked'
      BY <1>1, <1>2, <3>1 DEF OnceInv, DisksBacked, Pending, vmVars
    <3> QED
      BY <1>3, <2>1, <3>2 DEF OnceInv, WatchedPending
  <2>3. CASE o # "refused"
    <3> DEFINE order == restoreBootOrder(watched.disks, watched.original)
               new == Restored(watched)
    <3>1. /\ watched.label /\ watched.original = original /\ watched.recorded = recorded
          /\ HddOrder(watched.disks) = HddOrder(disks) /\ NoPlaceBeyond(watched.disks, original)
      BY <1>6 DEF OnceInv, WatchedPending, Restore
    <3>2. watched \in VM /\ original \in Config /\ watched.disks \in Config
      BY <1>2 DEF OnceInv, IInv, RestTyped, VMTyped, Pending, VM
    <3>3. /\ new.disks = order /\ new.label = FALSE /\ new.original = None /\ new.recorded = None
      BY <3>2 DEF Restored, VM
    <3>4. Patch(watched, new)
      BY <1>6, <2>3 DEF Restore
    <3>5. /\ HddOrder(order) = HddOrder(original)
          /\ HasBackup(original) /\ NoPlaceBeyond(watched.disks, original) => HasBackup(order)
      BY <3>1, <3>2, RestoreBacked
    <3> HIDE DEF order, new
    <3>6. /\ label' = FALSE /\ original' = None /\ recorded' = None
          /\ disks' = IF order = watched.disks THEN disks ELSE order
      BY <1>2, <3>1, <3>3, <3>4 DEF Patch, Merged, Pending
    <3>7. HddOrder(disks') = permanent'
      BY <1>1, <1>2, <3>1, <3>5, <3>6 DEF Pending
    <3>8. Clean' /\ ~Pending'
      BY <3>6, <3>7 DEF Clean, Pending
    <3>9. HasBackup(disks')
      BY <1>2, <3>1, <3>5, <3>6 DEF OnceInv, DisksBacked
    <3> QED
      BY <1>3, <2>1, <3>8, <3>9 DEF OnceInv, DisksBacked, WatchedPending
  <2> QED
    BY <2>2, <2>3
<1> QED
  BY <1>4, <1>5, <1>6 DEF Watcher

\* Instances, media and restarts.
LEMMA OnceElse ==
  ASSUME NEW r \in Request, Request = {r}, OnceInv(r), IInv',
         VMStarts \/ VMStops \/ CdInserted \/ CdEjected \/ Restart \/ UNCHANGED vars
  PROVE  OnceInv(r)'
<1>1. CASE VMStarts \/ VMStops \/ UNCHANGED vars
  BY <1>1 DEF VMStarts, VMStops, vars, vmVars, requestVars, watchVars, OnceInv, Clean, Pending,
     DisksBacked, NotYetChanged, SeenClean, WatchedPending
<1>2. CASE CdInserted \/ CdEjected
  <2>1. UNCHANGED <<label, original, recorded, permanent, request, seen, watch, watched>>
    BY <1>2 DEF CdInserted, CdEjected, requestVars, watchVars
  <2>2. /\ HddOrder(disks') = HddOrder(disks)
        /\ HasBackup(disks) => HasBackup(disks')
        /\ CdHasNoPlace(disks) => CdHasNoPlace(disks')
        /\ NoPlaceBeyond(disks, original) => NoPlaceBeyond(disks', original)
    BY <1>2, MediaKeepHdd DEF OnceInv
  <2> QED
    BY <2>1, <2>2 DEF OnceInv, Clean, Pending, DisksBacked, NotYetChanged, SeenClean, WatchedPending
<1>3. CASE Restart
  <2>1. UNCHANGED <<vmVars, permanent, seen>> /\ watch' = "idle"
    BY <1>3 DEF Restart
  <2>2. request'[r].at \in {"idle", "ended"} /\ (request[r].at = "ended" => request'[r].at = "ended")
    BY <1>3 DEF Restart, OnceInv, IInv, RequestTyped, RequestRecord, Places
  <2> QED
    BY <2>1, <2>2 DEF OnceInv, Clean, Pending, DisksBacked, NotYetChanged, SeenClean, WatchedPending,
       vmVars
<1> QED
  BY <1>1, <1>2, <1>3

LEMMA OnceStep ==
  ASSUME NEW r \in Request, Request = {r}, OnceInv(r), [Next]_vars
  PROVE  OnceInv(r)'
<1>1. IInv'
  BY StepTyped DEF OnceInv
<1>2. CASE RequestStep(r)
  BY <1>1, <1>2, OnceUpdates, OnceSets, OnceOrders DEF RequestStep
<1>3. CASE \E e \in Enabled, t \in Target : BootUpdate(r, e, t)
  BY <1>1, <1>3, OnceUpdates
<1>4. CASE Watcher
  BY <1>1, <1>4, OnceWatches
<1>5. CASE VMStarts \/ VMStops \/ CdInserted \/ CdEjected \/ Restart \/ UNCHANGED vars
  BY <1>1, <1>5, OnceElse
<1> QED
  BY <1>2, <1>3, <1>4, <1>5 DEF Next

\* "It saves the original boot configuration and VMI UID so it can be restored
\* after reboot": a single boot update never loses the permanent order, over
\* any number of disks, instances, media changes, failing calls and restarts.
THEOREM OnceIsRestorable ==
  ASSUME NEW r \in Request, Request = {r}
  PROVE  Spec => []Restorable
<1>1. OnceInv(r) => Restorable
  BY DEF OnceInv, Clean, Pending, Restorable
<1>2. Init => OnceInv(r)
  BY OnceInit
<1>3. OnceInv(r) /\ [Next]_vars => OnceInv(r)'
  BY OnceStep
<1> QED
  BY <1>1, <1>2, <1>3, PTL DEF Spec

\* And its end leaves no annotation that a later one would take for its own.
THEOREM OnceLeavesNothing ==
  ASSUME NEW r \in Request, Request = {r}
  PROVE  Spec => []NothingLeft
<1>1. OnceInv(r) => NothingLeft
  BY DEF OnceInv, Clean, Pending, NothingLeft
<1>2. Init => OnceInv(r)
  BY OnceInit
<1>3. OnceInv(r) /\ [Next]_vars => OnceInv(r)'
  BY OnceStep
<1> QED
  BY <1>1, <1>2, <1>3, PTL DEF Spec

\* "keeps disk as the backup device so media ejection is handled": with a
\* single boot update a hard disk has a place in every order that has places.
THEOREM OnceKeepsBackup ==
  ASSUME NEW r \in Request, Request = {r}
  PROVE  Spec => []DiskAsBackup
<1>1. OnceInv(r) => DiskAsBackup
  BY DEF OnceInv, DisksBacked, HasBackup, DiskAsBackup
<1>2. Init => OnceInv(r)
  BY OnceInit
<1>3. OnceInv(r) /\ [Next]_vars => OnceInv(r)'
  BY OnceStep
<1> QED
  BY <1>1, <1>2, <1>3, PTL DEF Spec
=============================================================================
