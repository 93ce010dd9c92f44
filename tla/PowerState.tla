----------------------------- MODULE PowerState -----------------------------
(***************************************************************************)
(* Power commands on one virtual machine (client.go, SetVMPowerState and    *)
(* GetVMPowerState).  A command is a sequence of API requests; commands     *)
(* overlap, requests fail, and an answer may be lost after the request was  *)
(* served.  KubeVirt's controller, which is not part of the program, acts   *)
(* on the machine it sees, not on every change of it.                       *)
(***************************************************************************)
EXTENDS Naturals, FiniteSets

CONSTANTS
  Calls,        \* the power commands
  MaxAttempts,  \* errors.DefaultRetryConfig
  MaxFaults     \* bound: requests that fail or whose answer is lost

PowerAssumption == MaxAttempts \in Nat \ {0} /\ MaxFaults \in Nat /\ IsFiniteSet(Calls)

VARIABLES
  vm,      \* the VirtualMachine: what the requests and the controller change
  vmi,     \* its instance
  call,    \* call[c]: a command
  history, \* history[c]: what c's requests have done
  faults   \* bound: faults so far

vars == <<vm, vmi, call, history, faults>>

ResetTypes == {"On", "ForceOff", "GracefulShutdown", "ForceRestart", "GracefulRestart",
               "Pause", "Resume"}
NoInstance == [phase |-> "none", paused |-> FALSE, atOnce |-> FALSE]

Forced(c) == call[c].kind \in {"ForceOff", "ForceRestart"}
Restart(c) == call[c].kind \in {"ForceRestart", "GracefulRestart"}
Off(c) == call[c].kind \in {"ForceOff", "GracefulShutdown"}
Idle(c) == call[c].pc \in {"new", "ok", "failed"}

----------------------------------------------------------------------------
\* A machine has a run strategy or, of old, the field "running"; a patch can
\* add an annotation only where there are annotations.
Init ==
  /\ vm \in [strategy : {"Always", "Halted"}, legacy : BOOLEAN, annotated : BOOLEAN,
             forceStop : {FALSE}, status : {"Stopped"}]
  /\ vmi = NoInstance
  /\ call = [c \in Calls |-> [pc |-> "new", kind |-> "On", attempt |-> 1]]
  /\ history = [c \in Calls |-> [set |-> "none", halted |-> FALSE, applied |-> 0, lost |-> FALSE]]
  /\ faults = 0

Goes(c, pc) == call' = [call EXCEPT ![c].pc = pc]
Fault == faults < MaxFaults /\ faults' = faults + 1

\* handlePowerAction passes the reset type on.
Command(c) ==
  /\ call[c].pc = "new"
  /\ \E kind \in ResetTypes :
       call' = [call EXCEPT ![c].kind = kind, ![c].pc =
         CASE kind \in {"ForceOff", "ForceRestart"} -> "grace"
           [] kind \in {"GracefulShutdown", "GracefulRestart"} -> "stop"
           [] kind = "On" -> "start"
           [] kind \in {"Pause", "Resume"} -> "request"]
  /\ history' = [history EXCEPT ![c].halted = (vm.strategy = "Halted")]
  /\ UNCHANGED <<vm, vmi, faults>>

\* patchVMIGracePeriod: whether it works or not, the command goes on.
Grace(c) ==
  /\ call[c].pc = "grace" /\ Goes(c, "stop")
  /\ \/ vmi' = [vmi EXCEPT !.atOnce = (vmi.phase # "none")] /\ UNCHANGED faults
     \/ Fault /\ UNCHANGED vmi
  /\ UNCHANGED <<vm, history>>

\* A patch does all or nothing: it replaces the run strategy, which must be
\* there, and with force adds an annotation, which needs others.
Possible(adds) == ~vm.legacy /\ (adds => vm.annotated)

Patched(c, strategy, adds) ==
  /\ Possible(adds)
  /\ vm' = [vm EXCEPT !.strategy = strategy, !.forceStop = @ \/ adds]
  /\ history' = [d \in Calls |->
       [history[d] EXCEPT !.halted = @ \/ strategy = "Halted",
                          !.set = IF d = c THEN strategy ELSE @]]

\* It is served, or it fails, or it is served and the answer lost.
Patch(c, strategy, adds, next) ==
  \/ Patched(c, strategy, adds) /\ Goes(c, next) /\ UNCHANGED faults
  \/ Patched(c, strategy, adds) /\ Goes(c, "failed") /\ Fault
  \/ Possible(adds) /\ Fault /\ Goes(c, "failed") /\ UNCHANGED <<vm, history>>
  \/ ~Possible(adds) /\ Goes(c, "failed") /\ UNCHANGED <<vm, history, faults>>

Stop(c) ==
  /\ call[c].pc = "stop" /\ UNCHANGED vmi
  /\ Patch(c, "Halted", Forced(c), IF Restart(c) THEN "sleep" ELSE "ok")

\* Two seconds, in which anything may happen.
Wake(c) ==
  /\ call[c].pc = "sleep" /\ Goes(c, "start")
  /\ UNCHANGED <<vm, vmi, history, faults>>

\* Mutant of Start: a machine that another command has halted as well is left so.
Start_Yields(c) ==
  /\ call[c].pc = "start" /\ UNCHANGED vmi
  /\ IF Restart(c) /\ \E d \in Calls \ {c} : history[d].set = "Halted"
     THEN Goes(c, "ok") /\ UNCHANGED <<vm, history, faults>>
     ELSE Patch(c, "Always", FALSE, "ok")

Start(c) ==
  /\ call[c].pc = "start" /\ UNCHANGED vmi
  /\ Patch(c, "Always", FALSE, "ok")

\* The subresource request of pauseVMI and unpauseVMI.
Accepted(c) == vmi.phase = "running" /\ vmi.paused = (call[c].kind = "Resume")
Served == vmi' = [vmi EXCEPT !.paused = ~@]

Again(c) ==
  IF call[c].attempt = MaxAttempts THEN Goes(c, "failed")
  ELSE call' = [call EXCEPT ![c].attempt = @ + 1]

\* errors.Retry: no instance and a conflict are final, and so is a request that
\* is denied; any other error is tried again, a lost answer among them.
Attempt(c) ==
  /\ call[c].pc = "request" /\ UNCHANGED vm
  /\ \/ /\ Accepted(c) /\ Served /\ UNCHANGED faults /\ Goes(c, "ok")
        /\ history' = [history EXCEPT ![c].applied = @ + 1]
     \/ ~Accepted(c) /\ Goes(c, "failed") /\ UNCHANGED <<vmi, history, faults>>
     \/ Fault /\ (Again(c) \/ Goes(c, "failed")) /\ UNCHANGED <<vmi, history>>
     \/ /\ Accepted(c) /\ Served /\ Fault /\ Again(c)
        /\ history' = [history EXCEPT ![c].applied = @ + 1, ![c].lost = TRUE]

\* The context's time is over before an attempt, or while Retry waits for it.
Expires(c) ==
  /\ call[c].pc = "request" /\ Goes(c, "failed")
  /\ UNCHANGED <<vm, vmi, history, faults>>

SetVMPowerState(c) == Grace(c) \/ Stop(c) \/ Wake(c) \/ Start(c) \/ Attempt(c) \/ Expires(c)

----------------------------------------------------------------------------
(* External: KubeVirt                                                       *)

Printable(i) ==
  CASE i.phase = "none" -> "Stopped" [] i.phase = "leaving" -> "Stopping"
    [] i.phase = "starting" -> "Starting"
    [] i.phase = "running" -> IF i.paused THEN "Paused" ELSE "Running"

\* The controller acts on the machine it sees and updates its status.
Reconcile ==
  /\ vmi' = IF vm.strategy = "Halted" /\ vmi.phase # "none" THEN [vmi EXCEPT !.phase = "leaving"]
            ELSE IF vm.strategy = "Always" /\ vmi.phase = "none"
            THEN [NoInstance EXCEPT !.phase = "starting"] ELSE vmi
  /\ vm' = [vm EXCEPT !.status = Printable(vmi')]
  /\ UNCHANGED <<call, history, faults>>

\* An instance comes up, or goes when its grace period is over.
Boots ==
  /\ vmi.phase = "starting" /\ vmi' = [vmi EXCEPT !.phase = "running"]
  /\ UNCHANGED <<vm, call, history, faults>>

Vanishes ==
  /\ vmi.phase = "leaving" /\ vmi' = NoInstance
  /\ UNCHANGED <<vm, call, history, faults>>

Next ==
  \/ \E c \in Calls : Command(c) \/ SetVMPowerState(c)
  \/ Reconcile \/ Boots \/ Vanishes

\* KubeVirt goes on working.
Fairness == WF_vars(Reconcile) /\ WF_vars(Boots) /\ WF_vars(Vanishes)

Spec == Init /\ [][Next]_vars /\ Fairness

----------------------------------------------------------------------------

\* Mutant of GetVMPowerState: the annotation is looked at whatever the status.
GetVMPowerState_ForceFirst ==
  IF vm.forceStop THEN "ForceOffInProgress"
  ELSE IF vm.status = "Stopped" THEN "Off" ELSE IF vm.status = "Running" THEN "On" ELSE "Paused"

\* The status as far as the function knows it, else the instance.
GetVMPowerState ==
  CASE vm.status = "Running" -> "On"
    [] vm.status = "Stopped" -> "Off"
    [] vm.status = "Stopping" -> IF vm.forceStop THEN "ForceOffInProgress" ELSE "ShuttingDown"
    [] vm.status = "Starting" -> "PoweringOn"
    [] OTHER -> IF vmi.phase = "none" THEN "Off" ELSE IF vmi.paused THEN "Paused"
                ELSE IF vmi.phase = "starting" THEN "PoweringOn" ELSE "On"

\* Every variable keeps its type.
TypeOK ==
  /\ vm \in [strategy : {"Always", "Halted"}, legacy : BOOLEAN, annotated : BOOLEAN,
             forceStop : BOOLEAN, status : {"Stopped", "Stopping", "Starting", "Running", "Paused"}]
  /\ vmi \in [phase : {"none", "starting", "running", "leaving"}, paused : BOOLEAN, atOnce : BOOLEAN]
  /\ call \in [Calls -> [pc : {"new", "grace", "stop", "sleep", "start", "request", "ok", "failed"},
                         kind : ResetTypes, attempt : 1..MaxAttempts]]
  /\ history \in [Calls -> [set : {"none", "Always", "Halted"}, halted : BOOLEAN,
                            applied : 0..MaxAttempts, lost : BOOLEAN]]
  /\ faults \in 0..MaxFaults

\* When no command is under way, a machine that commands have changed is
\* halted only where one asked for it or a restart failed half-way, and runs
\* only where one asked for that, however the commands overlapped.
StrategyIsAsked ==
  (\A c \in Calls : Idle(c)) =>
    \/ \A c \in Calls : history[c].set = "none"
    \/ \E c \in Calls : /\ history[c].set = vm.strategy
                        /\ vm.strategy = "Halted" => Off(c) \/ call[c].pc = "failed"

\* A restart that reports success has seen the machine halted since it began.
RestartHalts == \A c \in Calls : call[c].pc = "ok" /\ Restart(c) => history[c].halted

\* One Pause or Resume takes effect twice, with the opposite in between, only
\* if the answer to an attempt of it was lost (errors.Retry).
RepeatedOnlyIfLost == \A c \in Calls : history[c].applied > 1 => history[c].lost

\* What the commands leave behind is what they were to do.
CommandsRespected == StrategyIsAsked /\ RestartHalts /\ RepeatedOnlyIfLost

\* When the commands are done, what is reported comes to agree with what the
\* machine is to do, the annotation of an old forced stop notwithstanding.
ReportAgrees ==
  GetVMPowerState \in IF vm.strategy = "Always" THEN {"On", "Paused"} ELSE {"Off"}
ReportSettles == <>[]ReportAgrees
=============================================================================
