-------------------------- MODULE PowerStateProofs --------------------------
(***************************************************************************)
(* What overlapping power commands leave behind, for any number of them and *)
(* of failing or unheard requests.  A command is judged by what it has done *)
(* so far (Progress), and the run strategy by whoever set it last            *)
(* (SomebodySetIt): a restart that has halted the machine answers for it     *)
(* until it has started it again or reports that it failed.                 *)
(***************************************************************************)
EXTENDS PowerState, TLAPS

CallRecord == [pc : {"new", "grace", "stop", "sleep", "start", "request", "ok", "failed"},
               kind : ResetTypes, attempt : 1..MaxAttempts]
HistoryRecord == [set : {"none", "Always", "Halted"}, halted : BOOLEAN,
                  applied : Nat, lost : BOOLEAN]

\* The types that the argument needs.
Typed ==
  /\ "strategy" \in DOMAIN vm
  /\ call \in [Calls -> CallRecord] /\ history \in [Calls -> HistoryRecord]

\* What a call k and its history h have to do with one another.
Progress(k, h) ==
  /\ k.pc \in {"new", "grace", "stop"} => h.set = "none"
  /\ k.pc \in {"grace", "stop"} =>
       k.kind \in {"ForceOff", "GracefulShutdown", "ForceRestart", "GracefulRestart"}
  /\ k.pc = "request" => k.kind \in {"Pause", "Resume"}
  /\ h.set = "Halted" => k.kind \in {"ForceOff", "GracefulShutdown"} \/ k.pc \in {"sleep", "start", "failed"}
  /\ k.kind \in {"ForceRestart", "GracefulRestart"} /\ k.pc \in {"sleep", "start", "ok"} => h.halted
  /\ k.pc = "new" => h.applied = 0 /\ ~h.lost
  /\ k.pc \in {"grace", "stop", "sleep", "start", "request"} /\ ~h.lost => h.applied = 0
  /\ h.applied > 1 => h.lost

AllProgress == \A c \in Calls : Progress(call[c], history[c])

SomebodySetIt ==
  \/ \A c \in Calls : history[c].set = "none"
  \/ \E c \in Calls : history[c].set = vm.strategy

IInv == Typed /\ AllProgress /\ SomebodySetIt

----------------------------------------------------------------------------
\* The invariant is what the properties need.
LEMMA IInvSuffices ==
  ASSUME IInv
  PROVE  CommandsRespected
<1> USE DEF IInv
<1>1. StrategyIsAsked
  <2> SUFFICES ASSUME \A c \in Calls : Idle(c), ~\A c \in Calls : history[c].set = "none"
               PROVE  \E c \in Calls : /\ history[c].set = vm.strategy
                                       /\ vm.strategy = "Halted" => Off(c) \/ call[c].pc = "failed"
    BY DEF StrategyIsAsked
  <2>1. PICK c \in Calls : history[c].set = vm.strategy
    BY DEF SomebodySetIt
  <2>2. vm.strategy = "Halted" => Off(c) \/ call[c].pc \in {"sleep", "start", "failed"}
    BY <2>1 DEF AllProgress, Progress, Off
  <2> QED
    BY <2>1, <2>2 DEF Idle
<1>2. RestartHalts
  BY DEF RestartHalts, Restart, AllProgress, Progress
<1>3. RepeatedOnlyIfLost
  BY DEF RepeatedOnlyIfLost, AllProgress, Progress
<1> QED
  BY <1>1, <1>2, <1>3 DEF CommandsRespected

\* It holds at first.
LEMMA InitIInv ==
  ASSUME PowerAssumption, Init
  PROVE  IInv
<1>1. MaxAttempts \in Nat /\ 1 \in 1..MaxAttempts
  BY DEF PowerAssumption
<1>2. Typed
  BY <1>1 DEF Init, Typed, CallRecord, HistoryRecord, ResetTypes
<1>3. AllProgress /\ SomebodySetIt
  BY DEF Init, AllProgress, Progress, SomebodySetIt
<1> QED
  BY <1>2, <1>3 DEF IInv

----------------------------------------------------------------------------
\* A step of call c that changes nothing but where c is and, as far as that is
\* said, its history.
LEMMA OneCall ==
  ASSUME IInv, NEW c \in Calls, NEW k \in CallRecord, NEW h \in HistoryRecord,
         call' = [call EXCEPT ![c] = k], history' = [history EXCEPT ![c] = h], vm' = vm,
         h.set = history[c].set, Progress(k, h)
  PROVE  IInv'
<1> USE DEF IInv
<1>1. Typed'
  BY DEF Typed
<1>2. \A d \in Calls : call'[d] = (IF d = c THEN k ELSE call[d])
                       /\ history'[d] = IF d = c THEN h ELSE history[d]
  BY DEF Typed
<1>3. AllProgress'
  BY <1>2 DEF AllProgress
<1>4. \A d \in Calls : history'[d].set = history[d].set
  BY <1>2
<1>5. SomebodySetIt'
  BY <1>4 DEF SomebodySetIt
<1> QED
  BY <1>1, <1>3, <1>5

\* A call only goes on to another place.
LEMMA GoesOn ==
  ASSUME IInv, NEW c \in Calls, NEW pc, Goes(c, pc), vm' = vm, history' = history,
         pc \in {"stop", "sleep", "start", "ok", "failed"},
         Progress([call[c] EXCEPT !.pc = pc], history[c])
  PROVE  IInv'
<1>1. call[c] \in CallRecord /\ history[c] \in HistoryRecord
  BY DEF IInv, Typed
<1>2. [call[c] EXCEPT !.pc = pc] \in CallRecord
  BY <1>1 DEF CallRecord
<1>3. call' = [call EXCEPT ![c] = [call[c] EXCEPT !.pc = pc]]
  BY DEF Goes, IInv, Typed
<1>4. history' = [history EXCEPT ![c] = history[c]]
  BY DEF IInv, Typed
<1> QED
  BY <1>1, <1>2, <1>3, <1>4, OneCall

\* A patch that is served: c sets the strategy s and goes on to pc.
LEMMA Sets ==
  ASSUME IInv, NEW c \in Calls, NEW pc, NEW s \in {"Always", "Halted"}, NEW adds \in BOOLEAN,
         Patched(c, s, adds), Goes(c, pc), pc \in {"sleep", "ok", "failed"},
         call[c].pc \in {"stop", "start"},
         s = "Halted" => Off(c) \/ pc \in {"sleep", "failed"},
         s = "Always" /\ Restart(c) => history[c].halted
  PROVE  IInv'
<1> DEFINE H(d) == [history[d] EXCEPT !.halted = @ \/ s = "Halted",
                                      !.set = IF d = c THEN s ELSE @]
<1>1. /\ history' = [d \in Calls |-> H(d)]
      /\ vm' = [vm EXCEPT !.strategy = s, !.forceStop = @ \/ adds]
  BY DEF Patched
<1>2. \A d \in Calls : call[d] \in CallRecord /\ history[d] \in HistoryRecord
  BY DEF IInv, Typed
<1>3. \A d \in Calls : H(d) \in HistoryRecord
  BY <1>2 DEF HistoryRecord
<1>4. \A d \in Calls : /\ H(d).set = IF d = c THEN s ELSE history[d].set
                       /\ history[d].halted => H(d).halted
                       /\ s = "Halted" => H(d).halted
                       /\ H(d).applied = history[d].applied /\ H(d).lost = history[d].lost
  BY <1>2 DEF HistoryRecord
<1>5. /\ call' = [call EXCEPT ![c] = [call[c] EXCEPT !.pc = pc]]
      /\ [call[c] EXCEPT !.pc = pc] \in CallRecord
      /\ [call[c] EXCEPT !.pc = pc].pc = pc /\ [call[c] EXCEPT !.pc = pc].kind = call[c].kind
  BY <1>2 DEF Goes, IInv, Typed, CallRecord
<1> HIDE DEF H
<1>6. Typed'
  BY <1>1, <1>3, <1>5 DEF IInv, Typed
<1>7. \A d \in Calls : call'[d] = (IF d = c THEN [call[c] EXCEPT !.pc = pc] ELSE call[d])
  BY <1>5 DEF IInv, Typed
<1>8. \A d \in Calls : history'[d] = H(d)
  BY <1>1
<1>9. Progress(call'[c], history'[c])
  <2>1. Progress(call[c], history[c])
    BY DEF IInv, AllProgress
  <2>2. call'[c].pc = pc /\ call'[c].kind = call[c].kind
    BY <1>5, <1>7
  <2>3. /\ history'[c].set = s
        /\ history[c].halted => history'[c].halted
        /\ s = "Halted" => history'[c].halted
        /\ history'[c].applied = history[c].applied /\ history'[c].lost = history[c].lost
    BY <1>4, <1>8
  <2>4. history[c].applied \in Nat
    BY <1>2 DEF HistoryRecord
  <2> QED
    BY <2>1, <2>2, <2>3, <2>4 DEF Progress, Off, Restart
<1>10. ASSUME NEW d \in Calls, d # c PROVE Progress(call'[d], history'[d])
  <2>1. Progress(call[d], history[d])
    BY DEF IInv, AllProgress
  <2>2. call'[d] = call[d]
    BY <1>7, <1>10
  <2>3. /\ history'[d].set = history[d].set
        /\ history[d].halted => history'[d].halted
        /\ history'[d].applied = history[d].applied /\ history'[d].lost = history[d].lost
    BY <1>4, <1>8, <1>10
  <2> QED
    BY <2>1, <2>2, <2>3 DEF Progress
<1>11. AllProgress'
  BY <1>9, <1>10 DEF AllProgress
<1>12. vm'.strategy = s /\ history'[c].set = s
  BY <1>1, <1>4, <1>8 DEF IInv, Typed
<1> QED
  BY <1>6, <1>11, <1>12 DEF IInv, SomebodySetIt

----------------------------------------------------------------------------
(* The steps                                                                *)

\* A failed request changes nothing; a call that fails promises nothing.
LEMMA Fails ==
  ASSUME IInv, NEW c \in Calls, Goes(c, "failed"), vm' = vm, history' = history,
         call[c].pc \in {"stop", "start", "request"}
  PROVE  IInv'
<1>1. call[c] \in CallRecord /\ history[c] \in HistoryRecord /\ Progress(call[c], history[c])
  BY DEF IInv, Typed, AllProgress
<1>2. Progress([call[c] EXCEPT !.pc = "failed"], history[c])
  BY <1>1 DEF Progress, CallRecord
<1> QED
  BY <1>2, GoesOn

\* A command makes room for what it is to do.
LEMMA CommandIInv ==
  ASSUME PowerAssumption, IInv, NEW c \in Calls, Command(c)
  PROVE  IInv'
<1>1. call[c] \in CallRecord /\ history[c] \in HistoryRecord /\ Progress(call[c], history[c])
  BY DEF IInv, Typed, AllProgress
<1>2. call[c].pc = "new" /\ history[c].set = "none" /\ history[c].applied = 0 /\ ~history[c].lost
  BY <1>1 DEF Command, Progress
<1>3. PICK kind \in ResetTypes :
        call' = [call EXCEPT ![c].kind = kind, ![c].pc =
          CASE kind \in {"ForceOff", "ForceRestart"} -> "grace"
            [] kind \in {"GracefulShutdown", "GracefulRestart"} -> "stop"
            [] kind = "On" -> "start"
            [] kind \in {"Pause", "Resume"} -> "request"]
  BY DEF Command
<1> DEFINE pc == CASE kind \in {"ForceOff", "ForceRestart"} -> "grace"
                   [] kind \in {"GracefulShutdown", "GracefulRestart"} -> "stop"
                   [] kind = "On" -> "start"
                   [] kind \in {"Pause", "Resume"} -> "request"
           k == [call[c] EXCEPT !.kind = kind, !.pc = pc]
           h == [history[c] EXCEPT !.halted = (vm.strategy = "Halted")]
<1>4. /\ pc \in {"grace", "stop", "start", "request"}
      /\ kind \in {"ForceRestart", "GracefulRestart"} => pc \in {"grace", "stop"}
      /\ pc \in {"grace", "stop"} =>
           kind \in {"ForceOff", "GracefulShutdown", "ForceRestart", "GracefulRestart"}
      /\ pc = "request" => kind \in {"Pause", "Resume"}
  BY DEF ResetTypes
<1> HIDE DEF pc
<1>5. k \in CallRecord /\ k.pc = pc /\ k.kind = kind
  BY <1>1, <1>4 DEF CallRecord
<1>6. /\ h \in HistoryRecord /\ h.set = history[c].set
      /\ h.applied = history[c].applied /\ h.lost = history[c].lost
  BY <1>1 DEF HistoryRecord
<1>7. Progress(k, h)
  BY <1>2, <1>4, <1>5, <1>6 DEF Progress
<1>8. call' = [call EXCEPT ![c] = k]
  <2>1. call' = [call EXCEPT ![c].kind = kind, ![c].pc = pc]
    BY <1>3 DEF pc
  <2>2. call'[c] = k
    BY <1>1, <2>1 DEF CallRecord, IInv, Typed
  <2> QED
    BY <2>1, <2>2 DEF IInv, Typed
<1>9. history' = [history EXCEPT ![c] = h] /\ vm' = vm
  BY DEF Command, IInv, Typed
<1> QED
  BY <1>5, <1>6, <1>7, <1>8, <1>9, OneCall

\* Taking the grace period away goes on to the stop, whether it works or not.
LEMMA GraceIInv ==
  ASSUME IInv, NEW c \in Calls, Grace(c)
  PROVE  IInv'
<1>1. call[c] \in CallRecord /\ history[c] \in HistoryRecord /\ Progress(call[c], history[c])
  BY DEF IInv, Typed, AllProgress
<1>2. Progress([call[c] EXCEPT !.pc = "stop"], history[c])
  BY <1>1 DEF Progress, CallRecord, Grace
<1> QED
  BY <1>2, GoesOn DEF Grace

\* The patch that stops the VM, and what fails of it.
LEMMA StopIInv ==
  ASSUME IInv, NEW c \in Calls, Stop(c)
  PROVE  IInv'
<1> DEFINE next == IF Restart(c) THEN "sleep" ELSE "ok"
<1>1. call[c].pc = "stop" /\ Patch(c, "Halted", Forced(c), next)
  BY DEF Stop
<1>2. call[c] \in CallRecord /\ history[c] \in HistoryRecord /\ Progress(call[c], history[c])
  BY DEF IInv, Typed, AllProgress
<1>3. Forced(c) \in BOOLEAN
  BY DEF Forced
<1>4. CASE Patched(c, "Halted", Forced(c)) /\ Goes(c, next)
  <2>1. next \in {"sleep", "ok"} /\ (Off(c) \/ next = "sleep")
    BY <1>1, <1>2 DEF Progress, Off, Restart
  <2> HIDE DEF next
  <2> QED
    BY <1>1, <1>3, <1>4, <2>1, Sets
<1>5. CASE Patched(c, "Halted", Forced(c)) /\ Goes(c, "failed")
  BY <1>1, <1>3, <1>5, Sets
<1>6. CASE Goes(c, "failed") /\ UNCHANGED <<vm, history>>
  BY <1>1, <1>6, Fails
<1> QED
  BY <1>1, <1>4, <1>5, <1>6 DEF Patch

\* The wait between the stop and the start.
LEMMA WakeIInv ==
  ASSUME IInv, NEW c \in Calls, Wake(c)
  PROVE  IInv'
<1>1. call[c] \in CallRecord /\ history[c] \in HistoryRecord /\ Progress(call[c], history[c])
  BY DEF IInv, Typed, AllProgress
<1>2. Progress([call[c] EXCEPT !.pc = "start"], history[c])
  BY <1>1 DEF Progress, CallRecord, Wake
<1> QED
  BY <1>2, GoesOn DEF Wake

\* The patch that starts the VM, and what fails of it.
LEMMA StartIInv ==
  ASSUME IInv, NEW c \in Calls, Start(c)
  PROVE  IInv'
<1>1. call[c].pc = "start" /\ Patch(c, "Always", FALSE, "ok")
  BY DEF Start
<1>2. call[c] \in CallRecord /\ history[c] \in HistoryRecord /\ Progress(call[c], history[c])
  BY DEF IInv, Typed, AllProgress
<1>3. Restart(c) => history[c].halted
  BY <1>1, <1>2 DEF Progress, Restart
<1>4. CASE Patched(c, "Always", FALSE) /\ Goes(c, "ok")
  BY <1>1, <1>3, <1>4, Sets
<1>5. CASE Patched(c, "Always", FALSE) /\ Goes(c, "failed")
  BY <1>1, <1>3, <1>5, Sets
<1>6. CASE Goes(c, "failed") /\ UNCHANGED <<vm, history>>
  BY <1>1, <1>6, Fails
<1> QED
  BY <1>1, <1>4, <1>5, <1>6 DEF Patch

\* An attempt that is served takes effect once more; unheard, it is excused.
\* Where the time is over, nothing more takes effect.
LEMMA AttemptIInv ==
  ASSUME PowerAssumption, IInv, NEW c \in Calls, Attempt(c) \/ Expires(c)
  PROVE  IInv'
<1>1. call[c] \in CallRecord /\ history[c] \in HistoryRecord /\ Progress(call[c], history[c])
  BY DEF IInv, Typed, AllProgress
<1>2. call[c].pc = "request" /\ vm' = vm /\ call[c].kind \in {"Pause", "Resume"}
      /\ history[c].set # "Halted"
  BY <1>1 DEF Attempt, Expires, Progress
<1> DEFINE k == IF call[c].attempt = MaxAttempts THEN [call[c] EXCEPT !.pc = "failed"]
                ELSE [call[c] EXCEPT !.attempt = @ + 1]
           h == [history[c] EXCEPT !.applied = @ + 1]
           l == [set |-> history[c].set, halted |-> history[c].halted,
                 applied |-> history[c].applied + 1, lost |-> TRUE]
<1>3. k \in CallRecord /\ k.pc \in {"request", "failed"} /\ k.kind = call[c].kind
  BY <1>1, <1>2 DEF CallRecord, PowerAssumption
<1>4. Again(c) => call' = [call EXCEPT ![c] = k]
  <2>1. ASSUME Again(c) PROVE call'[c] = k
    <3>1. CASE call[c].attempt = MaxAttempts
      BY <2>1, <3>1 DEF Again, Goes, IInv, Typed
    <3>2. CASE call[c].attempt # MaxAttempts
      BY <2>1, <3>2 DEF Again, IInv, Typed
    <3> QED
      BY <3>1, <3>2
  <2>2. ASSUME Again(c) PROVE call' = [call EXCEPT ![c] = call'[c]]
    BY <2>2 DEF Again, Goes, IInv, Typed
  <2> QED
    BY <2>1, <2>2
<1>5. /\ h \in HistoryRecord /\ h.set = history[c].set /\ h.halted = history[c].halted
      /\ h.applied = history[c].applied + 1 /\ h.lost = history[c].lost
  BY <1>1 DEF HistoryRecord
<1>6. /\ l \in HistoryRecord /\ l.set = history[c].set /\ l.halted = history[c].halted
      /\ l.lost = TRUE
  BY <1>1 DEF HistoryRecord
<1> HIDE DEF k, h, l
<1>7. CASE Goes(c, "ok") /\ history' = [history EXCEPT ![c].applied = @ + 1]
  <2>1. history' = [history EXCEPT ![c] = h]
    BY <1>7 DEF h, IInv, Typed
  <2>2. /\ [call[c] EXCEPT !.pc = "ok"] \in CallRecord
        /\ [call[c] EXCEPT !.pc = "ok"].pc = "ok" /\ [call[c] EXCEPT !.pc = "ok"].kind = call[c].kind
    BY <1>1 DEF CallRecord
  <2>3. call' = [call EXCEPT ![c] = [call[c] EXCEPT !.pc = "ok"]]
    BY <1>7 DEF Goes, IInv, Typed
  <2>4. history[c].applied \in Nat
    BY <1>1 DEF HistoryRecord
  <2>5. Progress([call[c] EXCEPT !.pc = "ok"], h)
    BY <1>1, <1>2, <1>5, <2>2, <2>4 DEF Progress
  <2> QED
    BY <1>2, <1>5, <2>1, <2>2, <2>3, <2>5, OneCall
<1>8. CASE Goes(c, "failed") /\ history' = history
  BY <1>2, <1>8, Fails
<1>9. CASE Again(c) /\ history' = history
  <2>1. history' = [history EXCEPT ![c] = history[c]]
    BY <1>9 DEF IInv, Typed
  <2>2. Progress(k, history[c])
    BY <1>1, <1>2, <1>3 DEF Progress
  <2> QED
    BY <1>1, <1>2, <1>3, <1>4, <1>9, <2>1, <2>2, OneCall
<1>10. CASE Again(c) /\ history' = [history EXCEPT ![c].applied = @ + 1, ![c].lost = TRUE]
  <2>1. history' = [history EXCEPT ![c] = l]
    <3>1. [history EXCEPT ![c].applied = @ + 1, ![c].lost = TRUE][c] = l
      BY <1>1 DEF l, HistoryRecord, IInv, Typed
    <3> QED
      BY <1>10, <3>1 DEF IInv, Typed
  <2>2. Progress(k, l)
    BY <1>1, <1>2, <1>3, <1>6 DEF Progress
  <2> QED
    BY <1>2, <1>3, <1>4, <1>6, <1>10, <2>1, <2>2, OneCall
<1> QED
  BY <1>7, <1>8, <1>9, <1>10 DEF Attempt, Expires

\* KubeVirt changes the instance and the status, never the run strategy.
LEMMA KubeVirtIInv ==
  ASSUME IInv, Reconcile \/ Boots \/ Vanishes \/ UNCHANGED vars
  PROVE  IInv'
<1>1. call' = call /\ history' = history
  BY DEF Reconcile, Boots, Vanishes, vars
<1>2. "strategy" \in DOMAIN vm' /\ vm'.strategy = vm.strategy
  BY DEF Reconcile, Boots, Vanishes, vars, IInv, Typed
<1>3. Typed'
  BY <1>1, <1>2 DEF IInv, Typed
<1>4. AllProgress' /\ SomebodySetIt'
  BY <1>1, <1>2 DEF IInv, AllProgress, SomebodySetIt
<1> QED
  BY <1>3, <1>4 DEF IInv

\* Every step keeps it.
LEMMA IInvStep ==
  ASSUME PowerAssumption, IInv, [Next]_vars
  PROVE  IInv'
<1>1. ASSUME NEW c \in Calls, SetVMPowerState(c) PROVE IInv'
  BY <1>1, GraceIInv, StopIInv, WakeIInv, StartIInv, AttemptIInv DEF SetVMPowerState
<1> QED
  BY <1>1, CommandIInv, KubeVirtIInv DEF Next

----------------------------------------------------------------------------
(* Type correctness                                                         *)

VMRecord == [strategy : {"Always", "Halted"}, legacy : BOOLEAN, annotated : BOOLEAN,
             forceStop : BOOLEAN, status : {"Stopped", "Stopping", "Starting", "Running", "Paused"}]
VMIRecord == [phase : {"none", "starting", "running", "leaving"}, paused : BOOLEAN, atOnce : BOOLEAN]

\* No attempt takes effect twice.
Counts(k, h) ==
  h.applied <= k.attempt /\ (k.pc \notin {"ok", "failed"} => h.applied < k.attempt)

Counted ==
  /\ call \in [Calls -> CallRecord] /\ history \in [Calls -> HistoryRecord]
  /\ \A c \in Calls : Counts(call[c], history[c])

TInv == vm \in VMRecord /\ vmi \in VMIRecord /\ faults \in 0..MaxFaults /\ Counted

\* From it follow the types of all variables.
LEMMA TInvSuffices ==
  ASSUME PowerAssumption, TInv
  PROVE  TypeOK
<1>1. ASSUME NEW c \in Calls
      PROVE  history[c] \in [set : {"none", "Always", "Halted"}, halted : BOOLEAN,
                             applied : 0..MaxAttempts, lost : BOOLEAN]
  <2>1. call[c] \in CallRecord /\ history[c] \in HistoryRecord /\ Counts(call[c], history[c])
    BY DEF TInv, Counted
  <2>2. history[c].applied \in 0..MaxAttempts
    BY <2>1 DEF CallRecord, HistoryRecord, Counts, PowerAssumption
  <2> QED
    BY <2>1, <2>2 DEF HistoryRecord
<1> QED
  BY <1>1 DEF TInv, Counted, TypeOK, CallRecord, VMRecord, VMIRecord

\* It holds at first.
LEMMA TInvInit ==
  ASSUME PowerAssumption, Init
  PROVE  TInv
<1>1. MaxAttempts \in Nat /\ 1 \in 1..MaxAttempts /\ 0 \in 0..MaxFaults
  BY DEF PowerAssumption
<1>2. Counted
  BY <1>1 DEF Init, Counted, Counts, CallRecord, HistoryRecord, ResetTypes
<1> QED
  BY <1>1, <1>2 DEF Init, TInv, VMRecord, VMIRecord, NoInstance

\* A step of call c that changes its place and its history.
LEMMA CountedAgain ==
  ASSUME Counted, NEW c \in Calls, NEW k \in CallRecord, NEW h \in HistoryRecord,
         call' = [call EXCEPT ![c] = k], history' = [history EXCEPT ![c] = h], Counts(k, h)
  PROVE  Counted'
<1>1. \A d \in Calls : call'[d] = (IF d = c THEN k ELSE call[d])
                       /\ history'[d] = IF d = c THEN h ELSE history[d]
  BY DEF Counted
<1>2. \A d \in Calls : Counts(call'[d], history'[d])
  BY <1>1 DEF Counted
<1> QED
  BY <1>2 DEF Counted

\* A call that goes on, or ends, is counted as before.
LEMMA CountedGoes ==
  ASSUME Counted, NEW c \in Calls, NEW pc, Goes(c, pc), history' = history,
         pc \in {"stop", "sleep", "start", "ok", "failed"}, call[c].pc \notin {"ok", "failed"}
  PROVE  Counted'
<1>1. call[c] \in CallRecord /\ history[c] \in HistoryRecord /\ Counts(call[c], history[c])
  BY DEF Counted
<1> DEFINE k == [call[c] EXCEPT !.pc = pc]
<1>2. k \in CallRecord /\ k.attempt = call[c].attempt
  BY <1>1 DEF CallRecord
<1>3. call' = [call EXCEPT ![c] = k]
  BY DEF Goes, Counted
<1> HIDE DEF k
<1>4. Counts(k, history[c])
  BY <1>1, <1>2 DEF Counts
<1>5. history' = [history EXCEPT ![c] = history[c]]
  BY DEF Counted
<1> QED
  BY <1>1, <1>2, <1>3, <1>4, <1>5, CountedAgain

\* A patch that succeeds counts for the call that made it.
LEMMA CountedPatch ==
  ASSUME TInv, NEW c \in Calls, NEW pc, NEW s \in {"Always", "Halted"}, NEW adds \in BOOLEAN,
         Patched(c, s, adds), Goes(c, pc), pc \in {"sleep", "ok", "failed"},
         call[c].pc \in {"stop", "start"}
  PROVE  Counted' /\ vm' \in VMRecord
<1> DEFINE H(d) == [history[d] EXCEPT !.halted = @ \/ s = "Halted",
                                      !.set = IF d = c THEN s ELSE @]
           k == [call[c] EXCEPT !.pc = pc]
<1>1. \A d \in Calls : call[d] \in CallRecord /\ history[d] \in HistoryRecord /\ Counts(call[d], history[d])
  BY DEF TInv, Counted
<1>2. \A d \in Calls : H(d) \in HistoryRecord /\ H(d).applied = history[d].applied
  BY <1>1 DEF HistoryRecord
<1>3. history' = [d \in Calls |-> H(d)]
  BY DEF Patched
<1>4. k \in CallRecord /\ k.attempt = call[c].attempt
  BY <1>1 DEF CallRecord
<1>5. call' = [call EXCEPT ![c] = k]
  BY DEF Goes, TInv, Counted
<1> HIDE DEF H, k
<1>6. \A d \in Calls : call'[d] = (IF d = c THEN k ELSE call[d]) /\ history'[d] = H(d)
  BY <1>3, <1>5 DEF TInv, Counted
<1>7. \A d \in Calls : Counts(call'[d], history'[d])
  BY <1>1, <1>2, <1>4, <1>6 DEF Counts
<1>8. Counted'
  BY <1>2, <1>3, <1>4, <1>5, <1>7 DEF TInv, Counted
<1>9. vm' \in VMRecord
  <2>1. vm' = [vm EXCEPT !.strategy = s, !.forceStop = @ \/ adds] /\ vm \in VMRecord
    BY DEF Patched, TInv
  <2> QED
    BY <2>1 DEF VMRecord
<1> QED
  BY <1>8, <1>9

\* So the patches keep the types.
LEMMA TInvPatch ==
  ASSUME TInv, PowerAssumption, NEW c \in Calls, NEW next \in {"sleep", "ok"},
         NEW s \in {"Always", "Halted"}, NEW adds \in BOOLEAN,
         Patch(c, s, adds, next), call[c].pc \in {"stop", "start"}, vmi' = vmi
  PROVE  TInv'
<1>1. faults' \in 0..MaxFaults
  BY DEF TInv, Patch, Fault, PowerAssumption
<1>2. Counted' /\ vm' \in VMRecord
  <2>1. CASE Patched(c, s, adds) /\ Goes(c, next)
    BY <2>1, CountedPatch
  <2>2. CASE Patched(c, s, adds) /\ Goes(c, "failed")
    BY <2>2, CountedPatch
  <2>3. CASE Goes(c, "failed") /\ UNCHANGED <<vm, history>>
    BY <2>3, CountedGoes DEF TInv
  <2> QED
    BY <2>1, <2>2, <2>3 DEF Patch
<1> QED
  BY <1>1, <1>2 DEF TInv

\* What may become of the instance.
LEMMA InstanceTyped ==
  ASSUME vmi \in VMIRecord
  PROVE  /\ \A b \in BOOLEAN : [vmi EXCEPT !.atOnce = b] \in VMIRecord
         /\ [vmi EXCEPT !.paused = ~@] \in VMIRecord
         /\ \A p \in {"running", "leaving"} : [vmi EXCEPT !.phase = p] \in VMIRecord
         /\ NoInstance \in VMIRecord /\ [NoInstance EXCEPT !.phase = "starting"] \in VMIRecord
<1>1. \A b \in BOOLEAN : [vmi EXCEPT !.atOnce = b] \in VMIRecord
  BY DEF VMIRecord
<1>2. [vmi EXCEPT !.paused = ~@] \in VMIRecord
  BY DEF VMIRecord
<1>3. \A p \in {"running", "leaving"} : [vmi EXCEPT !.phase = p] \in VMIRecord
  BY DEF VMIRecord
<1>4. NoInstance \in VMIRecord /\ [NoInstance EXCEPT !.phase = "starting"] \in VMIRecord
  BY DEF VMIRecord, NoInstance
<1> QED
  BY <1>1, <1>2, <1>3, <1>4

\* A command starts its counts.
LEMMA TInvCommand ==
  ASSUME PowerAssumption, TInv, NEW c \in Calls, Command(c)
  PROVE  TInv'
<1>1. call[c] \in CallRecord /\ history[c] \in HistoryRecord /\ Counts(call[c], history[c])
  BY DEF TInv, Counted
<1>2. PICK kind \in ResetTypes, pc \in {"grace", "stop", "start", "request"} :
        call' = [call EXCEPT ![c].kind = kind, ![c].pc = pc]
  BY DEF Command, ResetTypes
<1> DEFINE k == [call[c] EXCEPT !.kind = kind, !.pc = pc]
           h == [history[c] EXCEPT !.halted = (vm.strategy = "Halted")]
<1>3. k \in CallRecord /\ k.attempt = call[c].attempt /\ k.pc = pc
  BY <1>1 DEF CallRecord
<1>4. h \in HistoryRecord /\ h.applied = history[c].applied
  BY <1>1 DEF HistoryRecord
<1>5. call' = [call EXCEPT ![c] = k]
  <2>1. call'[c] = k
    BY <1>1, <1>2 DEF CallRecord, TInv, Counted
  <2> QED
    BY <1>2, <2>1 DEF TInv, Counted
<1>6. history' = [history EXCEPT ![c] = h]
  BY DEF Command, TInv, Counted
<1>7. Counts(k, h)
  BY <1>1, <1>3, <1>4 DEF Command, Counts
<1> HIDE DEF k, h
<1>8. Counted'
  BY <1>3, <1>4, <1>5, <1>6, <1>7, CountedAgain DEF TInv
<1> QED
  BY <1>8 DEF Command, TInv

\* A further attempt is within its bound.
LEMMA TInvAttempt ==
  ASSUME PowerAssumption, TInv, NEW c \in Calls, Attempt(c) \/ Expires(c)
  PROVE  TInv'
<1>1. call[c] \in CallRecord /\ history[c] \in HistoryRecord /\ Counts(call[c], history[c])
  BY DEF TInv, Counted
<1>2. call[c].pc = "request" /\ vm' = vm /\ history[c].applied < call[c].attempt
      /\ history[c].applied \in Nat /\ call[c].attempt \in 1..MaxAttempts
  BY <1>1 DEF Attempt, Expires, Counts, CallRecord, HistoryRecord
<1>3. faults' \in 0..MaxFaults /\ vmi' \in VMIRecord
  <2>1. faults' \in 0..MaxFaults
    BY DEF Attempt, Expires, Fault, TInv, PowerAssumption
  <2>2. vmi' = vmi \/ vmi' = [vmi EXCEPT !.paused = ~@]
    BY DEF Attempt, Expires, Served
  <2> QED
    BY <2>1, <2>2, InstanceTyped DEF TInv
<1>4. ASSUME NEW n \in {0, 1}, NEW lost \in BOOLEAN,
             Goes(c, "ok") \/ Goes(c, "failed") \/ Again(c),
             history' = [history EXCEPT ![c] = [set |-> history[c].set, halted |-> history[c].halted,
                                                applied |-> history[c].applied + n, lost |-> lost]]
      PROVE  Counted'
  <2> DEFINE h == [set |-> history[c].set, halted |-> history[c].halted,
                   applied |-> history[c].applied + n, lost |-> lost]
  <2>1. h \in HistoryRecord /\ h.applied = history[c].applied + n
    BY <1>1, <1>2 DEF HistoryRecord
  <2> HIDE DEF h
  <2>2. CASE Goes(c, "ok") \/ Goes(c, "failed")
    <3>1. PICK pc \in {"ok", "failed"} : call' = [call EXCEPT ![c] = [call[c] EXCEPT !.pc = pc]]
      BY <2>2 DEF Goes, TInv, Counted
    <3>2. /\ [call[c] EXCEPT !.pc = pc] \in CallRecord
          /\ [call[c] EXCEPT !.pc = pc].pc = pc
          /\ [call[c] EXCEPT !.pc = pc].attempt = call[c].attempt
      BY <1>1 DEF CallRecord
    <3>3. Counts([call[c] EXCEPT !.pc = pc], h)
      BY <1>2, <2>1, <3>2 DEF Counts
    <3> QED
      BY <1>4, <2>1, <3>1, <3>2, <3>3, CountedAgain DEF h, TInv
  <2>3. CASE Again(c) /\ call[c].attempt # MaxAttempts
    <3> DEFINE k == [call[c] EXCEPT !.attempt = @ + 1]
    <3>1. k \in CallRecord /\ k.attempt = call[c].attempt + 1
      BY <1>1, <1>2, <2>3 DEF CallRecord, PowerAssumption
    <3>2. call' = [call EXCEPT ![c] = k]
      BY <2>3 DEF Again, TInv, Counted
    <3> HIDE DEF k
    <3>3. Counts(k, h)
      BY <1>2, <2>1, <3>1 DEF Counts
    <3> QED
      BY <1>4, <2>1, <3>1, <3>2, <3>3, CountedAgain DEF h, TInv
  <2> QED
    BY <1>4, <2>2, <2>3 DEF Again
<1>5. history' = history \/ history' = [history EXCEPT ![c].applied = @ + 1]
      \/ history' = [history EXCEPT ![c].applied = @ + 1, ![c].lost = TRUE]
  BY DEF Attempt, Expires
<1>6. PICK n \in {0, 1}, lost \in BOOLEAN :
        history' = [history EXCEPT ![c] = [set |-> history[c].set, halted |-> history[c].halted,
                                           applied |-> history[c].applied + n, lost |-> lost]]
  <2>1. \A n \in {0, 1}, lost \in BOOLEAN :
          [set |-> history[c].set, halted |-> history[c].halted,
           applied |-> history[c].applied + n, lost |-> lost] \in HistoryRecord
    BY <1>1, <1>2 DEF HistoryRecord
  <2>2. history[c].lost \in BOOLEAN
    BY <1>1 DEF HistoryRecord
  <2>3. CASE history' = history
    <3>1. history[c] = [set |-> history[c].set, halted |-> history[c].halted,
                        applied |-> history[c].applied + 0, lost |-> history[c].lost]
      BY <1>1, <1>2 DEF HistoryRecord
    <3>2. history' = [history EXCEPT ![c] = history[c]]
      BY <2>3 DEF TInv, Counted
    <3> QED
      BY <2>2, <3>1, <3>2
  <2>4. CASE history' = [history EXCEPT ![c].applied = @ + 1]
    <3>1. [history[c] EXCEPT !.applied = @ + 1]
            = [set |-> history[c].set, halted |-> history[c].halted,
               applied |-> history[c].applied + 1, lost |-> history[c].lost]
      BY <1>1 DEF HistoryRecord
    <3>2. history' = [history EXCEPT ![c] = [history[c] EXCEPT !.applied = @ + 1]]
      BY <2>4 DEF TInv, Counted
    <3> QED
      BY <2>2, <3>1, <3>2
  <2>5. CASE history' = [history EXCEPT ![c].applied = @ + 1, ![c].lost = TRUE]
    <3>1. history'[c] = [set |-> history[c].set, halted |-> history[c].halted,
                         applied |-> history[c].applied + 1, lost |-> TRUE]
      BY <1>1, <2>5 DEF HistoryRecord, TInv, Counted
    <3>2. history' = [history EXCEPT ![c] = history'[c]]
      BY <2>5 DEF TInv, Counted
    <3> QED
      BY <3>1, <3>2
  <2> QED
    BY <1>5, <2>3, <2>4, <2>5
<1>7. Counted'
  BY <1>4, <1>6 DEF Attempt, Expires
<1> QED
  BY <1>2, <1>3, <1>7 DEF TInv

\* What KubeVirt does, it does to the instance.
LEMMA TInvKubeVirt ==
  ASSUME TInv, Reconcile \/ Boots \/ Vanishes \/ UNCHANGED vars
  PROVE  TInv'
<1>1. vmi' \in VMIRecord
  BY InstanceTyped DEF Reconcile, Boots, Vanishes, vars, TInv
<1>2. vm' \in VMRecord
  <2>1. Printable(vmi') \in {"Stopped", "Stopping", "Starting", "Running", "Paused"}
    BY <1>1 DEF Printable, VMIRecord
  <2> QED
    BY <2>1 DEF Reconcile, Boots, Vanishes, vars, TInv, VMRecord
<1>3. Counted' /\ faults' = faults
  BY DEF Reconcile, Boots, Vanishes, vars, TInv, Counted
<1> QED
  BY <1>1, <1>2, <1>3 DEF TInv

\* Every step keeps it.
LEMMA TInvStep ==
  ASSUME PowerAssumption, TInv, [Next]_vars
  PROVE  TInv'
<1>1. ASSUME NEW c \in Calls, Grace(c) PROVE TInv'
  <2>1. vmi' \in VMIRecord /\ faults' \in 0..MaxFaults
    <3>1. faults' \in 0..MaxFaults
      BY <1>1 DEF Grace, TInv, Fault, PowerAssumption
    <3>2. (vmi.phase # "none") \in BOOLEAN
      OBVIOUS
    <3> QED
      BY <1>1, <3>1, <3>2, InstanceTyped DEF Grace, TInv
  <2>2. Counted'
    BY <1>1, CountedGoes DEF Grace, TInv
  <2> QED
    BY <1>1, <2>1, <2>2 DEF Grace, TInv
<1>2. ASSUME NEW c \in Calls, Stop(c) PROVE TInv'
  <2>1. Forced(c) \in BOOLEAN /\ (IF Restart(c) THEN "sleep" ELSE "ok") \in {"sleep", "ok"}
    BY DEF Forced
  <2> QED
    BY <1>2, <2>1, TInvPatch DEF Stop
<1>3. ASSUME NEW c \in Calls, Wake(c) PROVE TInv'
  BY <1>3, CountedGoes DEF Wake, TInv
<1>4. ASSUME NEW c \in Calls, Start(c) PROVE TInv'
  BY <1>4, TInvPatch DEF Start
<1>5. ASSUME NEW c \in Calls, SetVMPowerState(c) PROVE TInv'
  BY <1>1, <1>2, <1>3, <1>4, <1>5, TInvAttempt DEF SetVMPowerState
<1> QED
  BY <1>5, TInvCommand, TInvKubeVirt DEF Next

----------------------------------------------------------------------------
\* However power commands overlap and their requests fail, the machine is left
\* halted only where one asked for it or a restart failed half-way, a restart
\* that reports success has halted the machine, and no Pause or Resume takes
\* effect twice unless an answer was lost (SetVMPowerState, errors.Retry).
THEOREM CommandsAreRespected ==
  ASSUME PowerAssumption
  PROVE  Spec => []CommandsRespected
<1>1. Init => IInv
  BY InitIInv
<1>2. IInv /\ [Next]_vars => IInv'
  BY IInvStep
<1>3. IInv => CommandsRespected
  BY IInvSuffices
<1> QED
  BY <1>1, <1>2, <1>3, PTL DEF Spec
=============================================================================
