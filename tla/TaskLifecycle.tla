--------------------------- MODULE TaskLifecycle ---------------------------
(***************************************************************************)
(* What an asynchronous Redfish task promises the client that polls it:    *)
(* it is created pending, runs, ends once, keeps its end state, and is     *)
(* forgotten only after it ended or because the service went away.         *)
(***************************************************************************)
CONSTANT Task

VARIABLE state

Init == state = [t \in Task |-> "none"]

Change(t, from, to) == state[t] = from /\ state' = [state EXCEPT ![t] = to]

Create(t) == Change(t, "none", "pending")
Start(t) == Change(t, "pending", "running")
End(t) == Change(t, "running", "completed") \/ Change(t, "running", "exception")

\* Any number of ended tasks are forgotten at once.
Forget(S) ==
  /\ \A t \in S : state[t] \in {"completed", "exception"}
  /\ state' = [t \in Task |-> IF t \in S THEN "gone" ELSE state[t]]

\* The service stops: every task known so far is gone.
Close == state' = [t \in Task |-> IF state[t] = "none" THEN "none" ELSE "gone"]

Next ==
  \/ \E t \in Task : Create(t) \/ Start(t) \/ End(t)
  \/ \E S \in SUBSET Task : Forget(S)
  \/ Close

Spec == Init /\ [][Next]_state
=============================================================================
