---------------------------- MODULE MCBackground ----------------------------
(***************************************************************************)
(* The parts of Background on small instances, for TLC, with the fairness   *)
(* their modules state.                                                     *)
(***************************************************************************)
EXTENDS Background

MCBreaker == [Calls |-> {"c1", "c2", "c3"}, failureThreshold |-> 2, MaxForced |-> 2]

MCScheduler ==
  [Names |-> {"j"}, Objects |-> {1, 2}, Executions |-> {"e1", "e2"},
   Schedule |-> 2, MaxRetries |-> 1, MaxCalls |-> 1]

MCHealth ==
  [Checks |-> {"db"}, Critical |-> {"db"}, Runs |-> {1, 2}, Interval |-> 2, Timeout |-> 1,
   MaxAdded |-> 2]

MCHealing == [Breakers |-> {"b1", "b2", "b3"}]

MCPower == [Calls |-> {"c1", "c2"}, MaxAttempts |-> 3, MaxFaults |-> 1]

MCServer == [Requests |-> {"r1"}, MaxReloads |-> 2]

----------------------------------------------------------------------------
\* What each part's module takes to be fair, and why, is said there.  At most
\* one of the actions under one WF belongs to the part that runs.
First ==
  \/ part = "breaker" /\ Breaker!Proceed("c1") /\ To9
  \/ part = "scheduler" /\ Scheduler!Tick /\ To8
  \/ part = "healing" /\ Healing!Returns("b1") /\ To5
  \/ part = "power" /\ Power!Reconcile /\ To6
  \/ part = "server" /\ Server!Start /\ UNCHANGED part
Second ==
  \/ part = "breaker" /\ Breaker!Proceed("c2") /\ To9
  \/ part = "scheduler" /\ Scheduler!Loop /\ To8
  \/ part = "healing" /\ Healing!Returns("b2") /\ To5
  \/ part = "power" /\ Power!Boots /\ To6
  \/ part = "server" /\ Server!RestartWatchers("reload") /\ UNCHANGED part
Third ==
  \/ part = "breaker" /\ Breaker!Proceed("c3") /\ To9
  \/ part = "scheduler" /\ Scheduler!executeJob("e1") /\ To8
  \/ part = "healing" /\ Healing!Returns("b3") /\ To5
  \/ part = "power" /\ Power!Vanishes /\ To6
  \/ part = "server" /\ Server!Watchers /\ UNCHANGED part
Fourth ==
  \/ part = "scheduler" /\ Scheduler!executeJob("e2") /\ To8
  \/ part = "server" /\ Server!Finish /\ UNCHANGED part

Strong == part = "healing" /\ Healing!Healing /\ To5

FairSpec ==
  /\ Spec /\ SF_vars(Strong)
  /\ WF_vars(First) /\ WF_vars(Second) /\ WF_vars(Third) /\ WF_vars(Fourth)
=============================================================================
