---------------------------- MODULE MCBootOnce ----------------------------
(***************************************************************************)
(* BootOnce for TLC.  One boot update meets everything the model has; a     *)
(* second one is sent only over the instance that runs at first, for the    *)
(* next boot like the first, and without failing calls: two that straddle a *)
(* reboot lose the boot order, which has a run of its own.                  *)
(***************************************************************************)
EXTENDS BootOnce

VARIABLE first   \* the instances there have been at first

SecondIsCalm ==
  (\A r \in Request : request'[r].at # "idle") =>
    /\ boots' = first /\ faults' = 0
    /\ \A r \in Request : request'[r].enabled = "Once"

MCInit == Init /\ first = boots
MCNext == Next /\ SecondIsCalm /\ UNCHANGED first
MCSpec == MCInit /\ [][MCNext]_<<vars, first>> /\ Fairness
=============================================================================
