--------------------------- MODULE MCTaskManager ---------------------------
(***************************************************************************)
(* TaskManager for TLC.  Tasks are interchangeable, so they are taken to be *)
(* created in the order of their numbers: no behaviour is lost but for the  *)
(* names, and unlike a SYMMETRY this is sound for liveness, too, because    *)
(* nobody has to create a task.                                             *)
(***************************************************************************)
EXTENDS TaskManager

InOrder ==
  \A t, u \in Task : u < t /\ taskState'[t] # "Unused" => taskState'[u] # "Unused"

MCSpec == Init /\ [][Next /\ InOrder]_vars /\ Fairness
=============================================================================
