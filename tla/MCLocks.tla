------------------------------ MODULE MCLocks ------------------------------
(* The methods of the health checker that take mutexes, for TLC. *)
EXTENDS ServiceLocks

CONSTANT Threads
VARIABLES op, pc, announced

INSTANCE LockOrder WITH Program <- HealthChecker
=============================================================================
