SPECIFICATION Spec
CONSTANT Threads = {"probe", "metrics"}
INVARIANT NoDeadlock
CHECK_DEADLOCK FALSE
