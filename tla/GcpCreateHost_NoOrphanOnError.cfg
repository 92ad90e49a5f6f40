CONSTANT MaxAttempts = 6
SPECIFICATION Spec
INVARIANT NoOrphanOnError
CHECK_DEADLOCK FALSE
