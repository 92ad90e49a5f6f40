\* One Create, with or without failover and KeepOnFailure, every call able to fail,
\* the parent and each subtask weakly fair.
SPECIFICATION FairSpec
INVARIANTS RollbackComplete SuccessComplete
PROPERTY Quiescence
\* Create has returned and its subtasks have ended: nothing is left to do.
CHECK_DEADLOCK FALSE
