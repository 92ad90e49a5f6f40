\* Up to six CreateHost attempts (10 minutes of 5 s delays and slow inserts)
\* before the long-operation timeout; the power operations are not bounded.
CONSTANT MaxAttempts = 6
SPECIFICATION PowerSpec
INVARIANT PowerOpHonest
PROPERTY ReadyOnReturn
\* A failed CreateHost leaves nothing to do.
CHECK_DEADLOCK FALSE
