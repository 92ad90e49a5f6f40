SPECIFICATION Spec
INVARIANT NoKeyPairLeak
CHECK_DEADLOCK FALSE
