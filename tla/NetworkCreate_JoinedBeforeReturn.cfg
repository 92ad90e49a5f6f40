SPECIFICATION Spec
INVARIANT JoinedBeforeReturn
CHECK_DEADLOCK FALSE
