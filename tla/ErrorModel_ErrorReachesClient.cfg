\* A constructor or a plain error, then up to two Wrap/NewError/ErrListError calls.
CONSTANT MaxWraps = 2
SPECIFICATION Spec
INVARIANT ErrorReachesClient
\* The error has reached the client: nothing is left to do.
CHECK_DEADLOCK FALSE
