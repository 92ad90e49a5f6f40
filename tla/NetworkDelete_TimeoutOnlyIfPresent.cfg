CONSTANTS
    MaxCalls = 3
    RecordedIDs = {TRUE, FALSE}
SPECIFICATION Spec
INVARIANT TimeoutOnlyIfPresent
CHECK_DEADLOCK FALSE
