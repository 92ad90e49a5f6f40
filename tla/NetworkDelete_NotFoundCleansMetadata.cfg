CONSTANTS
    MaxCalls = 3
    RecordedIDs = {TRUE, FALSE}
SPECIFICATION Spec
INVARIANT NotFoundCleansMetadata
CHECK_DEADLOCK FALSE
