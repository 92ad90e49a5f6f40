\* Gateway ids recorded, as spec 4.7 Create step 6 expects.
CONSTANTS
    MaxCalls = 3
    RecordedIDs = {TRUE}
SPECIFICATION Spec
INVARIANT GatewayReachable
CHECK_DEADLOCK FALSE
