\* One network, a client retrying Delete up to three times, gateway ids recorded or not.
CONSTANTS
    MaxCalls = 3
    RecordedIDs = {TRUE, FALSE}
SPECIFICATION Spec
INVARIANTS NoUntrackedNetwork SuccessMeansGone
PROPERTY TeardownOrdered
\* A client stops calling once the network is gone or its retries are spent.
CHECK_DEADLOCK FALSE
