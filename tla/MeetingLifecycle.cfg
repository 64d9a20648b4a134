CONSTANTS
    Meetings = {m1}
    MaxAttempts = 2
    MaxFaults = 2
SPECIFICATION FairSpec
INVARIANTS
    TypeOK
    CleanupIsTrue
    OneRunPerAttempt
PROPERTIES
    ContractSpec
    AudioExpires
    QueuedStarts
    AttemptsEnd
    ReceiptsAreRead
CHECK_DEADLOCK FALSE
