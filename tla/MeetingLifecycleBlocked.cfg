CONSTANTS
    Meetings = {m1, m2}
    MaxAttempts = 1
    MaxFaults = 1
SPECIFICATION FairSpec
PROPERTIES
    QueuedStarts
CHECK_DEADLOCK FALSE
