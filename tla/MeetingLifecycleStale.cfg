CONSTANTS
    Meetings = {m1}
    MaxAttempts = 1
    MaxFaults = 0
SPECIFICATION FairSpec
PROPERTIES
    ConfirmedCleanupShows
CHECK_DEADLOCK FALSE
