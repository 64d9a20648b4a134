CONSTANTS
    Uploads = {audio, video}
    Videos = {video}
    None = none
    MaxFaults = 2
SPECIFICATION FairSpec
INVARIANTS
    AcceptedIsKept
PROPERTIES
    LeftoversGo
CHECK_DEADLOCK FALSE
