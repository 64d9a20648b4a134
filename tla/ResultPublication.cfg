CONSTANTS
    Originals <- MCOriginals
    Manifest <- MCManifest
    MaxFaults = 4
SPECIFICATION FairSpec
INVARIANTS
    TypeOK
    AckedResultIsDurable
    ManifestIsLast
    EarlyRemovalNeedsResult
PROPERTIES
    ResultIsNeverWithdrawn
    HandoverSpec
    CleanupFinishes
    MeetingSettles
CHECK_DEADLOCK FALSE
