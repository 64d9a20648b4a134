CONSTANTS
    Payloads <- MCPayloads
    Bundles <- MCBundles
    Requests <- MCRequests
    None = none
SPECIFICATION Spec
INVARIANTS
    AdapterIsFaithful
    MachineShows
    MinutesCanBePrinted
CHECK_DEADLOCK FALSE
