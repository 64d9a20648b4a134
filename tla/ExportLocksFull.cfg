CONSTANTS
    Exports = {export1, export2, export3}
    Puts = {}
    Approvals = {}
    Workers = 2
    None = none
SPECIFICATION FairSpec
PROPERTIES
    EveryCallEnds
CHECK_DEADLOCK FALSE
