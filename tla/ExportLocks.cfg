CONSTANTS
    Exports = {export1, export2}
    Puts = {put1, put2}
    Approvals = {approve1}
    Workers = 5
    None = none
SPECIFICATION FairSpec
INVARIANTS
    BytesAreCurrent
    PDFBuiltOnce
    LockHasAnOwner
PROPERTIES
    EveryCallEnds
CHECK_DEADLOCK FALSE
