CONSTANTS
    Retries = {retry1, retry2}
    Deletes = {delete1}
    Originals <- TwoOriginals
    None = none
    MaxFaults = 2
SPECIFICATION Spec
INVARIANTS
    OriginalsSurvive
    AcceptedRetryIsClean
    DeletedStaysGone
PROPERTIES
    CallsEnd
    TombstoneGoes
