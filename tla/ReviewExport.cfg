CONSTANTS
    Original = original
    Edits = {edit1, edit2, draft}
    Reviewed = {edit1, edit2}
    None = none
    MaxRevision = 3
    MaxFaults = 4
SPECIFICATION Spec
INVARIANTS
    CommittedReviewIsThere
    ConfirmedRevisionStays
    ExportShowsApproved
    ExportCanBeRepeated
PROPERTIES
    ContractSpec
