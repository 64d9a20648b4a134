CONSTANTS
    Tabs = {tab1, tab2}
    SpeechEdits = {speakers}
    Speakers = speakers
    MinuteEdits = {task}
    None = none
    MaxRetries = 1
    MaxRevision = 2
    MaxFaults = 1
SPECIFICATION Spec
INVARIANTS
    SavedEditsStay
    ApprovedWasSeen
PROPERTIES
    ResultsAppear
CHECK_DEADLOCK FALSE
