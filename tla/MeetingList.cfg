CONSTANTS
    Meetings = {1, 2, 3, 4}
    Ready = {2, 3}
    Limit = 2
SPECIFICATION Spec
INVARIANTS
    NewestFirst
    SteadyIsListed
CHECK_DEADLOCK FALSE
