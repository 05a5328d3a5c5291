SPECIFICATION Spec
CONSTANTS
    free1 = free1
    free2 = free2
    keyed = keyed
    None = None
    Provider = {free1, free2, keyed}
    ByPriority <- Priorities
    Keyed = {keyed}
    Search = {s1}
    Threshold = 2
    MaxSearches = 6
    MaxRestarts = 0
PROPERTY FailingPrimaryIsOpen
CHECK_DEADLOCK FALSE
