SPECIFICATION Spec
CONSTANTS
    free1 = free1
    free2 = free2
    keyed = keyed
    None = None
    Provider = {free1, free2, keyed}
    ByPriority <- Priorities
    Keyed = {keyed}
    Search = {s1, s2}
    Threshold = 2
    MaxSearches = 3
    MaxRestarts = 1
INVARIANTS TypeOK OpenPrimaryIsReplaced
PROPERTIES UnavailableIsHonest
CHECK_DEADLOCK FALSE
SYMMETRY Alike
