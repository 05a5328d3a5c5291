SPECIFICATION Spec
CONSTANTS
    N = 3
    Plans <- MutualPlans
    Polls = FALSE
    HasPrompts = FALSE
INVARIANT WaitsAcyclic
