SPECIFICATION Spec
CONSTANTS
    N = 3
    Plans <- SerialPlans
    Polls = FALSE
    HasPrompts = FALSE
INVARIANT NeverThrows
