SPECIFICATION OrchSpec
CONSTANTS
    N = 2
    Plans <- WorkPlans
    Polls = TRUE
    HasPrompts = FALSE
    File = {1, 2}
    Scope <- OwnFile
    LocalNodes = {2}
    Quiet = {}
    NodeMaxSteps = 20
    MaxEscalations = 2
    Seeds <- EarlierRuns
    Workspaces <- EmptyOrNot
    MaxWrites = 4
INVARIANT InnocentNotBlamed
