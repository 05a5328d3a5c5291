SPECIFICATION FairSpec
CONSTANTS
    N = 3
    Plans <- ExecutorPlans
    Polls = TRUE
    HasPrompts = TRUE
INVARIANTS
    IInv InputsProduced TasksJoined WaitLedger DeferredExact
    DeclaredWaitsAcyclic DependenciesVisited FinishedCleanly SensitiveNeverRuns
    PauseHasCause CheckpointNeverAhead CheckpointComplete
PROPERTIES ImplementsContract Terminates CompletedForever FailureStopsStarts
