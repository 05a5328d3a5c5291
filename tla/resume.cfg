SPECIFICATION ResumeSpec
CONSTANTS
    N = 2
    Plans <- ResumePlans
    Polls = FALSE
    HasPrompts = FALSE
    Silent = {1}
    MaxMessages = 3
    MaxCrashes = 1
INVARIANTS
    ResumeTypeOK EffectsOnce OutputsHeld NotAskedTwice DeferredExact
