SPECIFICATION ResumeSpec
CONSTANTS
    N = 2
    Plans <- ResumePlans
    Polls = FALSE
    HasPrompts = FALSE
    Silent = {}
    MaxMessages = 3
    MaxCrashes = 0
INVARIANT NeverRunTwice
