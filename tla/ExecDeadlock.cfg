\* No system call fails.
SPECIFICATION FairSpec
CONSTANTS
    PipeCap = 3
    MaxSize = 6
    Failing = {}
PROPERTY
    AlwaysReturns
CHECK_DEADLOCK FALSE
