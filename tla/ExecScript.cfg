\* Scripts up to twice the pipe's capacity, every point at which bash may stop.
SPECIFICATION FairSpec
CONSTANTS
    PipeCap = 3
    MaxSize = 6
    Failing = {"pipe", "fork", "dup2", "execlp", "write"}
INVARIANTS
    TypeOK
    EntireScript
    AnnouncedFirst
    NothingLeftBehind
    NoMutualWait
PROPERTY
    ReturnsUnlessStuck
CHECK_DEADLOCK FALSE
