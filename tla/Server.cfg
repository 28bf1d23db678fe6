SPECIFICATION FairSpec
CONSTANTS
    k = k
    none = none
    NoCert = none
    Certs <- MCCerts
    Expiry <- MCExpiry
    SigSize <- MCSigSize
    Times <- MCTimes
    Inputs <- MCInputs
    NConns = 3
    Msg <- MCMsg
    MsgSize <- MCMsgSize
    Resetters = {1}
    TcpBacklog = 1
    MaxEvents = 2
    MaxConcurrency = 2
    InitCap = 1
    MaxScript = 2
    ClockSteps = {1}
    Forking = {1}
    Failing = {"accept", "epoll_wait", "epoll_ctl", "exec"}
INVARIANTS
    TypeOK
    ConnsTotalExact
    TableOwnsFds
    OwnBytes
    BufRoom
    WholeStream
    AcceptNeverBlocks
    AssertionsHold
PROPERTIES
    TerminatedIsResolved
    BacklogIsServed
CHECK_DEADLOCK FALSE
