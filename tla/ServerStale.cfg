SPECIFICATION Spec
CONSTANTS
    k = k
    none = none
    NoCert = none
    Certs <- MCCerts
    Expiry <- MCExpiry
    SigSize <- MCSigSize
    Times <- MCTimes
    Inputs <- MCInputs
    NConns = 3
    Msg <- MCTwo
    MsgSize <- MCMsgSize
    Resetters = {}
    TcpBacklog = 1
    MaxEvents = 2
    MaxConcurrency = 2
    InitCap = 1
    MaxScript = 2
    ClockSteps = {0, 1}
    Forking = {}
    Failing = {}
INVARIANT
    VerifiedAfterTermination
CHECK_DEADLOCK FALSE
