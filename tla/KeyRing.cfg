\* Every load order of four keys, every buffer, every clock reading.
SPECIFICATION FairSpec
CONSTANTS
    early = early
    mid1 = mid1
    mid2 = mid2
    late = late
    none = none
    NoCert = none
    Certs <- MCCerts
    Expiry <- MCExpiry
    SigSize <- MCSigSize
    Times <- MCTimes
    Inputs <- MCInputs
INVARIANT
    TypeOK
PROPERTIES
    ImplementsKeyAuth
    PassEnds
\* CloseServer ends the program.
CHECK_DEADLOCK FALSE
