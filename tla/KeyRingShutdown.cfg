\* The claim of the message printed when the server closes itself.
SPECIFICATION Spec
CONSTANTS
    early = early
    mid1 = mid1
    mid2 = mid2
    late = late
    none = none
    NoCert = none
    Certs <- MCCerts
    Expiry <- MCExpiry
    SigSize <- MCSigSize
    Times <- MCTimes
    Inputs <- MCInputs
INVARIANT
    AllHaveExpired
CHECK_DEADLOCK FALSE
