\* The readme's promise, at a time when one certificate of four has expired.
SPECIFICATION Spec
CONSTANTS
    early = early
    mid1 = mid1
    mid2 = mid2
    late = late
    none = none
    NoCert = none
    Certs <- MCCerts
    Expiry <- MCExpiry
    SigSize <- MCSigSize
    Times <- MCOneTime
    Inputs <- MCInputs
INVARIANT
    GenuineAccepted
CHECK_DEADLOCK FALSE
