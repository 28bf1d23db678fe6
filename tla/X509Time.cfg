SPECIFICATION Spec
CONSTANTS
    Garbage = garbage
    MaxExtn = 3
    Certs <- TimeCerts
INVARIANT
    TimesAsWritten
CHECK_DEADLOCK FALSE
