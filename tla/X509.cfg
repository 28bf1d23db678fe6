SPECIFICATION Spec
CONSTANTS
    Garbage = garbage
    MaxExtn = 3
    Certs <- MCCerts
INVARIANTS
    TypeOK
    Nested
    ParserAssertionsHold
    FullyInitialized
    FieldsAreSigned
    FlagsByTheirExtension
    AcceptsExactly
    FieldsAsWritten
PROPERTIES
    Advances
    Returns
CHECK_DEADLOCK FALSE
